------------------------- MODULE ConversionCacheProofs ------------------------
(***************************************************************************)
(* Theorems about two components that share nothing: the conversions       *)
(* between Go and Python values, for any depth and size of what is         *)
(* converted, and the cache of the standard library, for any number of     *)
(* processes, files, failures and kills.                                   *)
(***************************************************************************)
EXTENDS Conversion, StdlibCache, SequenceTheorems, TLAPS

(* Where the C function last called has returned, or is running.            *)
AfterC == {"set", "big", "bytes", "list", "keys", "keystr", "get", "index", "code", "print",
           "type", "str", "import", "attr", "lines", "len", "line", "call", "name"}

(* Where a function waits for the one it called.                            *)
Waiting == {"item", "key", "value", "failed", "int", "first", "second", "result", "fn",
            "done", "unprintable"}

Functions == Methods \cup {"toPy", "fromPy", "int64", "pyError", "callHost"}
Locations == AfterC \cup Waiting \cup {"start", "items", "pairs"}
Frames == [op : Functions, at : Locations, inC : BOOLEAN, held : Int, left : Int]

(* What a function holds is determined by where it is.                      *)
HeldAt(o, l) ==
  IF o = "toPy" THEN IF l \in {"items", "pairs", "item", "key"} THEN 1
                     ELSE IF l = "value" THEN 2 ELSE IF l = "set" THEN 3 ELSE 0
  ELSE IF (o = "fromPy" /\ l = "value") \/ (o = "pyError" /\ l = "attr") THEN 1 ELSE 0

Kept == {f \in Frames : f.held = HeldAt(f.op, f.at) /\ (f.inC => f.at \in AfterC)}

(* Host functions are called by C code, everything else by Go code.         *)
Waits(f, o) == IF o = "callHost" THEN f.inC ELSE ~f.inC /\ f.at \in Waiting

Linked(s) ==
  /\ s # << >> => s[Len(s)].op \in Methods
  /\ \A k \in 1..Len(s) : k > 1 => Waits(s[k], s[k - 1].op)

(* The exception in the thread state is the one of the C function that has  *)
(* just failed, or the one that pyError is called for.                      *)
ExcAt(f, r, e) ==
  IF f.at \in AfterC THEN r \in {"ok", "null"} /\ (e = "none" <=> r = "ok")
  ELSE e # "none" <=> f.op = "pyError" /\ f.at = "start"

Consumed ==
  \/ "left" \in seen
  \/ /\ "missing" \notin seen
     /\ stack = << >> => exc = "none"
     /\ stack # << >> /\ ~Top.inC => ExcAt(Top, ret, exc)

Inv ==
  /\ stack \in Seq(Kept) /\ Linked(stack)
  /\ "unbalanced" \notin seen
  /\ Consumed

-----------------------------------------------------------------------------
(* The four ways in which the stack changes.                                *)

LEMMA Replaced ==  \* the innermost function goes on
  ASSUME NEW S, NEW s \in Seq(S), s # << >>, NEW f \in S, NEW t, t = <<f>> \o Tail(s)
  PROVE  /\ t \in Seq(S) /\ t # << >> /\ Head(t) = f /\ t[1] = f
         /\ Head(s) = s[1] /\ Len(t) = Len(s) /\ Len(s) \in Nat /\ Len(s) > 0
         /\ \A k \in 1..Len(s) : k > 1 => t[k] = s[k]
  OBVIOUS

LEMMA Called ==  \* it calls another one
  ASSUME NEW S, NEW s \in Seq(S), s # << >>, NEW f \in S, NEW e \in S,
         NEW t, t = <<e, f>> \o Tail(s)
  PROVE  /\ t \in Seq(S) /\ t # << >> /\ Head(t) = e /\ t[1] = e /\ t[2] = f
         /\ Head(s) = s[1] /\ Len(t) = Len(s) + 1 /\ Len(s) \in Nat /\ Len(s) > 0
         /\ \A k \in 1..Len(t) : k > 2 => k - 1 \in 1..Len(s) /\ t[k] = s[k - 1]
  OBVIOUS

LEMMA Emptied ==  \* nobody is left
  ASSUME NEW S, NEW t \in Seq(S)
  PROVE  t = << >> <=> Len(t) = 0
  OBVIOUS

LEMMA Popped ==  \* it returns
  ASSUME NEW S, NEW s \in Seq(S), s # << >>, NEW t, t = Tail(s)
  PROVE  /\ t \in Seq(S) /\ (t # << >> => Head(t) = t[1] /\ t[1] \in S)
         /\ Head(s) = s[1] /\ Head(s) \in S /\ Len(s) = Len(t) + 1 /\ Len(t) \in Nat
         /\ t = << >> <=> Len(t) = 0
         /\ \A k \in 1..Len(t) : k + 1 \in 1..Len(s) /\ t[k] = s[k + 1]
<1>1. t \in Seq(S)
  OBVIOUS
<1>2. t = << >> <=> Len(t) = 0
  BY <1>1, Emptied
<1>3. /\ t # << >> => Head(t) = t[1] /\ t[1] \in S
      /\ Head(s) = s[1] /\ Head(s) \in S /\ Len(s) = Len(t) + 1 /\ Len(t) \in Nat
      /\ \A k \in 1..Len(t) : k + 1 \in 1..Len(s) /\ t[k] = s[k + 1]
  OBVIOUS
<1> QED
  BY <1>1, <1>2, <1>3

LEMMA Pushed ==  \* a new one is called from outside
  ASSUME NEW S, NEW s \in Seq(S), NEW f \in S, NEW t, t = <<f>> \o s
  PROVE  /\ t \in Seq(S) /\ t # << >> /\ Head(t) = f /\ t[1] = f
         /\ Len(t) = Len(s) + 1 /\ Len(s) \in Nat
         /\ s # << >> => Head(s) = s[1] /\ Len(s) > 0
         /\ s = << >> <=> Len(s) = 0
         /\ \A k \in 1..Len(t) : k > 1 => k - 1 \in 1..Len(s) /\ t[k] = s[k - 1]
  OBVIOUS

LEMMA FrameKept ==  \* a function begins with nothing
  ASSUME NEW o \in Functions
  PROVE  /\ Frame(o, "start") \in Kept /\ Frame(o, "start").op = o
         /\ Frame(o, "start").at = "start" /\ ~Frame(o, "start").inC
<1> DEFINE e == [op |-> o, at |-> "start", inC |-> FALSE, held |-> 0, left |-> 0]
<1>0. "start" \in Locations
  BY DEF Locations
<1>1. e \in Frames
  BY <1>0 DEF Frames
<1>a. e.op = o /\ e.at = "start" /\ e.inC = FALSE /\ e.held = 0
  OBVIOUS
<1>2. HeldAt(o, "start") = 0
  BY DEF HeldAt
<1>3. e \in Kept
  BY <1>1, <1>a, <1>2 DEF Kept
<1> QED
  BY <1>a, <1>3 DEF Frame

-----------------------------------------------------------------------------
(* What a step of each kind must do to keep Inv.                            *)

(* It adds no mistake to seen but those that are accounted for.             *)
SeenKept == seen \subseteq seen' /\ "unbalanced" \notin seen'

(* The innermost function goes on with the frame f. *)
LEMMA BecomeKeeps ==
  ASSUME Inv, stack # << >>, NEW f \in Kept, f.op = Top.op, Become(f), SeenKept,
         \/ "left" \in seen'
         \/ "missing" \notin seen' /\ (~f.inC => ExcAt(f, ret', exc'))
  PROVE  Inv'
<1>1. /\ stack' \in Seq(Kept) /\ stack' # << >> /\ Head(stack') = f /\ stack'[1] = f
      /\ Top = stack[1] /\ Len(stack') = Len(stack) /\ Len(stack) \in Nat /\ Len(stack) > 0
      /\ \A k \in 1..Len(stack) : k > 1 => stack'[k] = stack[k]
  BY Replaced DEF Inv, Become, Top
<1>2. Linked(stack)'
  <2>1. stack'[Len(stack')].op \in Methods
    BY <1>1 DEF Inv, Linked
  <2>2. \A k \in 1..Len(stack) : stack'[k].op = stack[k].op
    BY <1>1
  <2> QED
    BY <1>1, <2>1, <2>2 DEF Inv, Linked
<1>3. Consumed'
  BY <1>1 DEF Consumed, Top
<1> QED
  BY <1>1, <1>2, <1>3 DEF Inv, SeenKept

(* The innermost function, left as f, calls o. *)
LEMMA CallKeeps ==
  ASSUME Inv, stack # << >>, NEW f \in Kept, f.op = Top.op, ~f.inC, f.at \in Waiting,
         NEW o \in {"toPy", "fromPy", "int64", "pyError"}, Call(f, o), SeenKept,
         \/ "left" \in seen'
         \/ "missing" \notin seen' /\ (exc' # "none" <=> o = "pyError")
  PROVE  Inv'
<1> DEFINE e == Frame(o, "start")
<1>0. e \in Kept /\ e.op = o /\ e.at = "start" /\ ~e.inC /\ o # "callHost"
  BY FrameKept DEF Functions
<1>1. /\ stack' \in Seq(Kept) /\ stack' # << >> /\ Head(stack') = e /\ stack'[1] = e /\ stack'[2] = f
      /\ Top = stack[1] /\ Len(stack') = Len(stack) + 1 /\ Len(stack) \in Nat /\ Len(stack) > 0
      /\ \A k \in 1..Len(stack') : k > 2 => k - 1 \in 1..Len(stack) /\ stack'[k] = stack[k - 1]
  BY <1>0, Called DEF Inv, Call, Top
<1> HIDE DEF e
<1>a. \A k \in 1..Len(stack') : k > 1 => k - 1 \in 1..Len(stack) /\ stack'[k].op = stack[k - 1].op
  BY <1>1
<1>2. Linked(stack)'
  <2>1. stack'[Len(stack')].op \in Methods
    BY <1>1, <1>a DEF Inv, Linked
  <2>2. ASSUME NEW k \in 1..Len(stack'), k > 1 PROVE Waits(stack'[k], stack'[k - 1].op)
    <3>1. CASE k = 2
      BY <1>0, <1>1, <3>1 DEF Waits
    <3>2. CASE k # 2
      <4>1. k > 2 /\ k - 1 \in 1..Len(stack) /\ k - 1 > 1 /\ k - 1 \in 1..Len(stack') /\ (k - 1) - 1 = k - 2
        BY <1>1, <2>2, <3>2
      <4>2. stack'[k] = stack[k - 1] /\ stack'[k - 1].op = stack[(k - 1) - 1].op
        BY <1>1, <1>a, <4>1
      <4> QED
        BY <4>1, <4>2 DEF Inv, Linked
    <3> QED
      BY <3>1, <3>2
  <2> QED
    BY <1>1, <2>1, <2>2 DEF Linked
<1>3. Consumed'
  BY <1>0, <1>1 DEF Consumed, Top, ExcAt, AfterC
<1> QED
  BY <1>1, <1>2, <1>3 DEF Inv, SeenKept

(* The innermost function returns. *)
LEMMA PopKeeps ==
  ASSUME Inv, stack # << >>, stack' = Tail(stack), SeenKept,
         \/ "left" \in seen'
         \/ "missing" \notin seen' /\ (Top.op # "callHost" => exc' = "none")
  PROVE  Inv'
<1>1. /\ stack' \in Seq(Kept) /\ (stack' # << >> => Head(stack') = stack'[1] /\ stack'[1] \in Kept)
      /\ Top = stack[1] /\ Len(stack) = Len(stack') + 1 /\ Len(stack') \in Nat
      /\ stack' = << >> <=> Len(stack') = 0
      /\ \A k \in 1..Len(stack') : k + 1 \in 1..Len(stack) /\ stack'[k] = stack[k + 1]
  <2>1. stack \in Seq(Kept)
    BY DEF Inv
  <2>2. stack' \in Seq(Kept) /\ (stack' # << >> => Head(stack') = stack'[1] /\ stack'[1] \in Kept)
    BY <2>1, Popped
  <2>3. Top = stack[1] /\ Len(stack) = Len(stack') + 1 /\ Len(stack') \in Nat
    BY <2>1, Popped DEF Top
  <2>4. stack' = << >> <=> Len(stack') = 0
    BY <2>2, Emptied
  <2>5. \A k \in 1..Len(stack') : k + 1 \in 1..Len(stack) /\ stack'[k] = stack[k + 1]
    BY <2>1, Popped
  <2> QED
    BY <2>2, <2>3, <2>4, <2>5
<1>2. Linked(stack)'
  <2>1. stack' # << >> => stack'[Len(stack')].op \in Methods
    BY <1>1 DEF Inv, Linked
  <2>2. ASSUME NEW k \in 1..Len(stack'), k > 1 PROVE Waits(stack'[k], stack'[k - 1].op)
    <3>1. k + 1 \in 1..Len(stack) /\ k + 1 > 1 /\ k - 1 \in 1..Len(stack') /\ (k - 1) + 1 = k /\ (k + 1) - 1 = k
      BY <1>1, <2>2
    <3>2. Waits(stack[k + 1], stack[k].op)
      BY <3>1 DEF Inv, Linked
    <3>3. stack'[k] = stack[k + 1] /\ stack'[k - 1] = stack[k]
      BY <1>1, <3>1
    <3> QED
      BY <3>2, <3>3
  <2> QED
    BY <2>1, <2>2 DEF Linked
<1>3. Consumed'
  <2>1. stack' = << >> => Top.op \in Methods
    BY <1>1 DEF Inv, Linked
  <2>2. stack' # << >> => Waits(Head(stack'), Top.op)
    <3>1. stack' # << >> => 1 \in 1..Len(stack') /\ 2 \in 1..Len(stack) /\ 2 > 1 /\ 2 - 1 = 1
      BY <1>1
    <3>2. stack' # << >> => Waits(stack[2], stack[1].op)
      BY <3>1 DEF Inv, Linked
    <3> QED
      BY <1>1, <3>1, <3>2
  <2>3. CASE "left" \in seen'
    BY <2>3 DEF Consumed
  <2>4. CASE "missing" \notin seen' /\ (Top.op # "callHost" => exc' = "none")
    <3>1. stack' = << >> => exc' = "none"
      BY <2>1, <2>4 DEF Methods
    <3>2. stack' # << >> /\ ~Head(stack').inC => ExcAt(Head(stack'), ret', exc')
      BY <2>2, <2>4 DEF Waits, ExcAt, Waiting, AfterC
    <3> QED
      BY <2>4, <3>1, <3>2 DEF Consumed, Top
  <2> QED
    BY <2>3, <2>4
<1> QED
  BY <1>1, <1>2, <1>3 DEF Inv, SeenKept

(* C code or nobody calls a function o. *)
LEMMA PushKeeps ==
  ASSUME Inv, NEW o \in Methods \cup {"callHost"}, stack' = <<Frame(o, "start")>> \o stack, SeenKept,
         stack = << >> => o \in Methods,
         stack # << >> => Waits(Top, o),
         "left" \in seen' \/ ("missing" \notin seen' /\ exc' = "none")
  PROVE  Inv'
<1> DEFINE e == Frame(o, "start")
<1>0. e \in Kept /\ e.op = o /\ e.at = "start" /\ ~e.inC /\ o # "pyError" /\ o # "int64"
  BY FrameKept DEF Functions, Methods
<1>1. /\ stack' \in Seq(Kept) /\ stack' # << >> /\ Head(stack') = e /\ stack'[1] = e
      /\ Len(stack') = Len(stack) + 1 /\ Len(stack) \in Nat
      /\ stack # << >> => Top = stack[1] /\ Len(stack) > 0
      /\ stack = << >> <=> Len(stack) = 0
      /\ \A k \in 1..Len(stack') : k > 1 => k - 1 \in 1..Len(stack) /\ stack'[k] = stack[k - 1]
  BY <1>0, Pushed DEF Inv, Top
<1> HIDE DEF e
<1>2. Linked(stack)'
  <2>1. stack'[Len(stack')].op \in Methods
    BY <1>0, <1>1 DEF Inv, Linked
  <2>2. ASSUME NEW k \in 1..Len(stack'), k > 1 PROVE Waits(stack'[k], stack'[k - 1].op)
    <3>1. CASE k = 2
      BY <1>0, <1>1, <3>1
    <3>2. CASE k # 2
      <4>1. k - 1 \in 1..Len(stack) /\ k - 1 > 1 /\ k - 1 \in 1..Len(stack')
        BY <1>1, <2>2, <3>2
      <4>2. stack'[k] = stack[k - 1] /\ stack'[k - 1] = stack[(k - 1) - 1]
        BY <1>1, <2>2, <4>1
      <4> QED
        BY <4>1, <4>2 DEF Inv, Linked
    <3> QED
      BY <3>1, <3>2
  <2> QED
    BY <1>1, <2>1, <2>2 DEF Linked
<1>3. Consumed'
  BY <1>0, <1>1 DEF Consumed, Top, ExcAt, AfterC
<1> QED
  BY <1>1, <1>2, <1>3 DEF Inv, SeenKept

-----------------------------------------------------------------------------

(* What a function does to its frame leaves it one. *)
LEMMA BelowFrame ==
  ASSUME NEW f \in Frames, NEW l \in Locations
  PROVE  Below(f, l) \in Frames
BY DEF Below, Frames

LEMMA HoldFrame ==  \* ... counting references
  ASSUME NEW f \in Frames, NEW n \in Int
  PROVE  Hold(f, n) \in Frames
BY DEF Hold, Frames

LEMMA LeftFrame ==  \* ... counting elements
  ASSUME NEW f \in Frames, NEW n \in Int
  PROVE  [f EXCEPT !.left = n] \in Frames
BY DEF Frames

LEMMA DownFrame ==  \* ... one element less
  ASSUME NEW f \in Frames
  PROVE  [f EXCEPT !.left = @ - 1] \in Frames
BY DEF Frames

LEMMA RunFrame ==  \* ... entering C code
  ASSUME NEW f \in Frames, NEW l \in Locations
  PROVE  [f EXCEPT !.at = l, !.inC = TRUE] \in Frames
BY DEF Frames

LEMMA TopKept ==  \* the innermost function is where it may be
  ASSUME Inv, stack # << >>
  PROVE  Top \in Kept
BY DEF Inv, Top

LEMMA Unwritten ==  \* nothing is noted
  ASSUME Inv, UNCHANGED seen
  PROVE  SeenKept
BY DEF Inv, SeenKept

(* A failure is passed on. *)
LEMMA FailedKeeps == Inv /\ Failed => Inv'
<1> SUFFICES ASSUME Inv, Failed PROVE Inv'
  OBVIOUS
<1>0. /\ stack # << >> /\ Top \in Kept /\ ~Top.inC /\ Top.held = 0
      /\ Top.at = "failed"
      /\ "left" \in seen \/ ("missing" \notin seen /\ (exc = "none"))
  <2>1. stack # << >> /\ ~Top.inC /\ Top.at = "failed"
    BY DEF Failed, At
  <2>2. Top \in Kept
    BY <2>1, TopKept
  <2>3. Top.held = 0
    BY <2>1, <2>2 DEF Kept, HeldAt, Methods
  <2> QED
    BY <2>1, <2>2, <2>3 DEF Inv, Consumed, ExcAt, AfterC
<1>1. Inv'
  <2>2. stack' = Tail(stack) /\ UNCHANGED seen
    BY <1>0 DEF Failed, Return, Pop, Unbalanced
  <2>3. "left" \in seen' \/ ("missing" \notin seen' /\ (Top.op # "callHost" => exc' = "none"))
    BY <1>0, <2>2 DEF Failed, Methods
  <2> QED
    BY <1>0, <2>2, <2>3, Unwritten, PopKeeps
<1> QED
  BY <1>1

(* Nothing is held by a value that is no container. *)
LEMMA ToPyLeafKeeps == Inv /\ ToPyLeaf => Inv'
<1> SUFFICES ASSUME Inv, ToPyLeaf PROVE Inv'
  OBVIOUS
<1>0. /\ stack # << >> /\ Top \in Kept /\ ~Top.inC /\ Top.held = 0
      /\ Top.op = "toPy" /\ Top.at = "start"
      /\ "left" \in seen \/ ("missing" \notin seen /\ (exc = "none"))
  <2>1. stack # << >> /\ ~Top.inC /\ Top.op = "toPy" /\ Top.at = "start"
    BY DEF ToPyLeaf, At
  <2>2. Top \in Kept
    BY <2>1, TopKept
  <2>3. Top.held = 0
    BY <2>1, <2>2 DEF Kept, HeldAt, Methods
  <2> QED
    BY <2>1, <2>2, <2>3 DEF Inv, Consumed, ExcAt, AfterC
<1>1. ASSUME Return(Top, "ref"), UNCHANGED exc PROVE Inv'
  <2>2. stack' = Tail(stack) /\ UNCHANGED seen
    BY <1>0, <1>1 DEF ToPyLeaf, Return, Pop, Unbalanced
  <2>3. "left" \in seen' \/ ("missing" \notin seen' /\ (Top.op # "callHost" => exc' = "none"))
    BY <1>0, <1>1, <2>2 DEF ToPyLeaf, Methods
  <2> QED
    BY <1>0, <2>2, <2>3, Unwritten, PopKeeps
<1>2. ASSUME Return(Top, "err"), UNCHANGED exc PROVE Inv'
  <2>2. stack' = Tail(stack) /\ UNCHANGED seen
    BY <1>0, <1>2 DEF ToPyLeaf, Return, Pop, Unbalanced
  <2>3. "left" \in seen' \/ ("missing" \notin seen' /\ (Top.op # "callHost" => exc' = "none"))
    BY <1>0, <1>2, <2>2 DEF ToPyLeaf, Methods
  <2> QED
    BY <1>0, <2>2, <2>3, Unwritten, PopKeeps
<1>3. ASSUME PyError(Top), exc' = "error", UNCHANGED <<ret, seen>> PROVE Inv'
  <2> DEFINE f == Below(Top, "failed")
  <2>1. f \in Kept /\ f.op = Top.op /\ ~f.inC /\ f.at \in Waiting
    BY <1>0 DEF Kept, Frames, HeldAt, Hold, Below, Functions, Methods, Locations, AfterC, Waiting
  <2>2. Call(f, "pyError") /\ UNCHANGED seen
    BY <1>0, <1>3 DEF ToPyLeaf, PyError
  <2> HIDE DEF f
  <2>3. "left" \in seen' \/ ("missing" \notin seen' /\ (exc' # "none" <=> "pyError" = "pyError"))
    BY <1>0, <1>3, <2>2 DEF ToPyLeaf
  <2> QED
    BY <1>0, <2>1, <2>2, <2>3, Unwritten, CallKeeps
<1> QED
  BY <1>0, <1>1, <1>2, <1>3 DEF ToPyLeaf

(* From here on toPy holds the new container. *)
LEMMA ToPyContainerKeeps == Inv /\ ToPyContainer => Inv'
<1> SUFFICES ASSUME Inv, ToPyContainer PROVE Inv'
  OBVIOUS
<1>0. /\ stack # << >> /\ Top \in Kept /\ ~Top.inC /\ Top.held = 0
      /\ Top.op = "toPy" /\ Top.at = "start"
      /\ "left" \in seen \/ ("missing" \notin seen /\ (exc = "none"))
  <2>1. stack # << >> /\ ~Top.inC /\ Top.op = "toPy" /\ Top.at = "start"
    BY DEF ToPyContainer, At
  <2>2. Top \in Kept
    BY <2>1, TopKept
  <2>3. Top.held = 0
    BY <2>1, <2>2 DEF Kept, HeldAt, Methods
  <2> QED
    BY <2>1, <2>2, <2>3 DEF Inv, Consumed, ExcAt, AfterC
<1>1. ASSUME NEW l \in {"items", "pairs"}, NEW n \in 0..MaxItems, Become([Hold(Below(Top, l), 1) EXCEPT !.left = n]) PROVE Inv'
  <2> DEFINE f == [Hold(Below(Top, l), 1) EXCEPT !.left = n]
  <2>1. f \in Kept /\ f.op = Top.op /\ f.at \notin AfterC /\ f.at # "start" /\ ~f.inC
    <3>1. f \in Frames
      <4>0. n \in Int
        BY ConversionAssumption
      <4>1. Below(Top, l) \in Frames
        BY <1>0, BelowFrame DEF Kept, Locations, AfterC, Waiting
      <4>2. Hold(Below(Top, l), 1) \in Frames
        BY <1>0, <4>1, HoldFrame DEF Kept
      <4> QED
        BY <4>2, <4>0, LeftFrame
    <3>2. f.op = Top.op /\ f.at = l /\ f.inC = FALSE /\ f.held = 1
      BY <1>0 DEF Kept, Frames, Hold, Below
    <3> HIDE DEF f
    <3> QED
      BY <1>0, <3>1, <3>2 DEF Kept, HeldAt, Methods, AfterC, Waiting
  <2>2. Become(f) /\ UNCHANGED seen
    BY <1>0, <1>1 DEF ToPyContainer, Run
  <2> HIDE DEF f
  <2>3. "left" \in seen' \/ ("missing" \notin seen' /\ ExcAt(f, ret', exc'))
    BY <1>0, <1>1, <2>1, <2>2 DEF ToPyContainer, ExcAt
  <2> QED
    BY <1>0, <2>1, <2>2, <2>3, Unwritten, BecomeKeeps
<1> QED
  BY <1>0, <1>1 DEF ToPyContainer

(* The container is returned, or the next element converted. *)
LEMMA ToPyNextKeeps == Inv /\ ToPyNext => Inv'
<1> SUFFICES ASSUME Inv, ToPyNext PROVE Inv'
  OBVIOUS
<1>0. /\ stack # << >> /\ Top \in Kept /\ ~Top.inC /\ Top.held = 1
      /\ Top.op = "toPy" /\ Top.at \in {"items", "pairs"}
      /\ "left" \in seen \/ ("missing" \notin seen /\ (exc = "none"))
  <2>1. stack # << >> /\ ~Top.inC /\ Top.op = "toPy" /\ Top.at \in {"items", "pairs"}
    BY DEF ToPyNext, At
  <2>2. Top \in Kept
    BY <2>1, TopKept
  <2>3. Top.held = 1
    BY <2>1, <2>2 DEF Kept, HeldAt, Methods
  <2> QED
    BY <2>1, <2>2, <2>3 DEF Inv, Consumed, ExcAt, AfterC
<1>1. ASSUME Top.left = 0 PROVE Inv'
  <2>1. Hold(Top, -1).held = 0
    BY <1>0 DEF Kept, Frames, Hold
  <2>2. stack' = Tail(stack) /\ UNCHANGED seen
    BY <1>0, <1>1, <2>1 DEF ToPyNext, Return, Pop, Unbalanced
  <2>3. "left" \in seen' \/ ("missing" \notin seen' /\ (Top.op # "callHost" => exc' = "none"))
    BY <1>0, <1>1, <2>2 DEF ToPyNext, Methods
  <2> QED
    BY <1>0, <2>2, <2>3, Unwritten, PopKeeps
<1>2. ASSUME Top.left # 0 PROVE Inv'
  <2> DEFINE f == Below(Top, IF Top.at = "items" THEN "item" ELSE "key")
  <2>1. f \in Kept /\ f.op = Top.op /\ ~f.inC /\ f.at \in Waiting
    BY <1>0 DEF Kept, Frames, HeldAt, Hold, Below, Functions, Methods, Locations, AfterC, Waiting
  <2>2. Call(f, "toPy") /\ UNCHANGED seen
    BY <1>0, <1>2 DEF ToPyNext, PyError
  <2> HIDE DEF f
  <2>3. "left" \in seen' \/ ("missing" \notin seen' /\ (exc' # "none" <=> "toPy" = "pyError"))
    BY <1>0, <1>2, <2>2 DEF ToPyNext
  <2> QED
    BY <1>0, <2>1, <2>2, <2>3, Unwritten, CallKeeps
<1> QED
  BY <1>0, <1>1, <1>2 DEF ToPyNext

(* PyList_SetItem takes the element over. *)
LEMMA ToPyItemKeeps == Inv /\ ToPyItem => Inv'
<1> SUFFICES ASSUME Inv, ToPyItem PROVE Inv'
  OBVIOUS
<1>0. /\ stack # << >> /\ Top \in Kept /\ ~Top.inC /\ Top.held = 1
      /\ Top.op = "toPy" /\ Top.at = "item"
      /\ "left" \in seen \/ ("missing" \notin seen /\ (exc = "none"))
  <2>1. stack # << >> /\ ~Top.inC /\ Top.op = "toPy" /\ Top.at = "item"
    BY DEF ToPyItem, At
  <2>2. Top \in Kept
    BY <2>1, TopKept
  <2>3. Top.held = 1
    BY <2>1, <2>2 DEF Kept, HeldAt, Methods
  <2> QED
    BY <2>1, <2>2, <2>3 DEF Inv, Consumed, ExcAt, AfterC
<1>1. ASSUME ret = "err" PROVE Inv'
  <2>1. Hold(Top, -1).held = 0
    BY <1>0 DEF Kept, Frames, Hold
  <2>2. stack' = Tail(stack) /\ UNCHANGED seen
    BY <1>0, <1>1, <2>1 DEF ToPyItem, Return, Pop, Unbalanced
  <2>3. "left" \in seen' \/ ("missing" \notin seen' /\ (Top.op # "callHost" => exc' = "none"))
    BY <1>0, <1>1, <2>2 DEF ToPyItem, Methods
  <2> QED
    BY <1>0, <2>2, <2>3, Unwritten, PopKeeps
<1>2. ASSUME ret # "err" PROVE Inv'
  <2> DEFINE f == [Below(Top, "items") EXCEPT !.left = @ - 1]
  <2>1. f \in Kept /\ f.op = Top.op /\ f.at \notin AfterC /\ f.at # "start" /\ ~f.inC
    <3>1. f \in Frames
      <4>1. Below(Top, "items") \in Frames
        BY <1>0, BelowFrame DEF Kept, Locations, AfterC, Waiting
      <4> QED
        BY <4>1, DownFrame
    <3>2. f.op = Top.op /\ f.at = "items" /\ f.inC = FALSE /\ f.held = Top.held
      BY <1>0 DEF Kept, Frames, Hold, Below
    <3> HIDE DEF f
    <3> QED
      BY <1>0, <3>1, <3>2 DEF Kept, HeldAt, Methods, AfterC, Waiting
  <2>2. Become(f) /\ UNCHANGED seen
    BY <1>0, <1>2 DEF ToPyItem, Run
  <2> HIDE DEF f
  <2>3. "left" \in seen' \/ ("missing" \notin seen' /\ ExcAt(f, ret', exc'))
    BY <1>0, <1>2, <2>1, <2>2 DEF ToPyItem, ExcAt
  <2> QED
    BY <1>0, <2>1, <2>2, <2>3, Unwritten, BecomeKeeps
<1> QED
  BY <1>0, <1>1, <1>2 DEF ToPyItem

(* The key is held beside the container. *)
LEMMA ToPyKeyKeeps == Inv /\ ToPyKey => Inv'
<1> SUFFICES ASSUME Inv, ToPyKey PROVE Inv'
  OBVIOUS
<1>0. /\ stack # << >> /\ Top \in Kept /\ ~Top.inC /\ Top.held = 1
      /\ Top.op = "toPy" /\ Top.at = "key"
      /\ "left" \in seen \/ ("missing" \notin seen /\ (exc = "none"))
  <2>1. stack # << >> /\ ~Top.inC /\ Top.op = "toPy" /\ Top.at = "key"
    BY DEF ToPyKey, At
  <2>2. Top \in Kept
    BY <2>1, TopKept
  <2>3. Top.held = 1
    BY <2>1, <2>2 DEF Kept, HeldAt, Methods
  <2> QED
    BY <2>1, <2>2, <2>3 DEF Inv, Consumed, ExcAt, AfterC
<1>1. ASSUME ret = "err" PROVE Inv'
  <2>1. Hold(Top, -1).held = 0
    BY <1>0 DEF Kept, Frames, Hold
  <2>2. stack' = Tail(stack) /\ UNCHANGED seen
    BY <1>0, <1>1, <2>1 DEF ToPyKey, Return, Pop, Unbalanced
  <2>3. "left" \in seen' \/ ("missing" \notin seen' /\ (Top.op # "callHost" => exc' = "none"))
    BY <1>0, <1>1, <2>2 DEF ToPyKey, Methods
  <2> QED
    BY <1>0, <2>2, <2>3, Unwritten, PopKeeps
<1>2. ASSUME ret # "err" PROVE Inv'
  <2> DEFINE f == Hold(Below(Top, "value"), 1)
  <2>1. f \in Kept /\ f.op = Top.op /\ ~f.inC /\ f.at \in Waiting
    <3>1. f \in Frames
      <4>1. Below(Top, "value") \in Frames
        BY <1>0, BelowFrame DEF Kept, Locations, AfterC, Waiting
      <4> QED
        BY <4>1, HoldFrame
    <3>2. f.op = Top.op /\ f.at = "value" /\ f.inC = FALSE /\ f.held = Top.held + 1
      BY <1>0 DEF Kept, Frames, Hold, Below
    <3> HIDE DEF f
    <3> QED
      BY <1>0, <3>1, <3>2 DEF Kept, HeldAt, Methods, AfterC, Waiting
  <2>2. Call(f, "toPy") /\ UNCHANGED seen
    BY <1>0, <1>2 DEF ToPyKey, PyError
  <2> HIDE DEF f
  <2>3. "left" \in seen' \/ ("missing" \notin seen' /\ (exc' # "none" <=> "toPy" = "pyError"))
    BY <1>0, <1>2, <2>2 DEF ToPyKey
  <2> QED
    BY <1>0, <2>1, <2>2, <2>3, Unwritten, CallKeeps
<1> QED
  BY <1>0, <1>1, <1>2 DEF ToPyKey

(* Container, key and value are held. *)
LEMMA ToPyValueKeeps == Inv /\ ToPyValue => Inv'
<1> SUFFICES ASSUME Inv, ToPyValue PROVE Inv'
  OBVIOUS
<1>0. /\ stack # << >> /\ Top \in Kept /\ ~Top.inC /\ Top.held = 2
      /\ Top.op = "toPy" /\ Top.at = "value"
      /\ "left" \in seen \/ ("missing" \notin seen /\ (exc = "none"))
  <2>1. stack # << >> /\ ~Top.inC /\ Top.op = "toPy" /\ Top.at = "value"
    BY DEF ToPyValue, At
  <2>2. Top \in Kept
    BY <2>1, TopKept
  <2>3. Top.held = 2
    BY <2>1, <2>2 DEF Kept, HeldAt, Methods
  <2> QED
    BY <2>1, <2>2, <2>3 DEF Inv, Consumed, ExcAt, AfterC
<1>1. ASSUME ret = "err" PROVE Inv'
  <2>1. Hold(Top, -2).held = 0
    BY <1>0 DEF Kept, Frames, Hold
  <2>2. stack' = Tail(stack) /\ UNCHANGED seen
    BY <1>0, <1>1, <2>1 DEF ToPyValue, Return, Pop, Unbalanced
  <2>3. "left" \in seen' \/ ("missing" \notin seen' /\ (Top.op # "callHost" => exc' = "none"))
    BY <1>0, <1>1, <2>2 DEF ToPyValue, Methods
  <2> QED
    BY <1>0, <2>2, <2>3, Unwritten, PopKeeps
<1>2. ASSUME ret # "err" PROVE Inv'
  <2> DEFINE f == [Hold(Top, 1) EXCEPT !.at = "set", !.inC = TRUE]
  <2>1. f \in Kept /\ f.op = Top.op /\ f.inC
    <3>1. f \in Frames
      <4>1. Hold(Top, 1) \in Frames
        BY <1>0, HoldFrame DEF Kept
      <4> QED
        BY <4>1, RunFrame DEF Locations, AfterC
    <3>2. f.op = Top.op /\ f.at = "set" /\ f.inC = TRUE /\ f.held = 3
      BY <1>0 DEF Kept, Frames, Hold, Below
    <3> HIDE DEF f
    <3> QED
      BY <1>0, <3>1, <3>2 DEF Kept, HeldAt, Methods, AfterC, Waiting
  <2>2. Become(f) /\ UNCHANGED seen
    BY <1>0, <1>2 DEF ToPyValue, Run
  <2> HIDE DEF f
  <2>3. "left" \in seen' \/ "missing" \notin seen'
    BY <1>0, <2>2
  <2> QED
    BY <1>0, <2>1, <2>2, <2>3, Unwritten, BecomeKeeps
<1> QED
  BY <1>0, <1>1, <1>2 DEF ToPyValue

(* Key and value are given back on both ways out. *)
LEMMA ToPySetKeeps == Inv /\ ToPySet => Inv'
<1> SUFFICES ASSUME Inv, ToPySet PROVE Inv'
  OBVIOUS
<1>0. /\ stack # << >> /\ Top \in Kept /\ ~Top.inC /\ Top.held = 3
      /\ Top.op = "toPy" /\ Top.at = "set"
      /\ "left" \in seen \/ ("missing" \notin seen /\ (ret \in {"ok", "null"} /\ (exc = "none" <=> ret = "ok")))
  <2>1. stack # << >> /\ ~Top.inC /\ Top.op = "toPy" /\ Top.at = "set"
    BY DEF ToPySet, At
  <2>2. Top \in Kept
    BY <2>1, TopKept
  <2>3. Top.held = 3
    BY <2>1, <2>2 DEF Kept, HeldAt, Methods
  <2> QED
    BY <2>1, <2>2, <2>3 DEF Inv, Consumed, ExcAt, AfterC
<1>1. ASSUME ret = "null" PROVE Inv'
  <2> DEFINE f == Below(Hold(Top, -3), "failed")
  <2>1. f \in Kept /\ f.op = Top.op /\ ~f.inC /\ f.at \in Waiting
    <3>1. f \in Frames
      <4>1. Hold(Top, -3) \in Frames
        BY <1>0, HoldFrame DEF Kept
      <4> QED
        BY <4>1, BelowFrame DEF Locations, AfterC, Waiting
    <3>2. f.op = Top.op /\ f.at = "failed" /\ f.inC = FALSE /\ f.held = 0
      BY <1>0 DEF Kept, Frames, Hold, Below
    <3> HIDE DEF f
    <3> QED
      BY <1>0, <3>1, <3>2 DEF Kept, HeldAt, Methods, AfterC, Waiting
  <2>2. Call(f, "pyError") /\ UNCHANGED seen
    BY <1>0, <1>1 DEF ToPySet, PyError
  <2> HIDE DEF f
  <2>3. "left" \in seen' \/ ("missing" \notin seen' /\ (exc' # "none" <=> "pyError" = "pyError"))
    BY <1>0, <1>1, <2>2 DEF ToPySet
  <2> QED
    BY <1>0, <2>1, <2>2, <2>3, Unwritten, CallKeeps
<1>2. ASSUME ret # "null" PROVE Inv'
  <2> DEFINE f == [Hold(Below(Top, "pairs"), -2) EXCEPT !.left = @ - 1]
  <2>1. f \in Kept /\ f.op = Top.op /\ f.at \notin AfterC /\ f.at # "start" /\ ~f.inC
    <3>1. f \in Frames
      <4>1. Below(Top, "pairs") \in Frames
        BY <1>0, BelowFrame DEF Kept, Locations, AfterC, Waiting
      <4>2. Hold(Below(Top, "pairs"), -2) \in Frames
        BY <1>0, <4>1, HoldFrame DEF Kept
      <4> QED
        BY <4>2, DownFrame
    <3>2. f.op = Top.op /\ f.at = "pairs" /\ f.inC = FALSE /\ f.held = 1
      BY <1>0 DEF Kept, Frames, Hold, Below
    <3> HIDE DEF f
    <3> QED
      BY <1>0, <3>1, <3>2 DEF Kept, HeldAt, Methods, AfterC, Waiting
  <2>2. Become(f) /\ UNCHANGED seen
    BY <1>0, <1>2 DEF ToPySet, Run
  <2> HIDE DEF f
  <2>3. "left" \in seen' \/ ("missing" \notin seen' /\ ExcAt(f, ret', exc'))
    BY <1>0, <1>2, <2>1, <2>2 DEF ToPySet, ExcAt
  <2> QED
    BY <1>0, <2>1, <2>2, <2>3, Unwritten, BecomeKeeps
<1> QED
  BY <1>0, <1>1, <1>2 DEF ToPySet

(* A failure of a leaf is an exception. *)
LEMMA FromPyLeafKeeps == Inv /\ FromPyLeaf => Inv'
<1> SUFFICES ASSUME Inv, FromPyLeaf PROVE Inv'
  OBVIOUS
<1>0. /\ stack # << >> /\ Top \in Kept /\ ~Top.inC /\ Top.held = 0
      /\ Top.op = "fromPy" /\ Top.at = "start"
      /\ "left" \in seen \/ ("missing" \notin seen /\ (exc = "none"))
  <2>1. stack # << >> /\ ~Top.inC /\ Top.op = "fromPy" /\ Top.at = "start"
    BY DEF FromPyLeaf, At
  <2>2. Top \in Kept
    BY <2>1, TopKept
  <2>3. Top.held = 0
    BY <2>1, <2>2 DEF Kept, HeldAt, Methods
  <2> QED
    BY <2>1, <2>2, <2>3 DEF Inv, Consumed, ExcAt, AfterC
<1>1. ASSUME Return(Top, "none"), UNCHANGED exc PROVE Inv'
  <2>1. stack' = Tail(stack) /\ UNCHANGED seen
    BY <1>0, <1>1 DEF Return, Pop, Unbalanced
  <2>2. "left" \in seen' \/ ("missing" \notin seen' /\ exc' = "none")
    BY <1>0, <1>1, <2>1 DEF FromPyLeaf
  <2> QED
    BY <1>0, <2>1, <2>2, Unwritten, PopKeeps
<1>2. ASSUME PyError(Top), exc' = "error", UNCHANGED <<ret, seen>> PROVE Inv'
  <2> DEFINE f == Below(Top, "failed")
  <2>1. f \in Kept /\ f.op = Top.op /\ ~f.inC /\ f.at \in Waiting
    BY <1>0 DEF Kept, Frames, HeldAt, Hold, Below, Functions, Methods, Locations, AfterC, Waiting
  <2>2. Call(f, "pyError") /\ UNCHANGED seen
    BY <1>0, <1>2 DEF FromPyLeaf, PyError
  <2> HIDE DEF f
  <2>3. "left" \in seen' \/ ("missing" \notin seen' /\ (exc' # "none" <=> "pyError" = "pyError"))
    BY <1>0, <1>2, <2>2 DEF FromPyLeaf
  <2> QED
    BY <1>0, <2>1, <2>2, <2>3, Unwritten, CallKeeps
<1> QED
  BY <1>0, <1>1, <1>2 DEF FromPyLeaf

(* int64 is asked first. *)
LEMMA FromPyIntKeeps == Inv /\ FromPyInt => Inv'
<1> SUFFICES ASSUME Inv, FromPyInt PROVE Inv'
  OBVIOUS
<1>0. /\ stack # << >> /\ Top \in Kept /\ ~Top.inC /\ Top.held = 0
      /\ Top.op = "fromPy" /\ Top.at = "start"
      /\ "left" \in seen \/ ("missing" \notin seen /\ (exc = "none"))
  <2>1. stack # << >> /\ ~Top.inC /\ Top.op = "fromPy" /\ Top.at = "start"
    BY DEF FromPyInt, At
  <2>2. Top \in Kept
    BY <2>1, TopKept
  <2>3. Top.held = 0
    BY <2>1, <2>2 DEF Kept, HeldAt, Methods
  <2> QED
    BY <2>1, <2>2, <2>3 DEF Inv, Consumed, ExcAt, AfterC
<1>1. Inv'
  <2> DEFINE f == Below(Top, "int")
  <2>1. f \in Kept /\ f.op = Top.op /\ ~f.inC /\ f.at \in Waiting
    BY <1>0 DEF Kept, Frames, HeldAt, Hold, Below, Functions, Methods, Locations, AfterC, Waiting
  <2>2. Call(f, "int64") /\ UNCHANGED seen
    BY <1>0 DEF FromPyInt, PyError
  <2> HIDE DEF f
  <2>3. "left" \in seen' \/ ("missing" \notin seen' /\ (exc' # "none" <=> "int64" = "pyError"))
    BY <1>0, <2>2 DEF FromPyInt
  <2> QED
    BY <1>0, <2>1, <2>2, <2>3, Unwritten, CallKeeps
<1> QED
  BY <1>1

(* A value that did not fit is read as text. *)
LEMMA FromPyBigKeeps == Inv /\ FromPyBig => Inv'
<1> SUFFICES ASSUME Inv, FromPyBig PROVE Inv'
  OBVIOUS
<1>0. /\ stack # << >> /\ Top \in Kept /\ ~Top.inC /\ Top.held = 0
      /\ Top.op = "fromPy" /\ Top.at = "int"
      /\ "left" \in seen \/ ("missing" \notin seen /\ (exc = "none"))
  <2>1. stack # << >> /\ ~Top.inC /\ Top.op = "fromPy" /\ Top.at = "int"
    BY DEF FromPyBig, At
  <2>2. Top \in Kept
    BY <2>1, TopKept
  <2>3. Top.held = 0
    BY <2>1, <2>2 DEF Kept, HeldAt, Methods
  <2> QED
    BY <2>1, <2>2, <2>3 DEF Inv, Consumed, ExcAt, AfterC
<1>1. ASSUME ret = "overflow" PROVE Inv'
  <2> DEFINE f == [Top EXCEPT !.at = "big", !.inC = TRUE]
  <2>1. f \in Kept /\ f.op = Top.op /\ f.inC
    BY <1>0 DEF Kept, Frames, HeldAt, Hold, Below, Functions, Methods, Locations, AfterC, Waiting
  <2>2. Become(f) /\ UNCHANGED seen
    BY <1>0, <1>1 DEF FromPyBig, Run
  <2> HIDE DEF f
  <2>3. "left" \in seen' \/ "missing" \notin seen'
    BY <1>0, <2>2
  <2> QED
    BY <1>0, <2>1, <2>2, <2>3, Unwritten, BecomeKeeps
<1>2. ASSUME ret # "overflow" PROVE Inv'
  <2>2. stack' = Tail(stack) /\ UNCHANGED seen
    BY <1>0, <1>2 DEF FromPyBig, Return, Pop, Unbalanced
  <2>3. "left" \in seen' \/ ("missing" \notin seen' /\ (Top.op # "callHost" => exc' = "none"))
    BY <1>0, <1>2, <2>2 DEF FromPyBig, Methods
  <2> QED
    BY <1>0, <2>2, <2>3, Unwritten, PopKeeps
<1> QED
  BY <1>0, <1>1, <1>2 DEF FromPyBig

(* The digits or the bytes are read. *)
LEMMA FromPyReadKeeps == Inv /\ FromPyRead => Inv'
<1> SUFFICES ASSUME Inv, FromPyRead PROVE Inv'
  OBVIOUS
<1>0. /\ stack # << >> /\ Top \in Kept /\ ~Top.inC /\ Top.held = 0
      /\ Top.op = "fromPy" /\ Top.at \in {"big", "bytes"}
      /\ "left" \in seen \/ ("missing" \notin seen /\ (ret \in {"ok", "null"} /\ (exc = "none" <=> ret = "ok")))
  <2>1. stack # << >> /\ ~Top.inC /\ Top.op = "fromPy" /\ Top.at \in {"big", "bytes"}
    BY DEF FromPyRead, At
  <2>2. Top \in Kept
    BY <2>1, TopKept
  <2>3. Top.held = 0
    BY <2>1, <2>2 DEF Kept, HeldAt, Methods
  <2> QED
    BY <2>1, <2>2, <2>3 DEF Inv, Consumed, ExcAt, AfterC
<1>1. ASSUME ret = "null" PROVE Inv'
  <2> DEFINE f == Below(Top, "failed")
  <2>1. f \in Kept /\ f.op = Top.op /\ ~f.inC /\ f.at \in Waiting
    BY <1>0 DEF Kept, Frames, HeldAt, Hold, Below, Functions, Methods, Locations, AfterC, Waiting
  <2>2. Call(f, "pyError") /\ UNCHANGED seen
    BY <1>0, <1>1 DEF FromPyRead, PyError
  <2> HIDE DEF f
  <2>3. "left" \in seen' \/ ("missing" \notin seen' /\ (exc' # "none" <=> "pyError" = "pyError"))
    BY <1>0, <1>1, <2>2 DEF FromPyRead
  <2> QED
    BY <1>0, <2>1, <2>2, <2>3, Unwritten, CallKeeps
<1>2. ASSUME ret # "null", Return(Top, "none") \/ Return(Top, "err") PROVE Inv'
  <2>1. stack' = Tail(stack) /\ UNCHANGED seen
    BY <1>0, <1>2 DEF Return, Pop, Unbalanced
  <2>2. "left" \in seen' \/ ("missing" \notin seen' /\ exc' = "none")
    BY <1>0, <1>2, <2>1 DEF FromPyRead
  <2> QED
    BY <1>0, <2>1, <2>2, Unwritten, PopKeeps
<1> QED
  BY <1>0, <1>1, <1>2 DEF FromPyRead

(* C code makes the list of the elements or keys. *)
LEMMA FromPyContainerKeeps == Inv /\ FromPyContainer => Inv'
<1> SUFFICES ASSUME Inv, FromPyContainer PROVE Inv'
  OBVIOUS
<1>0. /\ stack # << >> /\ Top \in Kept /\ ~Top.inC /\ Top.held = 0
      /\ Top.op = "fromPy" /\ Top.at = "start"
      /\ "left" \in seen \/ ("missing" \notin seen /\ (exc = "none"))
  <2>1. stack # << >> /\ ~Top.inC /\ Top.op = "fromPy" /\ Top.at = "start"
    BY DEF FromPyContainer, At
  <2>2. Top \in Kept
    BY <2>1, TopKept
  <2>3. Top.held = 0
    BY <2>1, <2>2 DEF Kept, HeldAt, Methods
  <2> QED
    BY <2>1, <2>2, <2>3 DEF Inv, Consumed, ExcAt, AfterC
<1>1. ASSUME NEW l \in {"list", "keys", "bytes"}, Run(Top, l) PROVE Inv'
  <2> DEFINE f == [Top EXCEPT !.at = l, !.inC = TRUE]
  <2>1. f \in Kept /\ f.op = Top.op /\ f.inC
    BY <1>0 DEF Kept, Frames, HeldAt, Hold, Below, Functions, Methods, Locations, AfterC, Waiting
  <2>2. Become(f) /\ UNCHANGED seen
    BY <1>0, <1>1 DEF FromPyContainer, Run
  <2> HIDE DEF f
  <2>3. "left" \in seen' \/ "missing" \notin seen'
    BY <1>0, <2>2
  <2> QED
    BY <1>0, <2>1, <2>2, <2>3, Unwritten, BecomeKeeps
<1> QED
  BY <1>0, <1>1 DEF FromPyContainer

(* There are some. *)
LEMMA FromPyBeginKeeps == Inv /\ FromPyBegin => Inv'
<1> SUFFICES ASSUME Inv, FromPyBegin PROVE Inv'
  OBVIOUS
<1>0. /\ stack # << >> /\ Top \in Kept /\ ~Top.inC /\ Top.held = 0
      /\ Top.op = "fromPy" /\ Top.at \in {"list", "keys"}
      /\ "left" \in seen \/ ("missing" \notin seen /\ (ret \in {"ok", "null"} /\ (exc = "none" <=> ret = "ok")))
  <2>1. stack # << >> /\ ~Top.inC /\ Top.op = "fromPy" /\ Top.at \in {"list", "keys"}
    BY DEF FromPyBegin, At
  <2>2. Top \in Kept
    BY <2>1, TopKept
  <2>3. Top.held = 0
    BY <2>1, <2>2 DEF Kept, HeldAt, Methods
  <2> QED
    BY <2>1, <2>2, <2>3 DEF Inv, Consumed, ExcAt, AfterC
<1>1. ASSUME ret = "null" PROVE Inv'
  <2> DEFINE f == Below(Top, "failed")
  <2>1. f \in Kept /\ f.op = Top.op /\ ~f.inC /\ f.at \in Waiting
    BY <1>0 DEF Kept, Frames, HeldAt, Hold, Below, Functions, Methods, Locations, AfterC, Waiting
  <2>2. Call(f, "pyError") /\ UNCHANGED seen
    BY <1>0, <1>1 DEF FromPyBegin, PyError
  <2> HIDE DEF f
  <2>3. "left" \in seen' \/ ("missing" \notin seen' /\ (exc' # "none" <=> "pyError" = "pyError"))
    BY <1>0, <1>1, <2>2 DEF FromPyBegin
  <2> QED
    BY <1>0, <2>1, <2>2, <2>3, Unwritten, CallKeeps
<1>2. ASSUME NEW n \in 0..MaxItems, ret # "null", Become([Below(Top, IF Top.at = "list" THEN "items" ELSE "pairs") EXCEPT !.left = n]) PROVE Inv'
  <2> DEFINE f == [Below(Top, IF Top.at = "list" THEN "items" ELSE "pairs") EXCEPT !.left = n]
  <2>1. f \in Kept /\ f.op = Top.op /\ f.at \notin AfterC /\ f.at # "start" /\ ~f.inC
    <3>1. f \in Frames
      <4>0. n \in Int
        BY ConversionAssumption
      <4>1. Below(Top, IF Top.at = "list" THEN "items" ELSE "pairs") \in Frames
        BY <1>0, BelowFrame DEF Kept, Locations, AfterC, Waiting
      <4> QED
        BY <4>1, <4>0, LeftFrame
    <3>2. f.op = Top.op /\ f.at = (IF Top.at = "list" THEN "items" ELSE "pairs") /\ f.inC = FALSE /\ f.held = 0
      BY <1>0 DEF Kept, Frames, Hold, Below
    <3> HIDE DEF f
    <3> QED
      BY <1>0, <3>1, <3>2 DEF Kept, HeldAt, Methods, AfterC, Waiting
  <2>2. Become(f) /\ UNCHANGED seen
    BY <1>0, <1>2 DEF FromPyBegin, Run
  <2> HIDE DEF f
  <2>3. "left" \in seen' \/ ("missing" \notin seen' /\ ExcAt(f, ret', exc'))
    BY <1>0, <1>2, <2>1, <2>2 DEF FromPyBegin, ExcAt
  <2> QED
    BY <1>0, <2>1, <2>2, <2>3, Unwritten, BecomeKeeps
<1> QED
  BY <1>0, <1>1, <1>2 DEF FromPyBegin

(* All are done, or the next one is converted. *)
LEMMA FromPyNextKeeps == Inv /\ FromPyNext => Inv'
<1> SUFFICES ASSUME Inv, FromPyNext PROVE Inv'
  OBVIOUS
<1>0. /\ stack # << >> /\ Top \in Kept /\ ~Top.inC /\ Top.held = 0
      /\ Top.op = "fromPy" /\ Top.at \in {"items", "pairs"}
      /\ "left" \in seen \/ ("missing" \notin seen /\ (exc = "none"))
  <2>1. stack # << >> /\ ~Top.inC /\ Top.op = "fromPy" /\ Top.at \in {"items", "pairs"}
    BY DEF FromPyNext, At
  <2>2. Top \in Kept
    BY <2>1, TopKept
  <2>3. Top.held = 0
    BY <2>1, <2>2 DEF Kept, HeldAt, Methods
  <2> QED
    BY <2>1, <2>2, <2>3 DEF Inv, Consumed, ExcAt, AfterC
<1>1. ASSUME Top.left = 0 PROVE Inv'
  <2>2. stack' = Tail(stack) /\ UNCHANGED seen
    BY <1>0, <1>1 DEF FromPyNext, Return, Pop, Unbalanced
  <2>3. "left" \in seen' \/ ("missing" \notin seen' /\ (Top.op # "callHost" => exc' = "none"))
    BY <1>0, <1>1, <2>2 DEF FromPyNext, Methods
  <2> QED
    BY <1>0, <2>2, <2>3, Unwritten, PopKeeps
<1>2. ASSUME Top.left # 0 PROVE Inv'
  <2> DEFINE f == Below(Top, IF Top.at = "items" THEN "item" ELSE "key")
  <2>1. f \in Kept /\ f.op = Top.op /\ ~f.inC /\ f.at \in Waiting
    BY <1>0 DEF Kept, Frames, HeldAt, Hold, Below, Functions, Methods, Locations, AfterC, Waiting
  <2>2. Call(f, "fromPy") /\ UNCHANGED seen
    BY <1>0, <1>2 DEF FromPyNext, PyError
  <2> HIDE DEF f
  <2>3. "left" \in seen' \/ ("missing" \notin seen' /\ (exc' # "none" <=> "fromPy" = "pyError"))
    BY <1>0, <1>2, <2>2 DEF FromPyNext
  <2> QED
    BY <1>0, <2>1, <2>2, <2>3, Unwritten, CallKeeps
<1> QED
  BY <1>0, <1>1, <1>2 DEF FromPyNext

(* An element is done. *)
LEMMA FromPyItemKeeps == Inv /\ FromPyItem => Inv'
<1> SUFFICES ASSUME Inv, FromPyItem PROVE Inv'
  OBVIOUS
<1>0. /\ stack # << >> /\ Top \in Kept /\ ~Top.inC /\ Top.held = 0
      /\ Top.op = "fromPy" /\ Top.at = "item"
      /\ "left" \in seen \/ ("missing" \notin seen /\ (exc = "none"))
  <2>1. stack # << >> /\ ~Top.inC /\ Top.op = "fromPy" /\ Top.at = "item"
    BY DEF FromPyItem, At
  <2>2. Top \in Kept
    BY <2>1, TopKept
  <2>3. Top.held = 0
    BY <2>1, <2>2 DEF Kept, HeldAt, Methods
  <2> QED
    BY <2>1, <2>2, <2>3 DEF Inv, Consumed, ExcAt, AfterC
<1>1. ASSUME ret = "err" PROVE Inv'
  <2>2. stack' = Tail(stack) /\ UNCHANGED seen
    BY <1>0, <1>1 DEF FromPyItem, Return, Pop, Unbalanced
  <2>3. "left" \in seen' \/ ("missing" \notin seen' /\ (Top.op # "callHost" => exc' = "none"))
    BY <1>0, <1>1, <2>2 DEF FromPyItem, Methods
  <2> QED
    BY <1>0, <2>2, <2>3, Unwritten, PopKeeps
<1>2. ASSUME ret # "err" PROVE Inv'
  <2> DEFINE f == [Below(Top, "items") EXCEPT !.left = @ - 1]
  <2>1. f \in Kept /\ f.op = Top.op /\ f.at \notin AfterC /\ f.at # "start" /\ ~f.inC
    <3>1. f \in Frames
      <4>1. Below(Top, "items") \in Frames
        BY <1>0, BelowFrame DEF Kept, Locations, AfterC, Waiting
      <4> QED
        BY <4>1, DownFrame
    <3>2. f.op = Top.op /\ f.at = "items" /\ f.inC = FALSE /\ f.held = Top.held
      BY <1>0 DEF Kept, Frames, Hold, Below
    <3> HIDE DEF f
    <3> QED
      BY <1>0, <3>1, <3>2 DEF Kept, HeldAt, Methods, AfterC, Waiting
  <2>2. Become(f) /\ UNCHANGED seen
    BY <1>0, <1>2 DEF FromPyItem, Run
  <2> HIDE DEF f
  <2>3. "left" \in seen' \/ ("missing" \notin seen' /\ ExcAt(f, ret', exc'))
    BY <1>0, <1>2, <2>1, <2>2 DEF FromPyItem, ExcAt
  <2> QED
    BY <1>0, <2>1, <2>2, <2>3, Unwritten, BecomeKeeps
<1> QED
  BY <1>0, <1>1, <1>2 DEF FromPyItem

(* The key is looked at as text, or looked up. *)
LEMMA FromPyKeyKeeps == Inv /\ FromPyKey => Inv'
<1> SUFFICES ASSUME Inv, FromPyKey PROVE Inv'
  OBVIOUS
<1>0. /\ stack # << >> /\ Top \in Kept /\ ~Top.inC /\ Top.held = 0
      /\ Top.op = "fromPy" /\ Top.at = "key"
      /\ "left" \in seen \/ ("missing" \notin seen /\ (exc = "none"))
  <2>1. stack # << >> /\ ~Top.inC /\ Top.op = "fromPy" /\ Top.at = "key"
    BY DEF FromPyKey, At
  <2>2. Top \in Kept
    BY <2>1, TopKept
  <2>3. Top.held = 0
    BY <2>1, <2>2 DEF Kept, HeldAt, Methods
  <2> QED
    BY <2>1, <2>2, <2>3 DEF Inv, Consumed, ExcAt, AfterC
<1>1. ASSUME ret = "err" PROVE Inv'
  <2>2. stack' = Tail(stack) /\ UNCHANGED seen
    BY <1>0, <1>1 DEF FromPyKey, Return, Pop, Unbalanced
  <2>3. "left" \in seen' \/ ("missing" \notin seen' /\ (Top.op # "callHost" => exc' = "none"))
    BY <1>0, <1>1, <2>2 DEF FromPyKey, Methods
  <2> QED
    BY <1>0, <2>2, <2>3, Unwritten, PopKeeps
<1>2. ASSUME ret # "err", Run(Top, "keystr") PROVE Inv'
  <2> DEFINE f == [Top EXCEPT !.at = "keystr", !.inC = TRUE]
  <2>1. f \in Kept /\ f.op = Top.op /\ f.inC
    BY <1>0 DEF Kept, Frames, HeldAt, Hold, Below, Functions, Methods, Locations, AfterC, Waiting
  <2>2. Become(f) /\ UNCHANGED seen
    BY <1>0, <1>2 DEF FromPyKey, Run
  <2> HIDE DEF f
  <2>3. "left" \in seen' \/ "missing" \notin seen'
    BY <1>0, <2>2
  <2> QED
    BY <1>0, <2>1, <2>2, <2>3, Unwritten, BecomeKeeps
<1>3. ASSUME ret # "err", Run(Top, "get") PROVE Inv'
  <2> DEFINE f == [Top EXCEPT !.at = "get", !.inC = TRUE]
  <2>1. f \in Kept /\ f.op = Top.op /\ f.inC
    BY <1>0 DEF Kept, Frames, HeldAt, Hold, Below, Functions, Methods, Locations, AfterC, Waiting
  <2>2. Become(f) /\ UNCHANGED seen
    BY <1>0, <1>3 DEF FromPyKey, Run
  <2> HIDE DEF f
  <2>3. "left" \in seen' \/ "missing" \notin seen'
    BY <1>0, <2>2
  <2> QED
    BY <1>0, <2>1, <2>2, <2>3, Unwritten, BecomeKeeps
<1> QED
  BY <1>0, <1>1, <1>2, <1>3 DEF FromPyKey

(* Its text is read, or the failure ignored with its exception. *)
LEMMA FromPyKeyStrKeeps == Inv /\ FromPyKeyStr => Inv'
<1> SUFFICES ASSUME Inv, FromPyKeyStr PROVE Inv'
  OBVIOUS
<1>0. /\ stack # << >> /\ Top \in Kept /\ ~Top.inC /\ Top.held = 0
      /\ Top.op = "fromPy" /\ Top.at = "keystr"
      /\ "left" \in seen \/ ("missing" \notin seen /\ (ret \in {"ok", "null"} /\ (exc = "none" <=> ret = "ok")))
  <2>1. stack # << >> /\ ~Top.inC /\ Top.op = "fromPy" /\ Top.at = "keystr"
    BY DEF FromPyKeyStr, At
  <2>2. Top \in Kept
    BY <2>1, TopKept
  <2>3. Top.held = 0
    BY <2>1, <2>2 DEF Kept, HeldAt, Methods
  <2> QED
    BY <2>1, <2>2, <2>3 DEF Inv, Consumed, ExcAt, AfterC
<1>1. Inv'
  <2> DEFINE f == [Top EXCEPT !.at = "get", !.inC = TRUE]
  <2>1. f \in Kept /\ f.op = Top.op /\ f.inC
    BY <1>0 DEF Kept, Frames, HeldAt, Hold, Below, Functions, Methods, Locations, AfterC, Waiting
  <2>2. Become(f) /\ UNCHANGED seen
    BY <1>0 DEF FromPyKeyStr, Run
  <2> HIDE DEF f
  <2>3. "left" \in seen' \/ "missing" \notin seen'
    BY <1>0, <2>2
  <2> QED
    BY <1>0, <2>1, <2>2, <2>3, Unwritten, BecomeKeeps
<1> QED
  BY <1>1

(* The value is held while it is converted. *)
LEMMA FromPyGetKeeps == Inv /\ FromPyGet => Inv'
<1> SUFFICES ASSUME Inv, FromPyGet PROVE Inv'
  OBVIOUS
<1>0. /\ stack # << >> /\ Top \in Kept /\ ~Top.inC /\ Top.held = 0
      /\ Top.op = "fromPy" /\ Top.at = "get"
      /\ "left" \in seen \/ ("missing" \notin seen /\ (ret \in {"ok", "null"} /\ (exc = "none" <=> ret = "ok")))
  <2>1. stack # << >> /\ ~Top.inC /\ Top.op = "fromPy" /\ Top.at = "get"
    BY DEF FromPyGet, At
  <2>2. Top \in Kept
    BY <2>1, TopKept
  <2>3. Top.held = 0
    BY <2>1, <2>2 DEF Kept, HeldAt, Methods
  <2> QED
    BY <2>1, <2>2, <2>3 DEF Inv, Consumed, ExcAt, AfterC
<1>1. ASSUME ret = "null" PROVE Inv'
  <2> DEFINE f == Below(Top, "failed")
  <2>1. f \in Kept /\ f.op = Top.op /\ ~f.inC /\ f.at \in Waiting
    BY <1>0 DEF Kept, Frames, HeldAt, Hold, Below, Functions, Methods, Locations, AfterC, Waiting
  <2>2. Call(f, "pyError") /\ UNCHANGED seen
    BY <1>0, <1>1 DEF FromPyGet, PyError
  <2> HIDE DEF f
  <2>3. "left" \in seen' \/ ("missing" \notin seen' /\ (exc' # "none" <=> "pyError" = "pyError"))
    BY <1>0, <1>1, <2>2 DEF FromPyGet
  <2> QED
    BY <1>0, <2>1, <2>2, <2>3, Unwritten, CallKeeps
<1>2. ASSUME ret # "null" PROVE Inv'
  <2> DEFINE f == Hold(Below(Top, "value"), 1)
  <2>1. f \in Kept /\ f.op = Top.op /\ ~f.inC /\ f.at \in Waiting
    <3>1. f \in Frames
      <4>1. Below(Top, "value") \in Frames
        BY <1>0, BelowFrame DEF Kept, Locations, AfterC, Waiting
      <4> QED
        BY <4>1, HoldFrame
    <3>2. f.op = Top.op /\ f.at = "value" /\ f.inC = FALSE /\ f.held = Top.held + 1
      BY <1>0 DEF Kept, Frames, Hold, Below
    <3> HIDE DEF f
    <3> QED
      BY <1>0, <3>1, <3>2 DEF Kept, HeldAt, Methods, AfterC, Waiting
  <2>2. Call(f, "fromPy") /\ UNCHANGED seen
    BY <1>0, <1>2 DEF FromPyGet, PyError
  <2> HIDE DEF f
  <2>3. "left" \in seen' \/ ("missing" \notin seen' /\ (exc' # "none" <=> "fromPy" = "pyError"))
    BY <1>0, <1>2, <2>2 DEF FromPyGet
  <2> QED
    BY <1>0, <2>1, <2>2, <2>3, Unwritten, CallKeeps
<1> QED
  BY <1>0, <1>1, <1>2 DEF FromPyGet

(* It is given back on both ways out. *)
LEMMA FromPyValueKeeps == Inv /\ FromPyValue => Inv'
<1> SUFFICES ASSUME Inv, FromPyValue PROVE Inv'
  OBVIOUS
<1>0. /\ stack # << >> /\ Top \in Kept /\ ~Top.inC /\ Top.held = 1
      /\ Top.op = "fromPy" /\ Top.at = "value"
      /\ "left" \in seen \/ ("missing" \notin seen /\ (exc = "none"))
  <2>1. stack # << >> /\ ~Top.inC /\ Top.op = "fromPy" /\ Top.at = "value"
    BY DEF FromPyValue, At
  <2>2. Top \in Kept
    BY <2>1, TopKept
  <2>3. Top.held = 1
    BY <2>1, <2>2 DEF Kept, HeldAt, Methods
  <2> QED
    BY <2>1, <2>2, <2>3 DEF Inv, Consumed, ExcAt, AfterC
<1>1. ASSUME ret = "err" PROVE Inv'
  <2>1. Hold(Top, -1).held = 0
    BY <1>0 DEF Kept, Frames, Hold
  <2>2. stack' = Tail(stack) /\ UNCHANGED seen
    BY <1>0, <1>1, <2>1 DEF FromPyValue, Return, Pop, Unbalanced
  <2>3. "left" \in seen' \/ ("missing" \notin seen' /\ (Top.op # "callHost" => exc' = "none"))
    BY <1>0, <1>1, <2>2 DEF FromPyValue, Methods
  <2> QED
    BY <1>0, <2>2, <2>3, Unwritten, PopKeeps
<1>2. ASSUME ret # "err" PROVE Inv'
  <2> DEFINE f == [Hold(Below(Top, "pairs"), -1) EXCEPT !.left = @ - 1]
  <2>1. f \in Kept /\ f.op = Top.op /\ f.at \notin AfterC /\ f.at # "start" /\ ~f.inC
    <3>1. f \in Frames
      <4>1. Below(Top, "pairs") \in Frames
        BY <1>0, BelowFrame DEF Kept, Locations, AfterC, Waiting
      <4>2. Hold(Below(Top, "pairs"), -1) \in Frames
        BY <1>0, <4>1, HoldFrame DEF Kept
      <4> QED
        BY <4>2, DownFrame
    <3>2. f.op = Top.op /\ f.at = "pairs" /\ f.inC = FALSE /\ f.held = 0
      BY <1>0 DEF Kept, Frames, Hold, Below
    <3> HIDE DEF f
    <3> QED
      BY <1>0, <3>1, <3>2 DEF Kept, HeldAt, Methods, AfterC, Waiting
  <2>2. Become(f) /\ UNCHANGED seen
    BY <1>0, <1>2 DEF FromPyValue, Run
  <2> HIDE DEF f
  <2>3. "left" \in seen' \/ ("missing" \notin seen' /\ ExcAt(f, ret', exc'))
    BY <1>0, <1>2, <2>1, <2>2 DEF FromPyValue, ExcAt
  <2> QED
    BY <1>0, <2>1, <2>2, <2>3, Unwritten, BecomeKeeps
<1> QED
  BY <1>0, <1>1, <1>2 DEF FromPyValue

(* An int runs no Python code. *)
LEMMA IntExactKeeps == Inv /\ IntExact => Inv'
<1> SUFFICES ASSUME Inv, IntExact PROVE Inv'
  OBVIOUS
<1>0. /\ stack # << >> /\ Top \in Kept /\ ~Top.inC /\ Top.held = 0
      /\ Top.op = "int64" /\ Top.at = "start"
      /\ "left" \in seen \/ ("missing" \notin seen /\ (exc = "none"))
  <2>1. stack # << >> /\ ~Top.inC /\ Top.op = "int64" /\ Top.at = "start"
    BY DEF IntExact, At
  <2>2. Top \in Kept
    BY <2>1, TopKept
  <2>3. Top.held = 0
    BY <2>1, <2>2 DEF Kept, HeldAt, Methods
  <2> QED
    BY <2>1, <2>2, <2>3 DEF Inv, Consumed, ExcAt, AfterC
<1>1. ASSUME Return(Top, "none") \/ Return(Top, "overflow") PROVE Inv'
  <2>1. stack' = Tail(stack) /\ UNCHANGED seen
    BY <1>0, <1>1 DEF Return, Pop, Unbalanced
  <2>2. "left" \in seen' \/ ("missing" \notin seen' /\ exc' = "none")
    BY <1>0, <1>1, <2>1 DEF IntExact
  <2> QED
    BY <1>0, <2>1, <2>2, Unwritten, PopKeeps
<1> QED
  BY <1>0, <1>1 DEF IntExact

(* exitError has printed: nothing is left. *)
LEMMA ExitPrintKeeps == Inv /\ ExitPrint => Inv'
<1> SUFFICES ASSUME Inv, ExitPrint PROVE Inv'
  OBVIOUS
<1>0. /\ stack # << >> /\ Top \in Kept /\ ~Top.inC /\ Top.held = 0
      /\ Top.op = "pyError" /\ Top.at = "print"
      /\ "left" \in seen \/ ("missing" \notin seen /\ (ret \in {"ok", "null"} /\ (exc = "none" <=> ret = "ok")))
  <2>1. stack # << >> /\ ~Top.inC /\ Top.op = "pyError" /\ Top.at = "print"
    BY DEF ExitPrint, At
  <2>2. Top \in Kept
    BY <2>1, TopKept
  <2>3. Top.held = 0
    BY <2>1, <2>2 DEF Kept, HeldAt, Methods
  <2> QED
    BY <2>1, <2>2, <2>3 DEF Inv, Consumed, ExcAt, AfterC
<1>1. Inv'
  <2>2. stack' = Tail(stack) /\ UNCHANGED seen
    BY <1>0 DEF ExitPrint, Return, Pop, Unbalanced
  <2>3. "left" \in seen' \/ ("missing" \notin seen' /\ (Top.op # "callHost" => exc' = "none"))
    BY <1>0, <2>2 DEF ExitPrint, Methods
  <2> QED
    BY <1>0, <2>2, <2>3, Unwritten, PopKeeps
<1> QED
  BY <1>1

(* pyError goes on to the text. *)
LEMMA ErrorTypeKeeps == Inv /\ ErrorType => Inv'
<1> SUFFICES ASSUME Inv, ErrorType PROVE Inv'
  OBVIOUS
<1>0. /\ stack # << >> /\ Top \in Kept /\ ~Top.inC /\ Top.held = 0
      /\ Top.op = "pyError" /\ Top.at = "type"
      /\ "left" \in seen \/ ("missing" \notin seen /\ (ret \in {"ok", "null"} /\ (exc = "none" <=> ret = "ok")))
  <2>1. stack # << >> /\ ~Top.inC /\ Top.op = "pyError" /\ Top.at = "type"
    BY DEF ErrorType, At
  <2>2. Top \in Kept
    BY <2>1, TopKept
  <2>3. Top.held = 0
    BY <2>1, <2>2 DEF Kept, HeldAt, Methods
  <2> QED
    BY <2>1, <2>2, <2>3 DEF Inv, Consumed, ExcAt, AfterC
<1>1. Inv'
  <2> DEFINE f == [Top EXCEPT !.at = "str", !.inC = TRUE]
  <2>1. f \in Kept /\ f.op = Top.op /\ f.inC
    BY <1>0 DEF Kept, Frames, HeldAt, Hold, Below, Functions, Methods, Locations, AfterC, Waiting
  <2>2. Become(f) /\ UNCHANGED seen
    BY <1>0 DEF ErrorType, Run
  <2> HIDE DEF f
  <2>3. "left" \in seen' \/ "missing" \notin seen'
    BY <1>0, <2>2
  <2> QED
    BY <1>0, <2>1, <2>2, <2>3, Unwritten, BecomeKeeps
<1> QED
  BY <1>1

(* ... and to the traceback. *)
LEMMA ErrorStrKeeps == Inv /\ ErrorStr => Inv'
<1> SUFFICES ASSUME Inv, ErrorStr PROVE Inv'
  OBVIOUS
<1>0. /\ stack # << >> /\ Top \in Kept /\ ~Top.inC /\ Top.held = 0
      /\ Top.op = "pyError" /\ Top.at = "str"
      /\ "left" \in seen \/ ("missing" \notin seen /\ (ret \in {"ok", "null"} /\ (exc = "none" <=> ret = "ok")))
  <2>1. stack # << >> /\ ~Top.inC /\ Top.op = "pyError" /\ Top.at = "str"
    BY DEF ErrorStr, At
  <2>2. Top \in Kept
    BY <2>1, TopKept
  <2>3. Top.held = 0
    BY <2>1, <2>2 DEF Kept, HeldAt, Methods
  <2> QED
    BY <2>1, <2>2, <2>3 DEF Inv, Consumed, ExcAt, AfterC
<1>1. Inv'
  <2> DEFINE f == [Top EXCEPT !.at = IF cached THEN "lines" ELSE "import", !.inC = TRUE]
  <2>1. f \in Kept /\ f.op = Top.op /\ f.inC
    BY <1>0 DEF Kept, Frames, HeldAt, Hold, Below, Functions, Methods, Locations, AfterC, Waiting
  <2>2. Become(f) /\ UNCHANGED seen
    BY <1>0 DEF ErrorStr, Run
  <2> HIDE DEF f
  <2>3. "left" \in seen' \/ "missing" \notin seen'
    BY <1>0, <2>2
  <2> QED
    BY <1>0, <2>1, <2>2, <2>3, Unwritten, BecomeKeeps
<1> QED
  BY <1>1

(* The traceback module is held. *)
LEMMA ErrorImportKeeps == Inv /\ ErrorImport => Inv'
<1> SUFFICES ASSUME Inv, ErrorImport PROVE Inv'
  OBVIOUS
<1>0. /\ stack # << >> /\ Top \in Kept /\ ~Top.inC /\ Top.held = 0
      /\ Top.op = "pyError" /\ Top.at = "import"
      /\ "left" \in seen \/ ("missing" \notin seen /\ (ret \in {"ok", "null"} /\ (exc = "none" <=> ret = "ok")))
  <2>1. stack # << >> /\ ~Top.inC /\ Top.op = "pyError" /\ Top.at = "import"
    BY DEF ErrorImport, At
  <2>2. Top \in Kept
    BY <2>1, TopKept
  <2>3. Top.held = 0
    BY <2>1, <2>2 DEF Kept, HeldAt, Methods
  <2> QED
    BY <2>1, <2>2, <2>3 DEF Inv, Consumed, ExcAt, AfterC
<1>1. ASSUME ret = "null" PROVE Inv'
  <2>2. stack' = Tail(stack) /\ UNCHANGED seen
    BY <1>0, <1>1 DEF ErrorImport, Return, Pop, Unbalanced
  <2>3. "left" \in seen' \/ ("missing" \notin seen' /\ (Top.op # "callHost" => exc' = "none"))
    BY <1>0, <1>1, <2>2 DEF ErrorImport, Methods
  <2> QED
    BY <1>0, <2>2, <2>3, Unwritten, PopKeeps
<1>2. ASSUME ret # "null" PROVE Inv'
  <2> DEFINE f == [Hold(Top, 1) EXCEPT !.at = "attr", !.inC = TRUE]
  <2>1. f \in Kept /\ f.op = Top.op /\ f.inC
    <3>1. f \in Frames
      <4>1. Hold(Top, 1) \in Frames
        BY <1>0, HoldFrame DEF Kept
      <4> QED
        BY <4>1, RunFrame DEF Locations, AfterC
    <3>2. f.op = Top.op /\ f.at = "attr" /\ f.inC = TRUE /\ f.held = 1
      BY <1>0 DEF Kept, Frames, Hold, Below
    <3> HIDE DEF f
    <3> QED
      BY <1>0, <3>1, <3>2 DEF Kept, HeldAt, Methods, AfterC, Waiting
  <2>2. Become(f) /\ UNCHANGED seen
    BY <1>0, <1>2 DEF ErrorImport, Run
  <2> HIDE DEF f
  <2>3. "left" \in seen' \/ "missing" \notin seen'
    BY <1>0, <2>2
  <2> QED
    BY <1>0, <2>1, <2>2, <2>3, Unwritten, BecomeKeeps
<1> QED
  BY <1>0, <1>1, <1>2 DEF ErrorImport

(* format_exception fails, and that is cleared, or returns its lines. *)
LEMMA ErrorLinesKeeps == Inv /\ ErrorLines => Inv'
<1> SUFFICES ASSUME Inv, ErrorLines PROVE Inv'
  OBVIOUS
<1>0. /\ stack # << >> /\ Top \in Kept /\ ~Top.inC /\ Top.held = 0
      /\ Top.op = "pyError" /\ Top.at = "lines"
      /\ "left" \in seen \/ ("missing" \notin seen /\ (ret \in {"ok", "null"} /\ (exc = "none" <=> ret = "ok")))
  <2>1. stack # << >> /\ ~Top.inC /\ Top.op = "pyError" /\ Top.at = "lines"
    BY DEF ErrorLines, At
  <2>2. Top \in Kept
    BY <2>1, TopKept
  <2>3. Top.held = 0
    BY <2>1, <2>2 DEF Kept, HeldAt, Methods
  <2> QED
    BY <2>1, <2>2, <2>3 DEF Inv, Consumed, ExcAt, AfterC
<1>1. ASSUME ret = "null", exc' = "none", Return(Top, "err") PROVE Inv'
  <2>1. stack' = Tail(stack) /\ UNCHANGED seen
    BY <1>0, <1>1 DEF Return, Pop, Unbalanced
  <2>2. "left" \in seen' \/ ("missing" \notin seen' /\ exc' = "none")
    BY <1>0, <1>1, <2>1 DEF ErrorLines
  <2> QED
    BY <1>0, <2>1, <2>2, Unwritten, PopKeeps
<1>2. ASSUME ret # "null" PROVE Inv'
  <2> DEFINE f == [Top EXCEPT !.at = "len", !.inC = TRUE]
  <2>1. f \in Kept /\ f.op = Top.op /\ f.inC
    BY <1>0 DEF Kept, Frames, HeldAt, Methods, Locations, AfterC
  <2>2. Become(f) /\ UNCHANGED seen
    BY <1>2 DEF ErrorLines, Run
  <2> HIDE DEF f
  <2>3. "left" \in seen' \/ "missing" \notin seen'
    BY <1>0, <2>2
  <2> QED
    BY <1>0, <2>1, <2>2, <2>3, Unwritten, BecomeKeeps
<1> QED
  BY <1>0, <1>1, <1>2 DEF ErrorLines

(* PyObject_Length may leave an exception, too. *)
LEMMA ErrorLenKeeps == Inv /\ ErrorLen => Inv'
<1> SUFFICES ASSUME Inv, ErrorLen PROVE Inv'
  OBVIOUS
<1>0. /\ stack # << >> /\ Top \in Kept /\ ~Top.inC /\ Top.held = 0
      /\ Top.op = "pyError" /\ Top.at = "len"
      /\ "left" \in seen \/ ("missing" \notin seen /\ (ret \in {"ok", "null"} /\ (exc = "none" <=> ret = "ok")))
  <2>1. stack # << >> /\ ~Top.inC /\ Top.op = "pyError" /\ Top.at = "len"
    BY DEF ErrorLen, At
  <2>2. Top \in Kept
    BY <2>1, TopKept
  <2>3. Top.held = 0
    BY <2>1, <2>2 DEF Kept, HeldAt, Methods
  <2> QED
    BY <2>1, <2>2, <2>3 DEF Inv, Consumed, ExcAt, AfterC
<1>1. ASSUME Pop("err"), seen' = seen \cup {"left"} PROVE Inv'
  <2>1. stack' = Tail(stack) /\ "left" \in seen'
    BY <1>1 DEF Pop
  <2>2. SeenKept
    BY <1>1 DEF SeenKept, Inv
  <2> QED
    BY <1>0, <2>1, <2>2, PopKeeps
<1>2. ASSUME ret = "ok", Return(Top, "err") PROVE Inv'
  <2>1. stack' = Tail(stack) /\ UNCHANGED seen
    BY <1>0, <1>2 DEF Return, Pop, Unbalanced
  <2>2. "left" \in seen' \/ ("missing" \notin seen' /\ exc' = "none")
    BY <1>0, <1>2, <2>1 DEF ErrorLen
  <2> QED
    BY <1>0, <2>1, <2>2, Unwritten, PopKeeps
<1>3. ASSUME Run(Top, "line"), UNCHANGED seen PROVE Inv'
  <2> DEFINE f == [Top EXCEPT !.at = "line", !.inC = TRUE]
  <2>1. f \in Kept /\ f.op = Top.op /\ f.inC
    BY <1>0 DEF Kept, Frames, HeldAt, Methods, Locations, AfterC
  <2>2. Become(f) /\ UNCHANGED seen
    BY <1>3 DEF ErrorLen, Run
  <2> HIDE DEF f
  <2>3. "left" \in seen' \/ "missing" \notin seen'
    BY <1>0, <2>2
  <2> QED
    BY <1>0, <2>1, <2>2, <2>3, Unwritten, BecomeKeeps
<1> QED
  BY <1>1, <1>2, <1>3 DEF ErrorLen

(* rawStr leaves no exception. *)
LEMMA ErrorLineKeeps == Inv /\ ErrorLine => Inv'
<1> SUFFICES ASSUME Inv, ErrorLine PROVE Inv'
  OBVIOUS
<1>0. /\ stack # << >> /\ Top \in Kept /\ ~Top.inC /\ Top.held = 0
      /\ Top.op = "pyError" /\ Top.at = "line"
      /\ "left" \in seen \/ ("missing" \notin seen /\ (ret \in {"ok", "null"} /\ (exc = "none" <=> ret = "ok")))
  <2>1. stack # << >> /\ ~Top.inC /\ Top.op = "pyError" /\ Top.at = "line"
    BY DEF ErrorLine, At
  <2>2. Top \in Kept
    BY <2>1, TopKept
  <2>3. Top.held = 0
    BY <2>1, <2>2 DEF Kept, HeldAt, Methods
  <2> QED
    BY <2>1, <2>2, <2>3 DEF Inv, Consumed, ExcAt, AfterC
<1>1. ASSUME exc' = "none", Return(Top, "err") PROVE Inv'
  <2>1. stack' = Tail(stack) /\ UNCHANGED seen
    BY <1>0, <1>1 DEF Return, Pop, Unbalanced
  <2>2. "left" \in seen' \/ ("missing" \notin seen' /\ exc' = "none")
    BY <1>0, <1>1, <2>1 DEF ErrorLine
  <2> QED
    BY <1>0, <2>1, <2>2, Unwritten, PopKeeps
<1>2. ASSUME Run(Top, "line"), UNCHANGED seen PROVE Inv'
  <2> DEFINE f == [Top EXCEPT !.at = "line", !.inC = TRUE]
  <2>1. f \in Kept /\ f.op = Top.op /\ f.inC
    BY <1>0 DEF Kept, Frames, HeldAt, Methods, Locations, AfterC
  <2>2. Become(f) /\ UNCHANGED seen
    BY <1>2 DEF ErrorLine, Run
  <2> HIDE DEF f
  <2>3. "left" \in seen' \/ "missing" \notin seen'
    BY <1>0, <2>2
  <2> QED
    BY <1>0, <2>1, <2>2, <2>3, Unwritten, BecomeKeeps
<1> QED
  BY <1>1, <1>2 DEF ErrorLine

(* The arguments of a host function are wrapped. *)
LEMMA HostStartKeeps == Inv /\ HostStart => Inv'
<1> SUFFICES ASSUME Inv, HostStart PROVE Inv'
  OBVIOUS
<1>0. /\ stack # << >> /\ Top \in Kept /\ ~Top.inC /\ Top.held = 0
      /\ Top.op = "callHost" /\ Top.at = "start"
      /\ "left" \in seen \/ ("missing" \notin seen /\ (exc = "none"))
  <2>1. stack # << >> /\ ~Top.inC /\ Top.op = "callHost" /\ Top.at = "start"
    BY DEF HostStart, At
  <2>2. Top \in Kept
    BY <2>1, TopKept
  <2>3. Top.held = 0
    BY <2>1, <2>2 DEF Kept, HeldAt, Methods
  <2> QED
    BY <2>1, <2>2, <2>3 DEF Inv, Consumed, ExcAt, AfterC
<1>1. ASSUME Become(Below(Top, "fn")), UNCHANGED <<ret, exc, seen>> PROVE Inv'
  <2> DEFINE f == Below(Top, "fn")
  <2>1. f \in Kept /\ f.op = Top.op /\ f.at \notin AfterC /\ f.at # "start" /\ ~f.inC
    BY <1>0 DEF Kept, Frames, HeldAt, Hold, Below, Functions, Methods, Locations, AfterC, Waiting
  <2>2. Become(f) /\ UNCHANGED seen
    BY <1>0, <1>1 DEF HostStart, Run
  <2> HIDE DEF f
  <2>3. "left" \in seen' \/ ("missing" \notin seen' /\ ExcAt(f, ret', exc'))
    BY <1>0, <1>1, <2>1, <2>2 DEF HostStart, ExcAt
  <2> QED
    BY <1>0, <2>1, <2>2, <2>3, Unwritten, BecomeKeeps
<1>2. ASSUME Return(Top, "null") PROVE Inv'
  <2>2. stack' = Tail(stack) /\ UNCHANGED seen
    BY <1>0, <1>2 DEF HostStart, Return, Pop, Unbalanced
  <2>3. "left" \in seen' \/ ("missing" \notin seen' /\ (Top.op # "callHost" => exc' = "none"))
    BY <1>0, <1>2, <2>2 DEF HostStart, Methods
  <2> QED
    BY <1>0, <2>2, <2>3, Unwritten, PopKeeps
<1> QED
  BY <1>0, <1>1, <1>2 DEF HostStart

(* fn returned a value to convert, or an error that is raised. *)
LEMMA HostReturnKeeps == Inv /\ HostReturn => Inv'
<1> SUFFICES ASSUME Inv, HostReturn PROVE Inv'
  OBVIOUS
<1>0. /\ stack # << >> /\ Top \in Kept /\ ~Top.inC /\ Top.held = 0
      /\ Top.op = "callHost" /\ Top.at = "fn"
      /\ "left" \in seen \/ ("missing" \notin seen /\ (exc = "none"))
  <2>1. stack # << >> /\ ~Top.inC /\ Top.op = "callHost" /\ Top.at = "fn"
    BY DEF HostReturn, At
  <2>2. Top \in Kept
    BY <2>1, TopKept
  <2>3. Top.held = 0
    BY <2>1, <2>2 DEF Kept, HeldAt, Methods
  <2> QED
    BY <2>1, <2>2, <2>3 DEF Inv, Consumed, ExcAt, AfterC
<1>1. ASSUME Call(Below(Top, "result"), "toPy"), UNCHANGED <<ret, exc, seen>> PROVE Inv'
  <2> DEFINE f == Below(Top, "result")
  <2>1. f \in Kept /\ f.op = Top.op /\ ~f.inC /\ f.at \in Waiting
    BY <1>0 DEF Kept, Frames, HeldAt, Hold, Below, Functions, Methods, Locations, AfterC, Waiting
  <2>2. Call(f, "toPy") /\ UNCHANGED seen
    BY <1>0, <1>1 DEF HostReturn, PyError
  <2> HIDE DEF f
  <2>3. "left" \in seen' \/ ("missing" \notin seen' /\ (exc' # "none" <=> "toPy" = "pyError"))
    BY <1>0, <1>1, <2>2 DEF HostReturn
  <2> QED
    BY <1>0, <2>1, <2>2, <2>3, Unwritten, CallKeeps
<1>2. ASSUME Return(Top, "null") PROVE Inv'
  <2>2. stack' = Tail(stack) /\ UNCHANGED seen
    BY <1>0, <1>2 DEF HostReturn, Return, Pop, Unbalanced
  <2>3. "left" \in seen' \/ ("missing" \notin seen' /\ (Top.op # "callHost" => exc' = "none"))
    BY <1>0, <1>2, <2>2 DEF HostReturn, Methods
  <2> QED
    BY <1>0, <2>2, <2>3, Unwritten, PopKeeps
<1> QED
  BY <1>0, <1>1, <1>2 DEF HostReturn

(* The result goes to C code. *)
LEMMA HostResultKeeps == Inv /\ HostResult => Inv'
<1> SUFFICES ASSUME Inv, HostResult PROVE Inv'
  OBVIOUS
<1>0. /\ stack # << >> /\ Top \in Kept /\ ~Top.inC /\ Top.held = 0
      /\ Top.op = "callHost" /\ Top.at = "result"
      /\ "left" \in seen \/ ("missing" \notin seen /\ (exc = "none"))
  <2>1. stack # << >> /\ ~Top.inC /\ Top.op = "callHost" /\ Top.at = "result"
    BY DEF HostResult, At
  <2>2. Top \in Kept
    BY <2>1, TopKept
  <2>3. Top.held = 0
    BY <2>1, <2>2 DEF Kept, HeldAt, Methods
  <2> QED
    BY <2>1, <2>2, <2>3 DEF Inv, Consumed, ExcAt, AfterC
<1>1. ASSUME ret = "err" PROVE Inv'
  <2>2. stack' = Tail(stack) /\ UNCHANGED seen
    BY <1>0, <1>1 DEF HostResult, Return, Pop, Unbalanced
  <2>3. "left" \in seen' \/ ("missing" \notin seen' /\ (Top.op # "callHost" => exc' = "none"))
    BY <1>0, <1>1, <2>2 DEF HostResult, Methods
  <2> QED
    BY <1>0, <2>2, <2>3, Unwritten, PopKeeps
<1>2. ASSUME ret # "err" PROVE Inv'
  <2>2. stack' = Tail(stack) /\ UNCHANGED seen
    BY <1>0, <1>2 DEF HostResult, Return, Pop, Unbalanced
  <2>3. "left" \in seen' \/ ("missing" \notin seen' /\ (Top.op # "callHost" => exc' = "none"))
    BY <1>0, <1>2, <2>2 DEF HostResult, Methods
  <2> QED
    BY <1>0, <2>2, <2>3, Unwritten, PopKeeps
<1> QED
  BY <1>0, <1>1, <1>2 DEF HostResult

(* SetItem and CallKw after their first argument. *)
LEMMA MethodFirstKeeps == Inv /\ MethodFirst => Inv'
<1> SUFFICES ASSUME Inv, MethodFirst PROVE Inv'
  OBVIOUS
<1>0. /\ stack # << >> /\ Top \in Kept /\ ~Top.inC /\ Top.held = 0
      /\ Top.op \in {"SetItem", "CallKw"} /\ Top.at = "first"
      /\ "left" \in seen \/ ("missing" \notin seen /\ (exc = "none"))
  <2>1. stack # << >> /\ ~Top.inC /\ Top.op \in {"SetItem", "CallKw"} /\ Top.at = "first"
    BY DEF MethodFirst, At
  <2>2. Top \in Kept
    BY <2>1, TopKept
  <2>3. Top.held = 0
    BY <2>1, <2>2 DEF Kept, HeldAt, Methods
  <2> QED
    BY <2>1, <2>2, <2>3 DEF Inv, Consumed, ExcAt, AfterC
<1>1. ASSUME ret = "err" PROVE Inv'
  <2>2. stack' = Tail(stack) /\ UNCHANGED seen
    BY <1>0, <1>1 DEF MethodFirst, Return, Pop, Unbalanced
  <2>3. "left" \in seen' \/ ("missing" \notin seen' /\ (Top.op # "callHost" => exc' = "none"))
    BY <1>0, <1>1, <2>2 DEF MethodFirst, Methods
  <2> QED
    BY <1>0, <2>2, <2>3, Unwritten, PopKeeps
<1>2. ASSUME Call(Below(Top, "second"), "toPy"), UNCHANGED <<ret, seen>> PROVE Inv'
  <2> DEFINE f == Below(Top, "second")
  <2>1. f \in Kept /\ f.op = Top.op /\ ~f.inC /\ f.at \in Waiting
    BY <1>0 DEF Kept, Frames, HeldAt, Hold, Below, Functions, Methods, Locations, AfterC, Waiting
  <2>2. Call(f, "toPy") /\ UNCHANGED seen
    BY <1>0, <1>2 DEF MethodFirst, PyError
  <2> HIDE DEF f
  <2>3. "left" \in seen' \/ ("missing" \notin seen' /\ (exc' # "none" <=> "toPy" = "pyError"))
    BY <1>0, <1>2, <2>2 DEF MethodFirst
  <2> QED
    BY <1>0, <2>1, <2>2, <2>3, Unwritten, CallKeeps
<1>3. ASSUME Run(Top, "call"), UNCHANGED <<ret, seen>> PROVE Inv'
  <2> DEFINE f == [Top EXCEPT !.at = "call", !.inC = TRUE]
  <2>1. f \in Kept /\ f.op = Top.op /\ f.inC
    BY <1>0 DEF Kept, Frames, HeldAt, Hold, Below, Functions, Methods, Locations, AfterC, Waiting
  <2>2. Become(f) /\ UNCHANGED seen
    BY <1>0, <1>3 DEF MethodFirst, Run
  <2> HIDE DEF f
  <2>3. "left" \in seen' \/ "missing" \notin seen'
    BY <1>0, <2>2
  <2> QED
    BY <1>0, <2>1, <2>2, <2>3, Unwritten, BecomeKeeps
<1> QED
  BY <1>0, <1>1, <1>2, <1>3 DEF MethodFirst

(* ... and after the others. *)
LEMMA MethodSecondKeeps == Inv /\ MethodSecond => Inv'
<1> SUFFICES ASSUME Inv, MethodSecond PROVE Inv'
  OBVIOUS
<1>0. /\ stack # << >> /\ Top \in Kept /\ ~Top.inC /\ Top.held = 0
      /\ Top.op \in {"SetItem", "CallKw"} /\ Top.at = "second"
      /\ "left" \in seen \/ ("missing" \notin seen /\ (exc = "none"))
  <2>1. stack # << >> /\ ~Top.inC /\ Top.op \in {"SetItem", "CallKw"} /\ Top.at = "second"
    BY DEF MethodSecond, At
  <2>2. Top \in Kept
    BY <2>1, TopKept
  <2>3. Top.held = 0
    BY <2>1, <2>2 DEF Kept, HeldAt, Methods
  <2> QED
    BY <2>1, <2>2, <2>3 DEF Inv, Consumed, ExcAt, AfterC
<1>1. ASSUME ret = "err" PROVE Inv'
  <2>2. stack' = Tail(stack) /\ UNCHANGED seen
    BY <1>0, <1>1 DEF MethodSecond, Return, Pop, Unbalanced
  <2>3. "left" \in seen' \/ ("missing" \notin seen' /\ (Top.op # "callHost" => exc' = "none"))
    BY <1>0, <1>1, <2>2 DEF MethodSecond, Methods
  <2> QED
    BY <1>0, <2>2, <2>3, Unwritten, PopKeeps
<1>2. ASSUME ret # "err" PROVE Inv'
  <2> DEFINE f == [Top EXCEPT !.at = "call", !.inC = TRUE]
  <2>1. f \in Kept /\ f.op = Top.op /\ f.inC
    BY <1>0 DEF Kept, Frames, HeldAt, Hold, Below, Functions, Methods, Locations, AfterC, Waiting
  <2>2. Become(f) /\ UNCHANGED seen
    BY <1>0, <1>2 DEF MethodSecond, Run
  <2> HIDE DEF f
  <2>3. "left" \in seen' \/ "missing" \notin seen'
    BY <1>0, <2>2
  <2> QED
    BY <1>0, <2>1, <2>2, <2>3, Unwritten, BecomeKeeps
<1> QED
  BY <1>0, <1>1, <1>2 DEF MethodSecond

(* ... and after C code has returned. *)
LEMMA MethodCalledKeeps == Inv /\ MethodCalled => Inv'
<1> SUFFICES ASSUME Inv, MethodCalled PROVE Inv'
  OBVIOUS
<1>0. /\ stack # << >> /\ Top \in Kept /\ ~Top.inC /\ Top.held = 0
      /\ Top.op \in {"SetItem", "CallKw", "Eval"} /\ Top.at = "call"
      /\ "left" \in seen \/ ("missing" \notin seen /\ (ret \in {"ok", "null"} /\ (exc = "none" <=> ret = "ok")))
  <2>1. stack # << >> /\ ~Top.inC /\ Top.op \in {"SetItem", "CallKw", "Eval"} /\ Top.at = "call"
    BY DEF MethodCalled, At
  <2>2. Top \in Kept
    BY <2>1, TopKept
  <2>3. Top.held = 0
    BY <2>1, <2>2 DEF Kept, HeldAt, Methods
  <2> QED
    BY <2>1, <2>2, <2>3 DEF Inv, Consumed, ExcAt, AfterC
<1>1. ASSUME ret = "null" PROVE Inv'
  <2> DEFINE f == Below(Top, "failed")
  <2>1. f \in Kept /\ f.op = Top.op /\ ~f.inC /\ f.at \in Waiting
    BY <1>0 DEF Kept, Frames, HeldAt, Hold, Below, Functions, Methods, Locations, AfterC, Waiting
  <2>2. Call(f, "pyError") /\ UNCHANGED seen
    BY <1>0, <1>1 DEF MethodCalled, PyError
  <2> HIDE DEF f
  <2>3. "left" \in seen' \/ ("missing" \notin seen' /\ (exc' # "none" <=> "pyError" = "pyError"))
    BY <1>0, <1>1, <2>2 DEF MethodCalled
  <2> QED
    BY <1>0, <2>1, <2>2, <2>3, Unwritten, CallKeeps
<1>2. ASSUME ret # "null" PROVE Inv'
  <2>2. stack' = Tail(stack) /\ UNCHANGED seen
    BY <1>0, <1>2 DEF MethodCalled, Return, Pop, Unbalanced
  <2>3. "left" \in seen' \/ ("missing" \notin seen' /\ (Top.op # "callHost" => exc' = "none"))
    BY <1>0, <1>2, <2>2 DEF MethodCalled, Methods
  <2> QED
    BY <1>0, <2>2, <2>3, Unwritten, PopKeeps
<1> QED
  BY <1>0, <1>1, <1>2 DEF MethodCalled

(* Value and Int end. *)
LEMMA MethodDoneKeeps == Inv /\ MethodDone => Inv'
<1> SUFFICES ASSUME Inv, MethodDone PROVE Inv'
  OBVIOUS
<1>0. /\ stack # << >> /\ Top \in Kept /\ ~Top.inC /\ Top.held = 0
      /\ Top.op \in {"Value", "Int"} /\ Top.at = "done"
      /\ "left" \in seen \/ ("missing" \notin seen /\ (exc = "none"))
  <2>1. stack # << >> /\ ~Top.inC /\ Top.op \in {"Value", "Int"} /\ Top.at = "done"
    BY DEF MethodDone, At
  <2>2. Top \in Kept
    BY <2>1, TopKept
  <2>3. Top.held = 0
    BY <2>1, <2>2 DEF Kept, HeldAt, Methods
  <2> QED
    BY <2>1, <2>2, <2>3 DEF Inv, Consumed, ExcAt, AfterC
<1>1. Inv'
  <2>2. stack' = Tail(stack) /\ UNCHANGED seen
    BY <1>0 DEF MethodDone, Return, Pop, Unbalanced
  <2>3. "left" \in seen' \/ ("missing" \notin seen' /\ (Top.op # "callHost" => exc' = "none"))
    BY <1>0, <2>2 DEF MethodDone, Methods
  <2> QED
    BY <1>0, <2>2, <2>3, Unwritten, PopKeeps
<1> QED
  BY <1>1

(* display asks for str(). *)
LEMMA DisplayStartKeeps == Inv /\ DisplayStart => Inv'
<1> SUFFICES ASSUME Inv, DisplayStart PROVE Inv'
  OBVIOUS
<1>0. /\ stack # << >> /\ Top \in Kept /\ ~Top.inC /\ Top.held = 0
      /\ Top.op = "Str" /\ Top.at = "start"
      /\ "left" \in seen \/ ("missing" \notin seen /\ (exc = "none"))
  <2>1. stack # << >> /\ ~Top.inC /\ Top.op = "Str" /\ Top.at = "start"
    BY DEF DisplayStart, At
  <2>2. Top \in Kept
    BY <2>1, TopKept
  <2>3. Top.held = 0
    BY <2>1, <2>2 DEF Kept, HeldAt, Methods
  <2> QED
    BY <2>1, <2>2, <2>3 DEF Inv, Consumed, ExcAt, AfterC
<1>1. Inv'
  <2> DEFINE f == [Top EXCEPT !.at = "str", !.inC = TRUE]
  <2>1. f \in Kept /\ f.op = Top.op /\ f.inC
    BY <1>0 DEF Kept, Frames, HeldAt, Hold, Below, Functions, Methods, Locations, AfterC, Waiting
  <2>2. Become(f) /\ UNCHANGED seen
    BY <1>0 DEF DisplayStart, Run
  <2> HIDE DEF f
  <2>3. "left" \in seen' \/ "missing" \notin seen'
    BY <1>0, <2>2
  <2> QED
    BY <1>0, <2>1, <2>2, <2>3, Unwritten, BecomeKeeps
<1> QED
  BY <1>1

(* Its text was read, or its exception consumed. *)
LEMMA DisplayStrKeeps == Inv /\ DisplayStr => Inv'
<1> SUFFICES ASSUME Inv, DisplayStr PROVE Inv'
  OBVIOUS
<1>0. /\ stack # << >> /\ Top \in Kept /\ ~Top.inC /\ Top.held = 0
      /\ Top.op = "Str" /\ Top.at = "str"
      /\ "left" \in seen \/ ("missing" \notin seen /\ (ret \in {"ok", "null"} /\ (exc = "none" <=> ret = "ok")))
  <2>1. stack # << >> /\ ~Top.inC /\ Top.op = "Str" /\ Top.at = "str"
    BY DEF DisplayStr, At
  <2>2. Top \in Kept
    BY <2>1, TopKept
  <2>3. Top.held = 0
    BY <2>1, <2>2 DEF Kept, HeldAt, Methods
  <2> QED
    BY <2>1, <2>2, <2>3 DEF Inv, Consumed, ExcAt, AfterC
<1>1. ASSUME ret = "null", Run(Top, "name"), UNCHANGED seen PROVE Inv'
  <2> DEFINE f == [Top EXCEPT !.at = "name", !.inC = TRUE]
  <2>1. f \in Kept /\ f.op = Top.op /\ f.inC
    BY <1>0 DEF Kept, Frames, HeldAt, Hold, Below, Functions, Methods, Locations, AfterC, Waiting
  <2>2. Become(f) /\ UNCHANGED seen
    BY <1>0, <1>1 DEF DisplayStr, Run
  <2> HIDE DEF f
  <2>3. "left" \in seen' \/ "missing" \notin seen'
    BY <1>0, <2>2
  <2> QED
    BY <1>0, <2>1, <2>2, <2>3, Unwritten, BecomeKeeps
<1>2. ASSUME exc' = "error", Call(Below(Top, "unprintable"), "pyError"), UNCHANGED <<ret, seen>> PROVE Inv'
  <2> DEFINE f == Below(Top, "unprintable")
  <2>1. f \in Kept /\ f.op = Top.op /\ ~f.inC /\ f.at \in Waiting
    BY <1>0 DEF Kept, Frames, HeldAt, Hold, Below, Functions, Methods, Locations, AfterC, Waiting
  <2>2. Call(f, "pyError") /\ UNCHANGED seen
    BY <1>0, <1>2 DEF DisplayStr, PyError
  <2> HIDE DEF f
  <2>3. "left" \in seen' \/ ("missing" \notin seen' /\ (exc' # "none" <=> "pyError" = "pyError"))
    BY <1>0, <1>2, <2>2 DEF DisplayStr
  <2> QED
    BY <1>0, <2>1, <2>2, <2>3, Unwritten, CallKeeps
<1>3. ASSUME ret = "ok", Return(Top, "none"), UNCHANGED exc PROVE Inv'
  <2>1. stack' = Tail(stack) /\ UNCHANGED seen
    BY <1>0, <1>3 DEF Return, Pop, Unbalanced
  <2>2. "left" \in seen' \/ ("missing" \notin seen' /\ exc' = "none")
    BY <1>0, <1>3, <2>1 DEF DisplayStr
  <2> QED
    BY <1>0, <2>1, <2>2, Unwritten, PopKeeps
<1> QED
  BY <1>0, <1>1, <1>2, <1>3 DEF DisplayStr

(* SetItem, CallKw and Eval begin. *)
LEMMA MethodStartKeeps == Inv /\ MethodStart => Inv'
<1> SUFFICES ASSUME Inv, MethodStart PROVE Inv'
  OBVIOUS
<1>0. /\ stack # << >> /\ Top \in Kept /\ ~Top.inC /\ Top.held = 0
      /\ Top.op \in {"SetItem", "CallKw", "Eval"} /\ Top.at = "start"
      /\ "left" \in seen \/ ("missing" \notin seen /\ (exc = "none"))
  <2>1. stack # << >> /\ ~Top.inC /\ Top.op \in {"SetItem", "CallKw", "Eval"} /\ Top.at = "start"
    BY DEF MethodStart, At
  <2>2. Top \in Kept
    BY <2>1, TopKept
  <2>3. Top.held = 0
    BY <2>1, <2>2 DEF Kept, HeldAt, Methods
  <2> QED
    BY <2>1, <2>2, <2>3 DEF Inv, Consumed, ExcAt, AfterC
<1>1. ASSUME Call(Below(Top, "first"), "toPy") PROVE Inv'
  <2> DEFINE f == Below(Top, "first")
  <2>1. f \in Kept /\ f.op = Top.op /\ ~f.inC /\ f.at \in Waiting
    BY <1>0 DEF Kept, Frames, HeldAt, Hold, Below, Functions, Methods, Locations, AfterC, Waiting
  <2>2. Call(f, "toPy") /\ UNCHANGED seen
    BY <1>0, <1>1 DEF MethodStart, PyError
  <2> HIDE DEF f
  <2>3. "left" \in seen' \/ ("missing" \notin seen' /\ (exc' # "none" <=> "toPy" = "pyError"))
    BY <1>0, <1>1, <2>2 DEF MethodStart
  <2> QED
    BY <1>0, <2>1, <2>2, <2>3, Unwritten, CallKeeps
<1>2. ASSUME Run(Top, "call") PROVE Inv'
  <2> DEFINE f == [Top EXCEPT !.at = "call", !.inC = TRUE]
  <2>1. f \in Kept /\ f.op = Top.op /\ f.inC
    BY <1>0 DEF Kept, Frames, HeldAt, Hold, Below, Functions, Methods, Locations, AfterC, Waiting
  <2>2. Become(f) /\ UNCHANGED seen
    BY <1>0, <1>2 DEF MethodStart, Run
  <2> HIDE DEF f
  <2>3. "left" \in seen' \/ "missing" \notin seen'
    BY <1>0, <2>2
  <2> QED
    BY <1>0, <2>1, <2>2, <2>3, Unwritten, BecomeKeeps
<1> QED
  BY <1>0, <1>1, <1>2 DEF MethodStart

(* Value and Int begin. *)
LEMMA MethodConvertsKeeps == Inv /\ MethodConverts => Inv'
<1> SUFFICES ASSUME Inv, MethodConverts PROVE Inv'
  OBVIOUS
<1>0. /\ stack # << >> /\ Top \in Kept /\ ~Top.inC /\ Top.held = 0
      /\ Top.op \in {"Value", "Int"} /\ Top.at = "start"
      /\ "left" \in seen \/ ("missing" \notin seen /\ (exc = "none"))
  <2>1. stack # << >> /\ ~Top.inC /\ Top.op \in {"Value", "Int"} /\ Top.at = "start"
    BY DEF MethodConverts, At
  <2>2. Top \in Kept
    BY <2>1, TopKept
  <2>3. Top.held = 0
    BY <2>1, <2>2 DEF Kept, HeldAt, Methods
  <2> QED
    BY <2>1, <2>2, <2>3 DEF Inv, Consumed, ExcAt, AfterC
<1>1. ASSUME Call(Below(Top, "done"), "fromPy") PROVE Inv'
  <2> DEFINE f == Below(Top, "done")
  <2>1. f \in Kept /\ f.op = Top.op /\ ~f.inC /\ f.at \in Waiting
    BY <1>0 DEF Kept, Frames, HeldAt, Hold, Below, Functions, Methods, Locations, AfterC, Waiting
  <2>2. Call(f, "fromPy") /\ UNCHANGED seen
    BY <1>0, <1>1 DEF MethodConverts, PyError
  <2> HIDE DEF f
  <2>3. "left" \in seen' \/ ("missing" \notin seen' /\ (exc' # "none" <=> "fromPy" = "pyError"))
    BY <1>0, <1>1, <2>2 DEF MethodConverts
  <2> QED
    BY <1>0, <2>1, <2>2, <2>3, Unwritten, CallKeeps
<1>2. ASSUME Call(Below(Top, "done"), "int64") PROVE Inv'
  <2> DEFINE f == Below(Top, "done")
  <2>1. f \in Kept /\ f.op = Top.op /\ ~f.inC /\ f.at \in Waiting
    BY <1>0 DEF Kept, Frames, HeldAt, Hold, Below, Functions, Methods, Locations, AfterC, Waiting
  <2>2. Call(f, "int64") /\ UNCHANGED seen
    BY <1>0, <1>2 DEF MethodConverts, PyError
  <2> HIDE DEF f
  <2>3. "left" \in seen' \/ ("missing" \notin seen' /\ (exc' # "none" <=> "int64" = "pyError"))
    BY <1>0, <1>2, <2>2 DEF MethodConverts
  <2> QED
    BY <1>0, <2>1, <2>2, <2>3, Unwritten, CallKeeps
<1> QED
  BY <1>0, <1>1, <1>2 DEF MethodConverts

(* display falls back to the name of the type. *)
LEMMA DisplayNameKeeps == Inv /\ DisplayName => Inv'
<1> SUFFICES ASSUME Inv, DisplayName PROVE Inv'
  OBVIOUS
<1>0. /\ stack # << >> /\ Top \in Kept /\ ~Top.inC /\ Top.held = 0
      /\ Top.op = "Str" /\ Top.at \in {"unprintable", "name"}
      /\ "left" \in seen \/ ("missing" \notin seen /\ (Top.at = "unprintable" => exc = "none"))
  <2>1. stack # << >> /\ ~Top.inC /\ Top.op = "Str" /\ Top.at \in {"unprintable", "name"}
    BY DEF DisplayName, At
  <2>2. Top \in Kept
    BY <2>1, TopKept
  <2>3. Top.held = 0
    BY <2>1, <2>2 DEF Kept, HeldAt, Methods
  <2> QED
    BY <2>1, <2>2, <2>3 DEF Inv, Consumed, ExcAt, AfterC
<1>1. ASSUME Top.at = "name" PROVE Inv'
  <2>2. stack' = Tail(stack) /\ UNCHANGED seen
    BY <1>0, <1>1 DEF DisplayName, Return, Pop, Unbalanced
  <2>3. "left" \in seen' \/ ("missing" \notin seen' /\ (Top.op # "callHost" => exc' = "none"))
    BY <1>0, <1>1, <2>2 DEF DisplayName, Methods
  <2> QED
    BY <1>0, <2>2, <2>3, Unwritten, PopKeeps
<1>2. ASSUME Top.at = "unprintable" PROVE Inv'
  <2> DEFINE f == [Top EXCEPT !.at = "name", !.inC = TRUE]
  <2>1. f \in Kept /\ f.op = Top.op /\ f.inC
    BY <1>0 DEF Kept, Frames, HeldAt, Hold, Below, Functions, Methods, Locations, AfterC, Waiting
  <2>2. Become(f) /\ UNCHANGED seen
    BY <1>0, <1>2 DEF DisplayName, Run
  <2> HIDE DEF f
  <2>3. "left" \in seen' \/ "missing" \notin seen'
    BY <1>0, <2>2
  <2> QED
    BY <1>0, <2>1, <2>2, <2>3, Unwritten, BecomeKeeps
<1> QED
  BY <1>0, <1>1, <1>2 DEF DisplayName

(* A C function succeeds. *)
LEMMA COkKeeps == Inv /\ COk => Inv'
<1> SUFFICES ASSUME Inv, COk PROVE Inv'
  OBVIOUS
<1> DEFINE f == [Top EXCEPT !.inC = FALSE]
<1>1. stack # << >> /\ Top.inC /\ Become(f) /\ ret' = "ok" /\ Caught /\ UNCHANGED seen
  BY DEF COk
<1>2. Top \in Kept /\ Top.at \in AfterC
  BY <1>1, TopKept DEF Kept
<1>3. f \in Kept /\ f.op = Top.op /\ f.at = Top.at /\ ~f.inC
  BY <1>2 DEF Kept, Frames, HeldAt
<1> HIDE DEF f
<1>4. "left" \in seen' \/ ("missing" \notin seen' /\ ExcAt(f, ret', exc'))
  BY <1>1, <1>2, <1>3 DEF Caught, Inv, Consumed, ExcAt
<1> QED
  BY <1>1, <1>3, <1>4, Unwritten, BecomeKeeps

(* A C function fails and leaves an exception. *)
LEMMA CNullKeeps == Inv /\ CNull => Inv'
<1> SUFFICES ASSUME Inv, CNull PROVE Inv'
  OBVIOUS
<1> DEFINE f == [Top EXCEPT !.inC = FALSE]
<1>1. /\ stack # << >> /\ Top.inC /\ Become(f) /\ ret' = "null" /\ exc' # "none"
      /\ UNCHANGED seen
  BY DEF CNull
<1>2. Top \in Kept /\ Top.at \in AfterC
  BY <1>1, TopKept DEF Kept
<1>3. f \in Kept /\ f.op = Top.op /\ f.at = Top.at /\ ~f.inC
  BY <1>2 DEF Kept, Frames, HeldAt
<1> HIDE DEF f
<1>4. "left" \in seen' \/ ("missing" \notin seen' /\ ExcAt(f, ret', exc'))
  BY <1>1, <1>2, <1>3 DEF Inv, Consumed, ExcAt
<1> QED
  BY <1>1, <1>3, <1>4, Unwritten, BecomeKeeps

(* The innermost k functions are unwound. *)
LEMMA Unwound ==
  ASSUME Inv, NEW k \in 1..Len(stack), stack' = SubSeq(stack, k + 1, Len(stack))
  PROVE  /\ stack' \in Seq(Kept) /\ Linked(stack)'
         /\ stack' # << >> => Top' = stack[k + 1] /\ Waits(stack[k + 1], stack[k].op)
         /\ stack' = << >> => stack[k].op \in Methods
<1>1. /\ stack \in Seq(Kept) /\ Len(stack) \in Nat /\ k \in Nat
      /\ stack' \in Seq(Kept) /\ Len(stack') = Len(stack) - k
      /\ \A j \in 1..Len(stack') : stack'[j] = stack[j + k]
  <2>1. stack \in Seq(Kept) /\ Len(stack) \in Nat /\ k \in Nat /\ k <= Len(stack)
    BY DEF Inv
  <2>2. k + 1 \in Int /\ Len(stack) \in Int /\ \A i \in (k + 1)..Len(stack) : stack[i] \in Kept
    BY <2>1
  <2>3. /\ stack' \in Seq(Kept)
        /\ Len(stack') = IF k + 1 <= Len(stack) THEN Len(stack) - (k + 1) + 1 ELSE 0
        /\ \A i \in 1..(Len(stack) - (k + 1) + 1) : stack'[i] = stack[(k + 1) + i - 1]
    BY <2>2, SubSeqProperties
  <2>4. Len(stack') = Len(stack) - k /\ Len(stack) - (k + 1) + 1 = Len(stack) - k
    BY <2>1, <2>3
  <2>5. ASSUME NEW j \in 1..Len(stack') PROVE stack'[j] = stack[j + k]
    <3>1. (k + 1) + j - 1 = j + k
      BY <2>1
    <3> QED
      BY <2>3, <2>4, <3>1
  <2> QED
    BY <2>1, <2>3, <2>4, <2>5
<1>2. stack' = << >> <=> k = Len(stack)
  <2>1. stack' \in Seq(Kept)
    BY <1>1
  <2>2. stack' = << >> <=> Len(stack') = 0
    BY <2>1, Emptied
  <2>3. Len(stack') = 0 <=> k = Len(stack)
    BY <1>1
  <2> QED
    BY <2>2, <2>3
<1>3. stack' # << >> => /\ 1 \in 1..Len(stack') /\ Head(stack') = stack'[1] /\ stack'[1] = stack[k + 1]
                       /\ k + 1 \in 1..Len(stack) /\ k + 1 > 1 /\ (k + 1) - 1 = k
  BY <1>1, <1>2
<1>4. stack' # << >> => Top' = stack[k + 1] /\ Waits(stack[k + 1], stack[k].op)
  <2>1. stack' # << >> => Waits(stack[k + 1], stack[(k + 1) - 1].op)
    BY <1>3 DEF Inv, Linked
  <2> QED
    BY <1>3, <2>1 DEF Top
<1>5. Linked(stack)'
  <2>1. stack' # << >> => stack'[Len(stack')].op \in Methods
    <3>1. SUFFICES ASSUME stack' # << >> PROVE stack'[Len(stack')].op \in Methods
      OBVIOUS
    <3>2. Len(stack') \in 1..Len(stack') /\ Len(stack') + k = Len(stack)
      BY <1>1, <1>2, <3>1
    <3>3. stack'[Len(stack')] = stack[Len(stack)]
      BY <1>1, <3>2
    <3>4. stack # << >>
      <4>1. stack \in Seq(Kept) /\ Len(stack) # 0
        BY <1>1
      <4> QED
        BY <4>1, Emptied
    <3> QED
      BY <3>3, <3>4 DEF Inv, Linked
  <2>2. ASSUME NEW j \in 1..Len(stack'), j > 1 PROVE Waits(stack'[j], stack'[j - 1].op)
    <3>1. j + k \in 1..Len(stack) /\ j + k > 1 /\ j - 1 \in 1..Len(stack') /\ (j - 1) + k = (j + k) - 1
      BY <1>1, <2>2
    <3>2. Waits(stack[j + k], stack[(j + k) - 1].op)
      BY <3>1 DEF Inv, Linked
    <3>3. stack'[j] = stack[j + k] /\ stack'[j - 1] = stack[(j - 1) + k]
      BY <1>1, <3>1
    <3> QED
      BY <3>1, <3>2, <3>3
  <2> QED
    BY <2>1, <2>2 DEF Linked
<1>6. stack' = << >> => stack[k].op \in Methods
  BY <1>1, <1>2 DEF Inv, Linked
<1> QED
  BY <1>1, <1>4, <1>5, <1>6

(* C code ends in an exit panic: whoever catches it, nobody asks for an     *)
(* exception that is not there.                                             *)
LEMMA CExitKeeps == Inv /\ CExit => Inv'
<1> SUFFICES ASSUME Inv, CExit PROVE Inv'
  OBVIOUS
<1>1. PICK k \in 1..Len(stack) :
        /\ Catches(stack[k])
        /\ stack' = SubSeq(stack, k + 1, Len(stack))
        /\ stack[k].op # "callHost" => Caught
        /\ seen' = seen \cup IF \E j \in 1..k : stack[j].held # 0 THEN {"lost"} ELSE {}
  BY DEF CExit
<1>2. /\ stack' \in Seq(Kept) /\ Linked(stack)'
      /\ stack' # << >> => Top' = stack[k + 1] /\ Waits(stack[k + 1], stack[k].op)
      /\ stack' = << >> => stack[k].op \in Methods
  BY <1>1, Unwound
<1>3. seen' = seen \/ seen' = seen \cup {"lost"}
  BY <1>1
<1>4. stack # << >> /\ Top.inC
  BY DEF CExit
<1>5. "left" \in seen \/ "missing" \notin seen
  BY DEF Inv, Consumed
<1>6. CASE stack[k].op = "callHost"
  <2>1. stack' # << >> /\ Top'.inC
    BY <1>2, <1>6 DEF Waits, Methods
  <2> QED
    BY <1>2, <1>3, <1>5, <2>1 DEF Inv, Consumed, Top
<1>7. CASE stack[k].op # "callHost"
  <2>1. "left" \in seen \/ exc' = "none"
    BY <1>1, <1>7 DEF Caught
  <2>2. stack' # << >> => ~Top'.inC /\ Top'.at \in Waiting
    BY <1>2, <1>7 DEF Waits
  <2>3. Consumed'
    BY <1>3, <1>5, <2>1, <2>2 DEF Consumed, ExcAt, Waiting, AfterC
  <2> QED
    BY <1>2, <1>3, <2>3 DEF Inv
<1> QED
  BY <1>6, <1>7

(* Python code calls a host function. *)
LEMMA CallHostKeeps == Inv /\ CallHost => Inv'
<1> SUFFICES ASSUME Inv, CallHost PROVE Inv'
  OBVIOUS
<1>1. /\ stack # << >> /\ Top.inC /\ stack' = <<Frame("callHost", "start")>> \o stack
      /\ Caught /\ UNCHANGED seen
  BY DEF CallHost
<1>2. Waits(Top, "callHost")
  BY <1>1 DEF Waits
<1>3. "left" \in seen' \/ ("missing" \notin seen' /\ exc' = "none")
  BY <1>1 DEF Caught, Inv, Consumed
<1> QED
  BY <1>1, <1>2, <1>3, Unwritten, PushKeeps

(* A method is called. *)
LEMMA BeginKeeps ==
  ASSUME Inv, NEW m \in Methods, Begin(m)
  PROVE  Inv'
<1>1. /\ stack' = <<Frame(m, "start")>> \o stack /\ UNCHANGED <<exc, seen>>
      /\ stack # << >> => ~Top.inC /\ Top.op = "callHost" /\ Top.at = "fn"
  BY DEF Begin, At
<1>2. stack # << >> => Waits(Top, m)
  BY <1>1 DEF Waits, Waiting, Methods
<1>3. "left" \in seen' \/ ("missing" \notin seen' /\ exc' = "none")
  BY <1>1 DEF Inv, Consumed, ExcAt, AfterC
<1> QED
  BY <1>1, <1>2, <1>3, Unwritten, PushKeeps

(* What is no int has an __index__. *)
LEMMA IntStartKeeps == Inv /\ IntStart => Inv'
<1> SUFFICES ASSUME Inv, IntStart PROVE Inv'
  OBVIOUS
<1> DEFINE f == [Top EXCEPT !.at = "index", !.inC = TRUE]
<1>0. /\ stack # << >> /\ Top \in Kept /\ Top.op = "int64" /\ Top.at = "start"
  BY TopKept DEF IntStart, At
<1>1. Become(f) /\ UNCHANGED seen
  BY DEF IntStart, Run
<1>2. f \in Kept /\ f.op = Top.op /\ f.inC
  BY <1>0 DEF Kept, Frames, HeldAt, Methods, Locations, AfterC
<1> HIDE DEF f
<1>3. "left" \in seen' \/ "missing" \notin seen'
  BY <1>1 DEF Inv, Consumed
<1> QED
  BY <1>0, <1>1, <1>2, <1>3, Unwritten, BecomeKeeps

(* __index__ has raised, or there is an int. *)
LEMMA IntIndexKeeps == Inv /\ IntIndex => Inv'
<1> SUFFICES ASSUME Inv, IntIndex PROVE Inv'
  OBVIOUS
<1>0. /\ stack # << >> /\ Top \in Kept /\ ~Top.inC /\ Top.held = 0
      /\ Top.op = "int64" /\ Top.at = "index"
      /\ "left" \in seen \/ ("missing" \notin seen /\ (ret \in {"ok", "null"} /\ (exc = "none" <=> ret = "ok")))
  <2>1. stack # << >> /\ ~Top.inC /\ Top.op = "int64" /\ Top.at = "index"
    BY DEF IntIndex, At
  <2>2. Top \in Kept
    BY <2>1, TopKept
  <2>3. Top.held = 0
    BY <2>1, <2>2 DEF Kept, HeldAt
  <2> QED
    BY <2>1, <2>2, <2>3 DEF Inv, Consumed, ExcAt, AfterC
<1>1. CASE ret = "null"
  <2> DEFINE f == Below(Top, "failed")
  <2>1. f \in Kept /\ f.op = Top.op /\ ~f.inC /\ f.at \in Waiting
    BY <1>0 DEF Kept, Frames, HeldAt, Hold, Below, Functions, Methods, Locations, AfterC, Waiting
  <2>2. Call(f, "pyError") /\ UNCHANGED <<exc, seen>>
    BY <1>1 DEF IntIndex, PyError
  <2> HIDE DEF f
  <2>3. "left" \in seen' \/ ("missing" \notin seen' /\ exc' # "none")
    BY <1>0, <1>1, <2>2
  <2> QED
    BY <1>0, <2>1, <2>2, <2>3, Unwritten, CallKeeps
<1>2. CASE ret # "null"
  <2>1. stack' = Tail(stack) /\ UNCHANGED seen
    BY <1>0, <1>2 DEF IntIndex, Return, Pop, Unbalanced
  <2>2. "left" \in seen' \/ ("missing" \notin seen' /\ exc' = "none")
    BY <1>0, <1>2, <2>1 DEF IntIndex
  <2> QED
    BY <1>0, <2>1, <2>2, Unwritten, PopKeeps
<1> QED
  BY <1>1, <1>2

(* pyError finds an exception. *)
LEMMA ErrorStartKeeps == Inv /\ ErrorStart => Inv'
<1> SUFFICES ASSUME Inv, ErrorStart PROVE Inv'
  OBVIOUS
<1>0. /\ stack # << >> /\ Top \in Kept /\ ~Top.inC /\ Top.op = "pyError" /\ Top.at = "start"
      /\ "left" \in seen \/ ("missing" \notin seen /\ exc # "none")
  <2>1. stack # << >> /\ ~Top.inC /\ Top.op = "pyError" /\ Top.at = "start"
    BY DEF ErrorStart, At
  <2> QED
    BY <2>1, TopKept DEF Inv, Consumed, ExcAt, AfterC
<1>1. CASE exc = "none"
  <2>1. stack' = Tail(stack) /\ seen' = seen \cup {"missing"}
    BY <1>1 DEF ErrorStart, Pop
  <2>2. "left" \in seen'
    BY <1>0, <1>1, <2>1
  <2>3. SeenKept
    BY <2>1 DEF SeenKept, Inv
  <2> QED
    BY <1>0, <2>1, <2>2, <2>3, PopKeeps
<1>2. CASE exc # "none"
  <2> DEFINE f == [Top EXCEPT !.at = IF exc = "exit" THEN "code" ELSE "type", !.inC = TRUE]
  <2>1. f \in Kept /\ f.op = Top.op /\ f.inC
    BY <1>0 DEF Kept, Frames, HeldAt, Methods, Locations, AfterC
  <2>2. Become(f) /\ UNCHANGED seen
    BY <1>2 DEF ErrorStart, Run
  <2> HIDE DEF f
  <2>3. "left" \in seen' \/ "missing" \notin seen'
    BY <1>0, <2>2
  <2> QED
    BY <1>0, <2>1, <2>2, <2>3, Unwritten, BecomeKeeps
<1> QED
  BY <1>1, <1>2

(* PyLong_AsLong may leave an exception. *)
LEMMA ExitCodeKeeps == Inv /\ ExitCode => Inv'
<1> SUFFICES ASSUME Inv, ExitCode PROVE Inv'
  OBVIOUS
<1>0. /\ stack # << >> /\ Top \in Kept /\ Top.held = 0 /\ Top.op = "pyError" /\ Top.at = "code"
  <2>1. stack # << >> /\ Top.op = "pyError" /\ Top.at = "code"
    BY DEF ExitCode, At
  <2> QED
    BY <2>1, TopKept DEF Kept, HeldAt
<1>1. ASSUME exc' = "none", Return(Top, "err") PROVE Inv'
  <2>1. stack' = Tail(stack) /\ UNCHANGED seen
    BY <1>0, <1>1 DEF Return, Pop, Unbalanced
  <2>2. "left" \in seen' \/ ("missing" \notin seen' /\ exc' = "none")
    BY <1>1, <2>1 DEF Inv, Consumed
  <2> QED
    BY <1>0, <2>1, <2>2, Unwritten, PopKeeps
<1>2. ASSUME Pop("err"), seen' = seen \cup {"left"} PROVE Inv'
  <2>1. stack' = Tail(stack) /\ "left" \in seen'
    BY <1>2 DEF Pop
  <2>2. SeenKept
    BY <1>0, <1>2 DEF SeenKept, Inv
  <2> QED
    BY <1>0, <2>1, <2>2, PopKeeps
<1>3. ASSUME Run(Top, "print"), UNCHANGED seen PROVE Inv'
  <2> DEFINE f == [Top EXCEPT !.at = "print", !.inC = TRUE]
  <2>1. f \in Kept /\ f.op = Top.op /\ f.inC
    BY <1>0 DEF Kept, Frames, HeldAt, Methods, Locations, AfterC
  <2>2. Become(f)
    BY <1>3 DEF Run
  <2> HIDE DEF f
  <2>3. "left" \in seen' \/ "missing" \notin seen'
    BY <1>3 DEF Inv, Consumed
  <2> QED
    BY <1>0, <1>3, <2>1, <2>2, <2>3, Unwritten, BecomeKeeps
<1> QED
  BY <1>1, <1>2, <1>3 DEF ExitCode

(* The traceback module is given back once its function is in the cache. *)
LEMMA ErrorAttrKeeps == Inv /\ ErrorAttr => Inv'
<1> SUFFICES ASSUME Inv, ErrorAttr PROVE Inv'
  OBVIOUS
<1>0. /\ stack # << >> /\ Top \in Kept /\ Top.held = 1 /\ Top.op = "pyError" /\ Top.at = "attr"
  <2>1. stack # << >> /\ Top.op = "pyError" /\ Top.at = "attr"
    BY DEF ErrorAttr, At
  <2> QED
    BY <2>1, TopKept DEF Kept, HeldAt
<1> DEFINE again == IF cached THEN {"again"} ELSE {}
<1>1. Hold(Top, -1) \in Frames /\ Hold(Top, -1).held = 0 /\ Hold(Top, -1).op = Top.op
  <2>1. Hold(Top, -1) \in Frames
    BY <1>0, HoldFrame DEF Kept
  <2> QED
    BY <1>0, <2>1 DEF Hold, Kept, Frames
<1>2. seen' = seen \cup again => SeenKept /\ ("missing" \in seen' => "missing" \in seen)
  BY <1>0 DEF SeenKept, Inv
<1>3. CASE ret = "null"
  <2>1. stack' = Tail(stack) /\ exc' = "none" /\ seen' = seen \cup again
    BY <1>1, <1>3 DEF ErrorAttr, Pop, Unbalanced
  <2>2. "left" \in seen' \/ ("missing" \notin seen' /\ exc' = "none")
    BY <1>2, <2>1 DEF Inv, Consumed, SeenKept
  <2> QED
    BY <1>0, <1>2, <2>1, <2>2, PopKeeps
<1>4. CASE ret # "null"
  <2> DEFINE f == [Hold(Top, -1) EXCEPT !.at = "lines", !.inC = TRUE]
  <2>1. f \in Kept /\ f.op = Top.op /\ f.inC
    <3>1. f \in Frames
      BY <1>1, RunFrame DEF Locations, AfterC
    <3>2. f.op = Top.op /\ f.at = "lines" /\ f.inC = TRUE /\ f.held = 0
      BY <1>1 DEF Frames
    <3> HIDE DEF f
    <3> QED
      BY <1>0, <3>1, <3>2 DEF Kept, HeldAt, Methods, AfterC
  <2>2. Become(f) /\ seen' = seen \cup again
    BY <1>4 DEF ErrorAttr, Run
  <2> HIDE DEF f
  <2>3. "left" \in seen' \/ "missing" \notin seen'
    BY <1>0, <1>2, <2>2 DEF Inv, Consumed, SeenKept
  <2> QED
    BY <1>0, <1>2, <2>1, <2>2, <2>3, BecomeKeeps
<1> QED
  BY <1>3, <1>4

-----------------------------------------------------------------------------

LEMMA InitInv == Init => Inv  \* nothing is in progress at first
<1> SUFFICES ASSUME Init PROVE Inv
  OBVIOUS
<1>1. stack = << >> /\ stack \in Seq(Kept) /\ Len(stack) = 0
  BY DEF Init
<1> QED
  BY <1>1 DEF Init, Inv, Linked, Consumed

(* Every step keeps Inv. *)
LEMMA NextInv == Inv /\ [Next]_vars => Inv'
<1> SUFFICES ASSUME Inv, [Next]_vars PROVE Inv'
  OBVIOUS
<1>1. CASE UNCHANGED vars
  BY <1>1 DEF vars, Inv, Linked, Consumed, Top
<1>2. ASSUME NEW m \in Methods, Begin(m) PROVE Inv'
  BY <1>2, BeginKeeps
<1>3. CASE Method
  BY <1>3, MethodStartKeeps, MethodFirstKeeps, MethodSecondKeeps, MethodCalledKeeps,
     MethodConvertsKeeps, MethodDoneKeeps, DisplayStartKeeps, DisplayStrKeeps, DisplayNameKeeps
     DEF Method
<1>4. CASE Host
  BY <1>4, HostStartKeeps, HostReturnKeeps, HostResultKeeps DEF Host
<1>5. CASE ToPy
  BY <1>5, ToPyLeafKeeps, ToPyContainerKeeps, ToPyNextKeeps, ToPyItemKeeps, ToPyKeyKeeps,
     ToPyValueKeeps, ToPySetKeeps DEF ToPy
<1>6. CASE FromPy
  BY <1>6, FromPyLeafKeeps, FromPyIntKeeps, FromPyBigKeeps, FromPyReadKeeps, FromPyContainerKeeps,
     FromPyBeginKeeps, FromPyNextKeeps, FromPyItemKeeps, FromPyKeyKeeps, FromPyKeyStrKeeps,
     FromPyGetKeeps, FromPyValueKeeps DEF FromPy
<1>7. CASE Int64
  BY <1>7, IntExactKeeps, IntStartKeeps, IntIndexKeeps DEF Int64
<1>8. CASE Error
  BY <1>8, ErrorStartKeeps, ExitCodeKeeps, ExitPrintKeeps, ErrorTypeKeeps, ErrorStrKeeps,
     ErrorImportKeeps, ErrorAttrKeeps, ErrorLinesKeeps, ErrorLenKeeps, ErrorLineKeeps DEF Error
<1>9. CASE Failed \/ COk \/ CNull \/ CExit \/ CallHost
  BY <1>9, FailedKeeps, COkKeeps, CNullKeeps, CExitKeeps, CallHostKeeps
<1> QED
  BY <1>1, <1>2, <1>3, <1>4, <1>5, <1>6, <1>7, <1>8, <1>9 DEF Next

(* Inv holds of every reachable state, whatever the bounds. *)
LEMMA InvHolds == Spec => []Inv
BY InitInv, NextInv, PTL DEF Spec

(* Every reference a conversion makes is given back or handed on, once,     *)
(* wherever it returns, also after exit panics that did not let others      *)
(* return (convert.go, errors.go).                                          *)
THEOREM ReferencesBalance == Spec => []NothingLeaked
<1>1. Inv => NothingLeaked
  BY DEF Inv, NothingLeaked
<1> QED
  BY <1>1, InvHolds, PTL

(* An exception is there when pyError asks for it, and none is left when a  *)
(* method returns, unless PyLong_AsLong in exitError or PyObject_Length in  *)
(* formatException left one.                                                *)
THEOREM ErrorsConsumed == Spec => []ExceptionsConsumed
<1>1. Inv => ExceptionsConsumed
  BY DEF Inv, Consumed, ExcAt, AfterC, ExceptionsConsumed, At
<1> QED
  BY <1>1, InvHolds, PTL

-----------------------------------------------------------------------------
(* The cache of the standard library.                                       *)

(* TypeOK, in parts. *)
FilesOK ==
  /\ content \in [Files -> {"none", "partial", "complete"}]
  /\ tmp \in [Processes -> {"none", "empty", "partial", "complete"}]
  /\ file \in [Processes -> 1..(NFiles + 1)]

CallsOK ==
  /\ status \in [Processes -> {"out", "in", "home", "failed"}]
  /\ pc \in [Processes -> {"out", "stat", "create", "copy", "close",
                           "rename", "check", "remove", "next"}]
  /\ err \subseteq Processes /\ faulty \subseteq Processes

CountsOK ==
  /\ faults \in 0..MaxFaults /\ unremoved \in 0..faults
  /\ kills \in 0..MaxKills
  /\ left \in 0..(kills + unremoved)

(* A name stands for nothing or for a complete file. *)
NoPartialFile == \A f \in Files : content[f] # "partial"

(* What p knows of the files it has passed, and of the one it is at.        *)
Installed(p) ==
  /\ \A f \in Files : f < file[p] => content[f] = "complete"
  /\ pc[p] \notin {"out", "stat"} => file[p] \in Files
  /\ pc[p] = "out" => file[p] = 1
  /\ pc[p] \in {"remove", "next"} /\ p \notin err => content[file[p]] = "complete"
  /\ pc[p] \in {"close", "rename"} => tmp[p] = "complete"

(* p is in Home exactly while it is somewhere, and only then has a file.    *)
Inside(p) ==
  /\ status[p] = "in" <=> pc[p] # "out"
  /\ pc[p] \in {"out", "stat", "create", "next"} => tmp[p] = "none"

(* What p calls an error is a failure of its own. *)
Faulted(p) ==
  /\ p \in err => pc[p] \in {"remove", "next"}
  /\ p \in err \/ status[p] = "failed" => p \in faulty
  /\ pc[p] = "check" /\ content[file[p]] = "none" => p \in faulty

CacheInv ==
  /\ FilesOK /\ CallsOK /\ CountsOK
  /\ NoPartialFile
  /\ \A p \in Processes : Installed(p) /\ Inside(p) /\ Faulted(p)

-----------------------------------------------------------------------------

(* The initial state satisfies the invariant. *)
LEMMA InitCacheInv == CacheInit => CacheInv
BY StdlibCacheAssumption
   DEF CacheInit, CacheInv, FilesOK, CallsOK, CountsOK, NoPartialFile, Installed, Inside, Faulted, Files

(* The files and the positions in their list. *)
LEMMA FileNumbers ==
  /\ Files \subseteq Nat
  /\ 1 \in 1..(NFiles + 1)
  /\ \A f \in Files : f \in 1..(NFiles + 1) /\ f + 1 \in 1..(NFiles + 1)
  /\ \A n \in 1..(NFiles + 1) : ~(n > NFiles) => n \in Files
BY StdlibCacheAssumption DEF Files

(* Every step keeps it, action by action. *)
LEMMA NextCacheInv == CacheInv /\ [CacheNext]_cacheVars => CacheInv'
<1> SUFFICES ASSUME CacheInv, [CacheNext]_cacheVars PROVE CacheInv'
  OBVIOUS
<1> USE FileNumbers DEF disk, trouble
<1>1. CASE UNCHANGED cacheVars
  BY <1>1 DEF cacheVars, CacheInv, FilesOK, CallsOK, CountsOK, NoPartialFile, Installed, Inside, Faulted
<1>2. ASSUME NEW p \in Processes, Home(p) PROVE CacheInv'
  <2>1. FilesOK'
    BY <1>2 DEF Home, Goto, CacheInv, FilesOK, CallsOK, Installed
  <2>2. CallsOK'
    BY <1>2 DEF Home, Goto, CacheInv, CallsOK
  <2>3. CountsOK'
    BY <1>2, StdlibCacheAssumption DEF Home, Goto, CacheInv, CallsOK, CountsOK, Inside
  <2>4. NoPartialFile'
    BY <1>2 DEF Home, Goto, CacheInv, FilesOK, CallsOK, NoPartialFile, Installed
  <2>5. ASSUME NEW q \in Processes PROVE Installed(q)'
    BY <1>2 DEF Home, Goto, CacheInv, FilesOK, CallsOK, NoPartialFile, Installed
  <2>6. ASSUME NEW q \in Processes PROVE Inside(q)'
    BY <1>2 DEF Home, Goto, CacheInv, FilesOK, CallsOK, Inside
  <2>7. ASSUME NEW q \in Processes PROVE Faulted(q)'
    BY <1>2 DEF Home, Goto, CacheInv, FilesOK, CallsOK, NoPartialFile, Installed, Inside, Faulted
  <2> QED
    BY <2>1, <2>2, <2>3, <2>4, <2>5, <2>6, <2>7 DEF CacheInv
<1>3. ASSUME NEW p \in Processes, Stat(p) PROVE CacheInv'
  <2>1. FilesOK'
    BY <1>3 DEF Stat, Goto, Fault, Leave, Keep, CacheInv, FilesOK, CallsOK, Installed
  <2>2. CallsOK'
    BY <1>3 DEF Stat, Goto, Fault, Leave, Keep, CacheInv, CallsOK
  <2>3. CountsOK'
    BY <1>3, StdlibCacheAssumption DEF Stat, Goto, Fault, Leave, Keep, CacheInv, CallsOK, CountsOK, Inside
  <2>4. NoPartialFile'
    BY <1>3 DEF Stat, Goto, Fault, Leave, Keep, CacheInv, FilesOK, CallsOK, NoPartialFile, Installed
  <2>5. ASSUME NEW q \in Processes PROVE Installed(q)'
    BY <1>3 DEF Stat, Goto, Fault, Leave, Keep, CacheInv, FilesOK, CallsOK, NoPartialFile, Installed
  <2>6. ASSUME NEW q \in Processes PROVE Inside(q)'
    BY <1>3 DEF Stat, Goto, Fault, Leave, Keep, CacheInv, FilesOK, CallsOK, Inside
  <2>7. ASSUME NEW q \in Processes PROVE Faulted(q)'
    BY <1>3 DEF Stat, Goto, Fault, Leave, Keep, CacheInv, FilesOK, CallsOK, NoPartialFile, Installed, Inside, Faulted
  <2> QED
    BY <2>1, <2>2, <2>3, <2>4, <2>5, <2>6, <2>7 DEF CacheInv
<1>4. ASSUME NEW p \in Processes, Create(p) PROVE CacheInv'
  <2>1. FilesOK'
    BY <1>4 DEF Create, Goto, Fault, Leave, Keep, CacheInv, FilesOK, CallsOK, Installed
  <2>2. CallsOK'
    BY <1>4 DEF Create, Goto, Fault, Leave, Keep, CacheInv, CallsOK
  <2>3. CountsOK'
    BY <1>4, StdlibCacheAssumption DEF Create, Goto, Fault, Leave, Keep, CacheInv, CallsOK, CountsOK, Inside
  <2>4. NoPartialFile'
    BY <1>4 DEF Create, Goto, Fault, Leave, Keep, CacheInv, FilesOK, CallsOK, NoPartialFile, Installed
  <2>5. ASSUME NEW q \in Processes PROVE Installed(q)'
    BY <1>4 DEF Create, Goto, Fault, Leave, Keep, CacheInv, FilesOK, CallsOK, NoPartialFile, Installed
  <2>6. ASSUME NEW q \in Processes PROVE Inside(q)'
    BY <1>4 DEF Create, Goto, Fault, Leave, Keep, CacheInv, FilesOK, CallsOK, Inside
  <2>7. ASSUME NEW q \in Processes PROVE Faulted(q)'
    BY <1>4 DEF Create, Goto, Fault, Leave, Keep, CacheInv, FilesOK, CallsOK, NoPartialFile, Installed, Inside, Faulted
  <2> QED
    BY <2>1, <2>2, <2>3, <2>4, <2>5, <2>6, <2>7 DEF CacheInv
<1>5. ASSUME NEW p \in Processes, Copy(p) PROVE CacheInv'
  <2>1. FilesOK'
    BY <1>5 DEF Copy, Goto, More, Fault, Raise, Keep, CacheInv, FilesOK, CallsOK, Installed
  <2>2. CallsOK'
    BY <1>5 DEF Copy, Goto, More, Fault, Raise, Keep, CacheInv, CallsOK
  <2>3. CountsOK'
    BY <1>5, StdlibCacheAssumption DEF Copy, Goto, More, Fault, Raise, Keep, CacheInv, CallsOK, CountsOK, Inside
  <2>4. NoPartialFile'
    BY <1>5 DEF Copy, Goto, More, Fault, Raise, Keep, CacheInv, FilesOK, CallsOK, NoPartialFile, Installed
  <2>5. ASSUME NEW q \in Processes PROVE Installed(q)'
    BY <1>5 DEF Copy, Goto, More, Fault, Raise, Keep, CacheInv, FilesOK, CallsOK, NoPartialFile, Installed
  <2>6. ASSUME NEW q \in Processes PROVE Inside(q)'
    BY <1>5 DEF Copy, Goto, More, Fault, Raise, Keep, CacheInv, FilesOK, CallsOK, Inside
  <2>7. ASSUME NEW q \in Processes PROVE Faulted(q)'
    BY <1>5 DEF Copy, Goto, More, Fault, Raise, Keep, CacheInv, FilesOK, CallsOK, NoPartialFile, Installed, Inside, Faulted
  <2> QED
    BY <2>1, <2>2, <2>3, <2>4, <2>5, <2>6, <2>7 DEF CacheInv
<1>6. ASSUME NEW p \in Processes, Close(p) PROVE CacheInv'
  <2>1. FilesOK'
    BY <1>6 DEF Close, Goto, Fault, Raise, CacheInv, FilesOK, CallsOK, Installed
  <2>2. CallsOK'
    BY <1>6 DEF Close, Goto, Fault, Raise, CacheInv, CallsOK
  <2>3. CountsOK'
    BY <1>6, StdlibCacheAssumption DEF Close, Goto, Fault, Raise, CacheInv, CallsOK, CountsOK, Inside
  <2>4. NoPartialFile'
    BY <1>6 DEF Close, Goto, Fault, Raise, CacheInv, FilesOK, CallsOK, NoPartialFile, Installed
  <2>5. ASSUME NEW q \in Processes PROVE Installed(q)'
    BY <1>6 DEF Close, Goto, Fault, Raise, CacheInv, FilesOK, CallsOK, NoPartialFile, Installed
  <2>6. ASSUME NEW q \in Processes PROVE Inside(q)'
    BY <1>6 DEF Close, Goto, Fault, Raise, CacheInv, FilesOK, CallsOK, Inside
  <2>7. ASSUME NEW q \in Processes PROVE Faulted(q)'
    BY <1>6 DEF Close, Goto, Fault, Raise, CacheInv, FilesOK, CallsOK, NoPartialFile, Installed, Inside, Faulted
  <2> QED
    BY <2>1, <2>2, <2>3, <2>4, <2>5, <2>6, <2>7 DEF CacheInv
<1>7. ASSUME NEW p \in Processes, Rename(p) PROVE CacheInv'
  <2>1. FilesOK'
    BY <1>7 DEF Rename, Goto, Fault, Keep, CacheInv, FilesOK, CallsOK, Installed
  <2>2. CallsOK'
    BY <1>7 DEF Rename, Goto, Fault, Keep, CacheInv, CallsOK
  <2>3. CountsOK'
    BY <1>7, StdlibCacheAssumption DEF Rename, Goto, Fault, Keep, CacheInv, CallsOK, CountsOK, Inside
  <2>4. NoPartialFile'
    BY <1>7 DEF Rename, Goto, Fault, Keep, CacheInv, FilesOK, CallsOK, NoPartialFile, Installed
  <2>5. ASSUME NEW q \in Processes PROVE Installed(q)'
    BY <1>7 DEF Rename, Goto, Fault, Keep, CacheInv, FilesOK, CallsOK, NoPartialFile, Installed
  <2>6. ASSUME NEW q \in Processes PROVE Inside(q)'
    BY <1>7 DEF Rename, Goto, Fault, Keep, CacheInv, FilesOK, CallsOK, Inside
  <2>7. ASSUME NEW q \in Processes PROVE Faulted(q)'
    BY <1>7 DEF Rename, Goto, Fault, Keep, CacheInv, FilesOK, CallsOK, NoPartialFile, Installed, Inside, Faulted
  <2> QED
    BY <2>1, <2>2, <2>3, <2>4, <2>5, <2>6, <2>7 DEF CacheInv
<1>8. ASSUME NEW p \in Processes, Check(p) PROVE CacheInv'
  <2>1. FilesOK'
    BY <1>8 DEF Check, Goto, Fault, Raise, CacheInv, FilesOK, CallsOK, Installed
  <2>2. CallsOK'
    BY <1>8 DEF Check, Goto, Fault, Raise, CacheInv, CallsOK
  <2>3. CountsOK'
    BY <1>8, StdlibCacheAssumption DEF Check, Goto, Fault, Raise, CacheInv, CallsOK, CountsOK, Inside
  <2>4. NoPartialFile'
    BY <1>8 DEF Check, Goto, Fault, Raise, CacheInv, FilesOK, CallsOK, NoPartialFile, Installed
  <2>5. ASSUME NEW q \in Processes PROVE Installed(q)'
    BY <1>8 DEF Check, Goto, Fault, Raise, CacheInv, FilesOK, CallsOK, NoPartialFile, Installed
  <2>6. ASSUME NEW q \in Processes PROVE Inside(q)'
    BY <1>8 DEF Check, Goto, Fault, Raise, CacheInv, FilesOK, CallsOK, Inside
  <2>7. ASSUME NEW q \in Processes PROVE Faulted(q)'
    BY <1>8 DEF Check, Goto, Fault, Raise, CacheInv, FilesOK, CallsOK, NoPartialFile, Installed, Inside, Faulted
  <2> QED
    BY <2>1, <2>2, <2>3, <2>4, <2>5, <2>6, <2>7 DEF CacheInv
<1>9. ASSUME NEW p \in Processes, Remove(p) PROVE CacheInv'
  <2>1. FilesOK'
    BY <1>9 DEF Remove, Goto, Keep, CacheInv, FilesOK, CallsOK, Installed
  <2>2. CallsOK'
    BY <1>9 DEF Remove, Goto, Keep, CacheInv, CallsOK
  <2>3. CountsOK'
    BY <1>9, StdlibCacheAssumption DEF Remove, Goto, Keep, CacheInv, CallsOK, CountsOK, Inside
  <2>4. NoPartialFile'
    BY <1>9 DEF Remove, Goto, Keep, CacheInv, FilesOK, CallsOK, NoPartialFile, Installed
  <2>5. ASSUME NEW q \in Processes PROVE Installed(q)'
    BY <1>9 DEF Remove, Goto, Keep, CacheInv, FilesOK, CallsOK, NoPartialFile, Installed
  <2>6. ASSUME NEW q \in Processes PROVE Inside(q)'
    BY <1>9 DEF Remove, Goto, Keep, CacheInv, FilesOK, CallsOK, Inside
  <2>7. ASSUME NEW q \in Processes PROVE Faulted(q)'
    BY <1>9 DEF Remove, Goto, Keep, CacheInv, FilesOK, CallsOK, NoPartialFile, Installed, Inside, Faulted
  <2> QED
    BY <2>1, <2>2, <2>3, <2>4, <2>5, <2>6, <2>7 DEF CacheInv
<1>10. ASSUME NEW p \in Processes, NextFile(p) PROVE CacheInv'
  <2>1. FilesOK'
    BY <1>10 DEF NextFile, Goto, Fault, Leave, Keep, CacheInv, FilesOK, CallsOK, Installed
  <2>2. CallsOK'
    BY <1>10 DEF NextFile, Goto, Fault, Leave, Keep, CacheInv, CallsOK
  <2>3. CountsOK'
    BY <1>10, StdlibCacheAssumption DEF NextFile, Goto, Fault, Leave, Keep, CacheInv, CallsOK, CountsOK, Inside
  <2>4. NoPartialFile'
    BY <1>10 DEF NextFile, Goto, Fault, Leave, Keep, CacheInv, FilesOK, CallsOK, NoPartialFile, Installed
  <2>5. ASSUME NEW q \in Processes PROVE Installed(q)'
    BY <1>10 DEF NextFile, Goto, Fault, Leave, Keep, CacheInv, FilesOK, CallsOK, NoPartialFile, Installed
  <2>6. ASSUME NEW q \in Processes PROVE Inside(q)'
    BY <1>10 DEF NextFile, Goto, Fault, Leave, Keep, CacheInv, FilesOK, CallsOK, Inside
  <2>7. ASSUME NEW q \in Processes PROVE Faulted(q)'
    BY <1>10 DEF NextFile, Goto, Fault, Leave, Keep, CacheInv, FilesOK, CallsOK, NoPartialFile, Installed, Inside, Faulted
  <2> QED
    BY <2>1, <2>2, <2>3, <2>4, <2>5, <2>6, <2>7 DEF CacheInv
<1>11. ASSUME NEW p \in Processes, Kill(p) PROVE CacheInv'
  <2>1. FilesOK'
    BY <1>11 DEF Kill, Goto, Leave, Keep, CacheInv, FilesOK, CallsOK, Installed
  <2>2. CallsOK'
    BY <1>11 DEF Kill, Goto, Leave, Keep, CacheInv, CallsOK
  <2>3. CountsOK'
    BY <1>11, StdlibCacheAssumption DEF Kill, Goto, Leave, Keep, CacheInv, CallsOK, CountsOK, Inside
  <2>4. NoPartialFile'
    BY <1>11 DEF Kill, Goto, Leave, Keep, CacheInv, FilesOK, CallsOK, NoPartialFile, Installed
  <2>5. ASSUME NEW q \in Processes PROVE Installed(q)'
    BY <1>11 DEF Kill, Goto, Leave, Keep, CacheInv, FilesOK, CallsOK, NoPartialFile, Installed
  <2>6. ASSUME NEW q \in Processes PROVE Inside(q)'
    BY <1>11 DEF Kill, Goto, Leave, Keep, CacheInv, FilesOK, CallsOK, Inside
  <2>7. ASSUME NEW q \in Processes PROVE Faulted(q)'
    BY <1>11 DEF Kill, Goto, Leave, Keep, CacheInv, FilesOK, CallsOK, NoPartialFile, Installed, Inside, Faulted
  <2> QED
    BY <2>1, <2>2, <2>3, <2>4, <2>5, <2>6, <2>7 DEF CacheInv
<1> QED
  BY <1>1, <1>2, <1>3, <1>4, <1>5, <1>6, <1>7, <1>8, <1>9, <1>10, <1>11 DEF CacheNext, Step

(* The invariant holds of every reachable state. *)
THEOREM CacheInvHolds == CacheSpec => []CacheInv
BY InitCacheInv, NextCacheInv, PTL DEF CacheSpec

-----------------------------------------------------------------------------

(* The variables keep their types. *)
THEOREM CacheTypeCorrect == CacheSpec => []TypeOK
<1>1. CacheInv => TypeOK
  BY StdlibCacheAssumption DEF CacheInv, FilesOK, CallsOK, CountsOK, TypeOK
<1> QED
  BY <1>1, CacheInvHolds, PTL

(* Losing the race to install a file is no error: Home fails only in a      *)
(* process one of whose own operations has failed.                          *)
THEOREM OnlyFaultsFail == CacheSpec => []FailsOnlyOnFault
<1>1. CacheInv => FailsOnlyOnFault
  BY DEF CacheInv, Faulted, FailsOnlyOnFault
<1> QED
  BY <1>1, CacheInvHolds, PTL

(* Every temporary file left behind is one that a process was killed with,  *)
(* or could not remove.                                                     *)
THEOREM OnlyKilledLeaveBehind == CacheSpec => []LeftBehindByKilled
<1>1. CacheInv => LeftBehindByKilled
  BY DEF CacheInv, CallsOK, CountsOK, Inside, LeftBehindByKilled
<1> QED
  BY <1>1, CacheInvHolds, PTL

-----------------------------------------------------------------------------

(* Every step of Home is one of AtomicInstall, or changes nothing there:    *)
(* nothing incomplete is ever under a name, nothing that was there goes,    *)
(* and Home succeeds only when every file is installed.                     *)
THEOREM CacheRefinement == CacheSpec => InstallsAtomically
<1>1. CacheInit => Abstract!Init
  BY DEF CacheInit, Abstract!Init
<1>2. CacheInv /\ [CacheNext]_cacheVars => [Abstract!Next]_(Abstract!vars)
  <2> SUFFICES ASSUME CacheInv, [CacheNext]_cacheVars PROVE [Abstract!Next]_(Abstract!vars)
    OBVIOUS
  <2> USE DEF Abstract!Next, Abstract!vars, Abstract!Become, disk, trouble
  <2>1. CASE UNCHANGED cacheVars
    BY <2>1 DEF cacheVars
  <2>2. ASSUME NEW p \in Processes, Home(p) PROVE Abstract!Enter(p)
    BY <2>2 DEF Home, CacheInv, Inside, Abstract!Enter
  <2>3. ASSUME NEW p \in Processes, Stat(p), file[p] > NFiles PROVE Abstract!Finish(p)
    <3>1. \A f \in Files : content[f] = "complete"
      <4>1. file[p] \in Nat /\ \A f \in Files : f < file[p]
        BY <2>3, StdlibCacheAssumption DEF CacheInv, FilesOK, Files
      <4> QED
        BY <4>1 DEF CacheInv, Installed
    <3>2. status[p] = "in" /\ status' = [status EXCEPT ![p] = "home"] /\ content' = content
      BY <2>3 DEF Stat, Leave, CacheInv, CallsOK, Inside
    <3> QED
      BY <3>1, <3>2 DEF Abstract!Finish
  <2>4. ASSUME NEW p \in Processes, Rename(p), content' # content
        PROVE  Abstract!Install(p, file[p]) /\ file[p] \in Files
    BY <2>4 DEF Rename, Goto, Keep, CacheInv, FilesOK, CallsOK, NoPartialFile, Installed, Inside, Abstract!Install
  <2>5. ASSUME NEW p \in Processes, Kill(p) PROVE Abstract!GiveUp(p)
    BY <2>5 DEF Kill, Leave, CacheInv, Inside, Abstract!GiveUp
  <2>6. ASSUME NEW p \in Processes, Create(p) \/ NextFile(p)
        PROVE  Abstract!GiveUp(p) \/ UNCHANGED <<content, status>>
    BY <2>6 DEF Create, NextFile, Leave, Fault, CacheInv, Inside, Abstract!GiveUp
  <2>7. ASSUME NEW p \in Processes,
               \/ Stat(p) /\ ~(file[p] > NFiles)
               \/ Copy(p) \/ Close(p) \/ Check(p) \/ Remove(p)
               \/ Rename(p) /\ content' = content
        PROVE  UNCHANGED <<content, status>>
    BY <2>7 DEF Stat, Fault, Copy, Close, Check, Remove, Rename
  <2> QED
    BY <2>1, <2>2, <2>3, <2>4, <2>5, <2>6, <2>7 DEF CacheNext, Step
<1> QED
  BY <1>1, <1>2, CacheInvHolds, PTL DEF CacheSpec, InstallsAtomically, Abstract!Spec

=============================================================================
