------------------------------ MODULE Conversion ------------------------------
(***************************************************************************)
(* Conversions between Go and Python values (convert.go, int64 and bigInt  *)
(* of object.go) and from Python exceptions to Go errors and back          *)
(* (pyError of errors.go, callHost of hostfunc.go), inside the methods     *)
(* that use them.  One goroutine, in the interpreter it has to itself:     *)
(* what makes these functions hard is that nearly every C function they    *)
(* call may run Python code, which may call a host function, which may     *)
(* call methods of the same interpreter, and that each may fail half way.  *)
(*                                                                         *)
(* The values converted are chosen as the conversion meets them: leaves    *)
(* that convert or not, and containers down to MaxDepth.  The methods are  *)
(* the shapes that occur: two conversions and a call (SetItem, CallKw; the *)
(* others that convert do so once), a call (Eval), one conversion back     *)
(* (Value, Int), and a display that never fails (Str).                     *)
(*                                                                         *)
(* C code may also end in an exit panic (os._exit), after which the        *)
(* interpreter goes on.  (A crash unwinds the same functions, but nobody   *)
(* gets in after it.)                                                      *)
(*                                                                         *)
(* Left out: references that one step takes and gives back, and in.scratch, *)
(* through which C returns lengths and the overflow flag of int64.  What   *)
(* an __index__ has written there, by way of a host function, makes int64  *)
(* refuse a value that fits: here it refuses whichever it likes.           *)
(***************************************************************************)
EXTENDS Integers, Sequences

CONSTANTS
  MaxDepth,  \* no container, host function or method below this many frames
  MaxItems   \* how many elements a container has

ASSUME ConversionAssumption == MaxDepth \in Nat /\ MaxItems \in Nat

Methods == {"SetItem", "CallKw", "Eval", "Value", "Int", "Str"}

VARIABLES
  stack,    \* the Go functions in progress, innermost first
  ret,      \* what the function called last returned
  exc,      \* the exception raised in the thread state
  cached,   \* in.formatExc is set
  seen      \* history: what has happened

vars == <<stack, ret, exc, cached, seen>>

(* A frame: its function, where it is, whether that is inside C code, the   *)
(* references it has neither given back nor deferred giving back, and how   *)
(* many elements it has yet to convert.                                     *)
Frame(op, l) == [op |-> op, at |-> l, inC |-> FALSE, held |-> 0, left |-> 0]

Init ==
  /\ stack = << >>
  /\ ret = "none" /\ exc = "none"
  /\ cached = FALSE
  /\ seen = {}

-----------------------------------------------------------------------------

Top == Head(stack)
At(op, l) == stack # << >> /\ ~Top.inC /\ Top.op = op /\ Top.at = l
Deep == Len(stack) >= MaxDepth
Below(f, l) == [f EXCEPT !.at = l]
Hold(f, n) == [f EXCEPT !.held = @ + n]

(* What the innermost function does next: it goes on as f, calls another    *)
(* one, enters C code that may run Python code, or returns.  A function     *)
(* that returns must have given back what it holds.                         *)
Become(f) == stack' = <<f>> \o Tail(stack)
Call(f, op) == stack' = <<Frame(op, "start"), f>> \o Tail(stack)
Run(f, l) == Become([f EXCEPT !.at = l, !.inC = TRUE])
Unbalanced(f) == IF f.held # 0 THEN {"unbalanced"} ELSE {}
Pop(r) == stack' = Tail(stack) /\ ret' = r
Return(f, r) == Pop(r) /\ seen' = seen \cup Unbalanced(f)

(* A C function failed: return ..., in.pyError(). *)
PyError(f) == Call(Below(f, "failed"), "pyError")
Failed ==
  /\ stack # << >> /\ ~Top.inC /\ Top.at = "failed"
  /\ Return(Top, "err")
  /\ UNCHANGED <<exc, cached>>

-----------------------------------------------------------------------------
(* C code, and the Python code it runs.                                     *)

(* The exception of a host function is caught before the code goes on; one  *)
(* that was there before the code began may stay.                           *)
Caught == exc' \in {"none"} \cup IF "left" \in seen THEN {exc} ELSE {}

COk ==
  /\ stack # << >> /\ Top.inC
  /\ Become([Top EXCEPT !.inC = FALSE])
  /\ ret' = "ok"
  /\ Caught
  /\ UNCHANGED <<cached, seen>>

CNull ==
  /\ stack # << >> /\ Top.inC
  /\ Become([Top EXCEPT !.inC = FALSE])
  /\ ret' = "null"
  /\ exc' \in {"error", "exit"}
  /\ UNCHANGED <<cached, seen>>

CallHost ==
  /\ stack # << >> /\ Top.inC /\ ~Deep
  /\ stack' = <<Frame("callHost", "start")>> \o stack
  /\ Caught
  /\ UNCHANGED <<ret, cached, seen>>

(* An exit panic unwinds the Go functions up to the method, whose           *)
(* recoverPanic makes it an error of an interpreter that goes on, or up to  *)
(* callHost, which raises it in Python.  Deferred calls run, but what a     *)
(* function holds and has not deferred giving back is lost.                 *)
Catches(f) == f.op \in Methods \cup {"callHost"}
CExit ==
  /\ stack # << >> /\ Top.inC
  /\ \E k \in 1..Len(stack) :
       /\ Catches(stack[k]) /\ \A j \in 1..(k - 1) : ~Catches(stack[j])
       /\ stack' = SubSeq(stack, k + 1, Len(stack))
       /\ IF stack[k].op = "callHost"
          THEN ret' = "null" /\ exc' = "exit"
          ELSE ret' = "err" /\ Caught
       /\ seen' = seen \cup IF \E j \in 1..k : stack[j].held # 0 THEN {"lost"} ELSE {}
  /\ UNCHANGED cached

-----------------------------------------------------------------------------
(* Mistakes these actions could make; the runs show that their properties   *)
(* would notice.                                                            *)

MapValueKeepsKey ==  \* the key is not given back when its value fails
  /\ At("toPy", "value")
  /\ IF ret = "err"
     THEN Return(Hold(Top, -1), "err")
     ELSE Run(Hold(Top, 1), "set") /\ UNCHANGED <<ret, seen>>
  /\ UNCHANGED <<exc, cached>>

ErrorLinesUncleared ==  \* formatException does not clear what its call raises
  /\ At("pyError", "lines")
  /\ IF ret = "null"
     THEN Return(Top, "err")
     ELSE Run(Top, "len") /\ UNCHANGED <<ret, seen>>
  /\ UNCHANGED <<exc, cached>>

-----------------------------------------------------------------------------
(* toPy: a Go value becomes a new reference.                                *)

(* A leaf, or a container that C cannot make: an error value and a chan     *)
(* have no Python equivalent.                                               *)
ToPyLeaf ==
  /\ At("toPy", "start")
  /\ \/ Return(Top, "ref") /\ UNCHANGED exc
     \/ Return(Top, "err") /\ UNCHANGED exc
     \/ PyError(Top) /\ exc' = "error" /\ UNCHANGED <<ret, seen>>
  /\ UNCHANGED cached

(* The new list or dict. *)
ToPyContainer ==
  /\ At("toPy", "start") /\ ~Deep
  /\ \E l \in {"items", "pairs"}, n \in 0..MaxItems :
       Become([Hold(Below(Top, l), 1) EXCEPT !.left = n])
  /\ UNCHANGED <<ret, exc, cached, seen>>

ToPyNext ==
  /\ At("toPy", "items") \/ At("toPy", "pairs")
  /\ IF Top.left = 0
     THEN Return(Hold(Top, -1), "ref")
     ELSE /\ Call(Below(Top, IF Top.at = "items" THEN "item" ELSE "key"), "toPy")
          /\ UNCHANGED <<ret, seen>>
  /\ UNCHANGED <<exc, cached>>

(* PyList_SetItem steals the reference to the element. *)
ToPyItem ==
  /\ At("toPy", "item")
  /\ IF ret = "err"
     THEN Return(Hold(Top, -1), "err")
     ELSE Become([Below(Top, "items") EXCEPT !.left = @ - 1]) /\ UNCHANGED <<ret, seen>>
  /\ UNCHANGED <<exc, cached>>

ToPyKey ==
  /\ At("toPy", "key")
  /\ IF ret = "err"
     THEN Return(Hold(Top, -1), "err")
     ELSE Call(Hold(Below(Top, "value"), 1), "toPy") /\ UNCHANGED <<ret, seen>>
  /\ UNCHANGED <<exc, cached>>

(* PyDict_SetItem may run the key's __hash__ and __eq__. *)
ToPyValue ==
  /\ At("toPy", "value")
  /\ IF ret = "err"
     THEN Return(Hold(Top, -2), "err")
     ELSE Run(Hold(Top, 1), "set") /\ UNCHANGED <<ret, seen>>
  /\ UNCHANGED <<exc, cached>>

ToPySet ==
  /\ At("toPy", "set")
  /\ IF ret = "null"
     THEN PyError(Hold(Top, -3))
     ELSE Become([Hold(Below(Top, "pairs"), -2) EXCEPT !.left = @ - 1])
  /\ UNCHANGED <<ret, exc, cached, seen>>

ToPy ==
  \/ ToPyLeaf \/ ToPyContainer \/ ToPyNext \/ ToPyItem
  \/ ToPyKey \/ ToPyValue \/ ToPySet

-----------------------------------------------------------------------------
(* fromPy: a borrowed reference becomes a Go value.                         *)

(* None, bool, float, str, bytes, and what is handed out as an Object.      *)
FromPyLeaf ==
  /\ At("fromPy", "start")
  /\ \/ Return(Top, "none") /\ UNCHANGED exc
     \/ PyError(Top) /\ exc' = "error" /\ UNCHANGED <<ret, seen>>
  /\ UNCHANGED cached

(* An int: one that does not fit becomes a big.Int. *)
FromPyInt ==
  /\ At("fromPy", "start")
  /\ Call(Below(Top, "int"), "int64")
  /\ UNCHANGED <<ret, exc, cached, seen>>

FromPyBig ==
  /\ At("fromPy", "int")
  /\ IF ret = "overflow"
     THEN Run(Top, "big") /\ UNCHANGED <<ret, seen>>
     ELSE Return(Top, ret)
  /\ UNCHANGED <<exc, cached>>

(* The digits are read with rawStr; too many of them are no str.  A        *)
(* bytearray's bytes are read from a copy.                                  *)
FromPyRead ==
  /\ At("fromPy", "big") \/ At("fromPy", "bytes")
  /\ IF ret = "null"
     THEN PyError(Top) /\ UNCHANGED <<ret, seen>>
     ELSE Return(Top, "none") \/ (Top.at = "big" /\ Return(Top, "err"))
  /\ UNCHANGED <<exc, cached>>

(* PySequence_List and PyMapping_Keys run the methods of a subclass, and so *)
(* does bytes().                                                            *)
FromPyContainer ==
  /\ At("fromPy", "start") /\ ~Deep
  /\ \E l \in {"list", "keys", "bytes"} : Run(Top, l)
  /\ UNCHANGED <<ret, exc, cached, seen>>

FromPyBegin ==
  /\ At("fromPy", "list") \/ At("fromPy", "keys")
  /\ IF ret = "null" THEN PyError(Top)
     ELSE \E n \in 0..MaxItems :
            Become([Below(Top, IF Top.at = "list" THEN "items" ELSE "pairs") EXCEPT !.left = n])
  /\ UNCHANGED <<ret, exc, cached, seen>>

FromPyNext ==
  /\ At("fromPy", "items") \/ At("fromPy", "pairs")
  /\ IF Top.left = 0
     THEN Return(Top, "none")
     ELSE /\ Call(Below(Top, IF Top.at = "items" THEN "item" ELSE "key"), "fromPy")
          /\ UNCHANGED <<ret, seen>>
  /\ UNCHANGED <<exc, cached>>

FromPyItem ==
  /\ At("fromPy", "item")
  /\ IF ret = "err"
     THEN Return(Top, "err")
     ELSE Become([Below(Top, "items") EXCEPT !.left = @ - 1]) /\ UNCHANGED <<ret, seen>>
  /\ UNCHANGED <<exc, cached>>

(* A key no Go map can have is replaced by its str, whatever that raises.   *)
FromPyKey ==
  /\ At("fromPy", "key")
  /\ IF ret = "err" THEN Return(Top, "err")
     ELSE Run(Top, "keystr") \/ Run(Top, "get")
  /\ ret # "err" => UNCHANGED <<ret, seen>>
  /\ UNCHANGED <<exc, cached>>

FromPyKeyStr ==
  /\ At("fromPy", "keystr")
  /\ exc' = "none"
  /\ Run(Top, "get")
  /\ UNCHANGED <<ret, cached, seen>>

FromPyGet ==
  /\ At("fromPy", "get")
  /\ IF ret = "null" THEN PyError(Top) ELSE Call(Hold(Below(Top, "value"), 1), "fromPy")
  /\ UNCHANGED <<ret, exc, cached, seen>>

FromPyValue ==
  /\ At("fromPy", "value")
  /\ IF ret = "err"
     THEN Return(Hold(Top, -1), "err")
     ELSE /\ Become([Hold(Below(Top, "pairs"), -1) EXCEPT !.left = @ - 1])
          /\ UNCHANGED <<ret, seen>>
  /\ UNCHANGED <<exc, cached>>

FromPy ==
  \/ FromPyLeaf \/ FromPyInt \/ FromPyBig \/ FromPyRead
  \/ FromPyContainer \/ FromPyBegin \/ FromPyNext \/ FromPyItem
  \/ FromPyKey \/ FromPyKeyStr \/ FromPyGet \/ FromPyValue

-----------------------------------------------------------------------------
(* int64: PyLong_AsLongLongAndOverflow calls the __index__ of what is no    *)
(* int.                                                                     *)

IntExact ==
  /\ At("int64", "start")
  /\ Return(Top, "none") \/ Return(Top, "overflow")
  /\ UNCHANGED <<exc, cached>>

IntStart ==
  /\ At("int64", "start")
  /\ stack[2].op = "Int"  \* fromPy calls int64 for an int only
  /\ Run(Top, "index")
  /\ UNCHANGED <<ret, exc, cached, seen>>

IntIndex ==
  /\ At("int64", "index")
  /\ IF ret = "null"
     THEN PyError(Top) /\ UNCHANGED <<ret, seen>>
     ELSE Return(Top, "none") \/ Return(Top, "overflow")
  /\ UNCHANGED <<exc, cached>>

Int64 == IntExact \/ IntStart \/ IntIndex

-----------------------------------------------------------------------------
(* pyError: the exception becomes a Go error.                               *)

ErrorStart ==
  /\ At("pyError", "start")
  /\ IF exc = "none"
     THEN Pop("err") /\ seen' = seen \cup {"missing"}
     ELSE Run(Top, IF exc = "exit" THEN "code" ELSE "type") /\ UNCHANGED <<ret, seen>>
  /\ exc' = "none"
  /\ UNCHANGED cached

(* exitError: without a code, None, an int, or an int that no C long holds, *)
(* which PyLong_AsLong reports by raising; anything else is printed.        *)
ExitCode ==
  /\ At("pyError", "code")
  /\ \/ exc' = "none" /\ Return(Top, "err")
     \/ /\ ret = "ok"
        /\ exc' = "error" /\ Pop("err") /\ seen' = seen \cup {"left"}
     \/ /\ ret = "ok"
        /\ Run(Top, "print") /\ UNCHANGED <<exc, ret, seen>>
  /\ UNCHANGED cached

(* rawStr clears what str() raises. *)
ExitPrint ==
  /\ At("pyError", "print")
  /\ exc' = "none"
  /\ Return(Top, "err")
  /\ UNCHANGED cached

(* typeName swallows what the attributes of the type raise, rawStr what     *)
(* str() does.                                                              *)
ErrorType ==
  /\ At("pyError", "type")
  /\ exc' = "none"
  /\ Run(Top, "str")
  /\ UNCHANGED <<ret, cached, seen>>

ErrorStr ==
  /\ At("pyError", "str")
  /\ exc' = "none"
  /\ Run(Top, IF cached THEN "lines" ELSE "import")
  /\ UNCHANGED <<ret, cached, seen>>

(* formatException: the traceback module, its format_exception, and what    *)
(* that returns; "" if any of them misbehaves.                              *)
ErrorImport ==
  /\ At("pyError", "import")
  /\ IF ret = "null"
     THEN exc' = "none" /\ Return(Top, "err")
     ELSE Run(Hold(Top, 1), "attr") /\ UNCHANGED <<exc, ret, seen>>
  /\ UNCHANGED cached

ErrorAttr ==
  /\ At("pyError", "attr")
  /\ cached' = (ret = "ok")
  /\ LET f == Hold(Top, -1)
         again == IF cached THEN {"again"} ELSE {} IN
     IF ret = "null"
     THEN exc' = "none" /\ Pop("err") /\ seen' = seen \cup Unbalanced(f) \cup again
     ELSE Run(f, "lines") /\ seen' = seen \cup again /\ UNCHANGED <<exc, ret>>

ErrorLines ==
  /\ At("pyError", "lines")
  /\ IF ret = "null"
     THEN exc' = "none" /\ Return(Top, "err")
     ELSE Run(Top, "len") /\ UNCHANGED <<ret, exc, seen>>
  /\ UNCHANGED cached

(* PyObject_Length of what need not be a list: when it raises there are no  *)
(* lines to read, and nobody clears the exception.                          *)
ErrorLen ==
  /\ At("pyError", "len")
  /\ \/ ret = "null" /\ Pop("err") /\ seen' = seen \cup {"left"}
     \/ ret = "ok" /\ Return(Top, "err")
     \/ ret = "ok" /\ Run(Top, "line") /\ UNCHANGED <<ret, seen>>
  /\ UNCHANGED <<exc, cached>>

(* A line is read with rawStr; after the last one, or one that is missing,  *)
(* pyError returns.                                                         *)
ErrorLine ==
  /\ At("pyError", "line")
  /\ exc' = "none"
  /\ Return(Top, "err") \/ (Run(Top, "line") /\ UNCHANGED <<ret, seen>>)
  /\ UNCHANGED cached

Error ==
  \/ ErrorStart \/ ExitCode \/ ExitPrint \/ ErrorType \/ ErrorStr
  \/ ErrorImport \/ ErrorAttr \/ ErrorLines \/ ErrorLen \/ ErrorLine

-----------------------------------------------------------------------------
(* callHost, and the methods that application code and host functions call. *)

(* The function runs, unless a keyword is no valid str. *)
HostStart ==
  /\ At("callHost", "start")
  /\ \/ Become(Below(Top, "fn")) /\ UNCHANGED <<ret, exc, seen>>
     \/ exc' = "error" /\ Return(Top, "null")
  /\ UNCHANGED cached

(* It returns a value, or an error or a panic that is raised in Python. *)
HostReturn ==
  /\ At("callHost", "fn")
  /\ \/ Call(Below(Top, "result"), "toPy") /\ UNCHANGED <<ret, exc, seen>>
     \/ exc' \in {"error", "exit"} /\ Return(Top, "null")
  /\ UNCHANGED cached

HostResult ==
  /\ At("callHost", "result")
  /\ IF ret = "err"
     THEN exc' \in {"error", "exit"} /\ Return(Top, "null")
     ELSE Return(Top, "ref") /\ UNCHANGED exc
  /\ UNCHANGED cached

Host == HostStart \/ HostReturn \/ HostResult

Begin(m) ==
  /\ stack = << >> \/ (At("callHost", "fn") /\ ~Deep)
  /\ stack' = <<Frame(m, "start")>> \o stack
  /\ UNCHANGED <<ret, exc, cached, seen>>

(* SetItem converts the key and the value, CallKw the arguments and the     *)
(* keywords, if any, each reference with its defer; then C code runs.  The tuple of *)
(* CallKw steals its element, and has it given back with itself.            *)
MethodStart ==
  /\ \/ (At("SetItem", "start") \/ At("CallKw", "start")) /\ Call(Below(Top, "first"), "toPy")
     \/ At("Eval", "start") /\ Run(Top, "call")
  /\ UNCHANGED <<ret, exc, cached, seen>>

MethodFirst ==
  /\ At("SetItem", "first") \/ At("CallKw", "first")
  /\ IF ret = "err"
     THEN Return(Top, "err")
     ELSE /\ Call(Below(Top, "second"), "toPy") \/ (Top.op = "CallKw" /\ Run(Top, "call"))
          /\ UNCHANGED <<ret, seen>>
  /\ UNCHANGED <<exc, cached>>

MethodSecond ==
  /\ At("SetItem", "second") \/ At("CallKw", "second")
  /\ IF ret = "err"
     THEN Return(Top, "err")
     ELSE Run(Top, "call") /\ UNCHANGED <<ret, seen>>
  /\ UNCHANGED <<exc, cached>>

MethodCalled ==
  /\ At("SetItem", "call") \/ At("CallKw", "call") \/ At("Eval", "call")
  /\ IF ret = "null" THEN PyError(Top) /\ UNCHANGED <<ret, seen>> ELSE Return(Top, "none")
  /\ UNCHANGED <<exc, cached>>

(* Value and Int are one conversion each. *)
MethodConverts ==
  /\ \/ At("Value", "start") /\ Call(Below(Top, "done"), "fromPy")
     \/ At("Int", "start") /\ Call(Below(Top, "done"), "int64")
  /\ UNCHANGED <<ret, exc, cached, seen>>

MethodDone ==
  /\ At("Value", "done") \/ At("Int", "done")
  /\ Return(Top, ret)
  /\ UNCHANGED <<exc, cached>>

(* display: the str() of the object, or text with the name of its type if   *)
(* there is none, or none that is valid UTF-8.                              *)
DisplayStart ==
  /\ At("Str", "start")
  /\ Run(Top, "str")
  /\ UNCHANGED <<ret, exc, cached, seen>>

DisplayStr ==
  /\ At("Str", "str")
  /\ \/ /\ ret = "null" /\ exc' = "none"
        /\ Run(Top, "name") /\ UNCHANGED <<ret, seen>>
     \/ /\ ret = "ok" /\ exc' = "error"
        /\ Call(Below(Top, "unprintable"), "pyError") /\ UNCHANGED <<ret, seen>>
     \/ ret = "ok" /\ Return(Top, "none") /\ UNCHANGED exc
  /\ UNCHANGED cached

DisplayName ==
  /\ At("Str", "unprintable") \/ At("Str", "name")
  /\ IF Top.at = "name"
     THEN exc' = "none" /\ Return(Top, "none")
     ELSE Run(Top, "name") /\ UNCHANGED <<ret, exc, seen>>
  /\ UNCHANGED cached

Method ==
  \/ MethodStart \/ MethodFirst \/ MethodSecond \/ MethodCalled
  \/ MethodConverts \/ MethodDone
  \/ DisplayStart \/ DisplayStr \/ DisplayName

Next ==
  \/ \E m \in Methods : Begin(m)
  \/ Method \/ Host \/ ToPy \/ FromPy \/ Int64 \/ Error
  \/ Failed \/ COk \/ CNull \/ CExit \/ CallHost

Spec == Init /\ [][Next]_vars

-----------------------------------------------------------------------------

(* Every reference a conversion makes is given back or handed on, once,     *)
(* wherever it returns: with a result, or with the error of whatever failed *)
(* in it.  (An exit panic does not return: "lost" in seen says that it has  *)
(* skipped one.  in.formatExc, which belongs to the interpreter, is another *)
(* matter too: "again" says that it was lost, by a pyError that imports     *)
(* traceback while another one does.)                                       *)
NothingLeaked == "unbalanced" \notin seen

(* An exception is there when pyError asks for it, and none is left when a  *)
(* method returns: "The exception is cleared."  Only two calls leave one:   *)
(* PyLong_AsLong in exitError, for a SystemExit whose code no C long holds, *)
(* and PyObject_Length in formatException, for what has no length.          *)
ExceptionsConsumed ==
  \/ "left" \in seen
  \/ /\ "missing" \notin seen
     /\ stack = << >> \/ At("callHost", "fn") => exc = "none"

=============================================================================
