--------------------------- MODULE ComponentStore ---------------------------
(***************************************************************************)
(* What ComponentStorage promises its callers, without locks or entries:   *)
(* every call takes effect at one instant between its start and its end,   *)
(* on a table from object and component type to data.                      *)
(***************************************************************************)
CONSTANTS Threads, Objects, Types, Data, Fitting, None

VARIABLES value,    \* the table; None where there is no component
          call,     \* the call a thread is in, None outside
          result    \* what the thread's last call returned

vars == <<value, call, result>>

Flag(b) == IF b THEN "true" ELSE "false"

Requests ==
  [op : {"read", "remove"}, obj : Objects, type : Types]
    \cup [op : {"write", "writeChecked"}, obj : Objects, type : Types, data : Data]
    \cup [op : {"removeAll"}, obj : Objects]

\* The value a call r returns when it takes effect.
Answer(r) ==
  CASE r.op = "read"         -> value[r.obj][r.type]
    [] r.op = "write"        -> "void"
    [] r.op = "writeChecked" -> Flag(r.data \in Fitting)
    [] r.op = "remove"       -> Flag(value[r.obj][r.type] # None)
    [] r.op = "removeAll"    -> "void"

\* The table after it.
After(r) ==
  CASE r.op = "read"         -> value
    [] r.op = "write"        -> [value EXCEPT ![r.obj][r.type] = r.data]
    [] r.op = "writeChecked" -> IF r.data \in Fitting
                                THEN [value EXCEPT ![r.obj][r.type] = r.data] ELSE value
    [] r.op = "remove"       -> [value EXCEPT ![r.obj][r.type] = None]
    [] r.op = "removeAll"    -> [value EXCEPT ![r.obj] = [y \in Types |-> None]]

Init ==
  /\ value  = [o \in Objects |-> [y \in Types |-> None]]
  /\ call   = [t \in Threads |-> None]
  /\ result = [t \in Threads |-> None]

Invoke(t, r) ==
  /\ call[t] = None
  /\ call'   = [call EXCEPT ![t] = r]
  /\ result' = [result EXCEPT ![t] = None]
  /\ UNCHANGED value

Perform(t) ==
  /\ call[t] # None
  /\ result' = [result EXCEPT ![t] = Answer(call[t])]
  /\ value'  = After(call[t])
  /\ call'   = [call EXCEPT ![t] = None]

Next == \E t \in Threads : Perform(t) \/ \E r \in Requests : Invoke(t, r)

Spec == Init /\ [][Next]_vars
=============================================================================
