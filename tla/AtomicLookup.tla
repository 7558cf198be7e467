----------------------------- MODULE AtomicLookup -----------------------------
(***************************************************************************)
(* What a thread that looks a model up may rely on while another thread    *)
(* fills the table or puts a new one in its place: an answer is what the   *)
(* table it asked binds the model to at the moment of the answer; a lookup *)
(* fails only if that table was being filled in the meantime.  Tables are  *)
(* write-once.  Only two of them matter: the one in use ("branch") and the *)
(* one a lookup still asks although it was replaced ("dropped").           *)
(***************************************************************************)
CONSTANTS Keys, Values, Absent, Error

VARIABLES
  bound,      \* [{"branch", "dropped"} -> [Keys -> Values \union {Absent}]]
  adding,     \* something is being added to the table in use
  asking,     \* a lookup is under way
  table, key, \* the table and the key of the lookup
  disturbed,  \* its table was being filled during the lookup
  answer      \* what the last lookup came to

vars == <<bound, adding, asking, table, key, disturbed, answer>>

Empty == [k \in Keys |-> Absent]

Init ==
  /\ bound = [t \in {"branch", "dropped"} |-> Empty]
  /\ adding = FALSE
  /\ asking = FALSE
  /\ table = "branch"
  /\ key \in Keys
  /\ disturbed = FALSE
  /\ answer = Absent

(* A lookup under way stays with the table it asked. *)
NewTable ==
  /\ ~adding
  /\ IF asking /\ table = "branch"
     THEN /\ bound' = [bound EXCEPT !["branch"] = Empty, !["dropped"] = bound["branch"]]
          /\ table' = "dropped"
     ELSE /\ bound' = [bound EXCEPT !["branch"] = Empty]
          /\ table' = table
  /\ UNCHANGED <<adding, asking, key, disturbed, answer>>

BeginAdd ==
  /\ ~adding
  /\ adding' = TRUE
  /\ disturbed' = (disturbed \/ (asking /\ table = "branch"))
  /\ UNCHANGED <<bound, asking, table, key, answer>>

(* A key that is bound keeps its value. *)
Bind(k, v) ==
  /\ adding
  /\ bound' = [bound EXCEPT !["branch"][k] = IF @ = Absent THEN v ELSE @]
  /\ adding' \in BOOLEAN
  /\ UNCHANGED <<asking, table, key, disturbed, answer>>

Ask(k) ==
  /\ ~asking
  /\ asking' = TRUE
  /\ key' = k
  /\ disturbed' = adding
  /\ UNCHANGED <<bound, adding, table, answer>>

EndAdd ==
  /\ adding
  /\ adding' = FALSE
  /\ UNCHANGED <<bound, asking, table, key, disturbed, answer>>

(* The lookup is over, and a table only it referred to is gone. *)
Return(result) ==
  /\ asking
  /\ asking' = FALSE
  /\ answer' = result
  /\ table' = "branch"
  /\ bound' = [bound EXCEPT !["dropped"] = Empty]
  /\ UNCHANGED <<adding, key, disturbed>>

Answer == Return(bound[table][key])

Fail == disturbed /\ Return(Error)

Next ==
  \/ NewTable
  \/ BeginAdd
  \/ EndAdd
  \/ \E k \in Keys : Ask(k) \/ \E v \in Values : Bind(k, v)
  \/ Answer
  \/ Fail

Spec == Init /\ [][Next]_vars
===============================================================================
