-------------------------- MODULE RegistryPromise ---------------------------
(* What RFIT promises of its functions: a key belongs to one registration   *)
(* from the moment that one is inserted, until the process restarts; a      *)
(* registration is answered OK exactly if it is the one that holds its key; *)
(* and an invocation is served by the holder of its key. The one thing left *)
(* open is an invocation that looks its function up while another one is    *)
(* being inserted: it may find nothing.                                     *)
CONSTANTS Requests, Keys, KeyOf, None

VARIABLES
  holder,      \* [Keys -> Requests or None]
  inserting,   \* whether the table of functions is being changed
  answer,      \* [Requests -> {"none", "pending", "ok", "refused"}]
  served       \* the last invocation: its key and the registration that served it

vars == <<holder, inserting, answer, served>>

Init ==
  /\ holder = [k \in Keys |-> None]
  /\ inserting = FALSE
  /\ answer = [r \in Requests |-> "none"]
  /\ served = None

Submit(r) ==
  /\ answer[r] \in {"none", "refused"}
  /\ answer' = [answer EXCEPT ![r] = "pending"]
  /\ UNCHANGED <<holder, inserting, served>>

BeginInsert(r) ==
  /\ answer[r] = "pending"
  /\ holder[KeyOf[r]] = None
  /\ ~inserting
  /\ inserting' = TRUE
  /\ UNCHANGED <<holder, answer, served>>

Insert(r) ==
  /\ answer[r] = "pending"
  /\ holder[KeyOf[r]] = None
  /\ inserting
  /\ inserting' = FALSE
  /\ holder' = [holder EXCEPT ![KeyOf[r]] = r]
  /\ UNCHANGED <<answer, served>>

Answer(r) ==
  /\ answer[r] = "pending"
  /\ answer' = [answer EXCEPT ![r] = IF holder[KeyOf[r]] = r THEN "ok" ELSE "refused"]
  /\ UNCHANGED <<holder, inserting, served>>

Serve(k) ==
  /\ \/ served' = <<k, holder[k]>>
     \/ inserting /\ served' = <<k, None>>
  /\ UNCHANGED <<holder, inserting, answer>>

Restart ==
  /\ holder' = [k \in Keys |-> None]
  /\ inserting' = FALSE
  /\ answer' = [r \in Requests |-> "none"]
  /\ served' = None

Next ==
  \/ \E r \in Requests : Submit(r) \/ BeginInsert(r) \/ Insert(r) \/ Answer(r)
  \/ \E k \in Keys : Serve(k)
  \/ Restart

Spec == Init /\ [][Next]_vars
=============================================================================
