------------------------------ MODULE CountMap ------------------------------
(***************************************************************************)
(* What the count store promises its callers for one key: it holds the     *)
(* key's count or nothing, a caller is told the count only while the store *)
(* holds it, and as long as nothing disturbs the cache directory the store *)
(* never forgets.                                                          *)
(***************************************************************************)
EXTENDS Naturals

CONSTANTS
  Workers,          \* the callers
  Nothing, Whole,   \* no count, the count of the key
  NoAnswer, Miss    \* not asked yet, told that there is no count

VARIABLES
  store,            \* what the store holds
  answer,           \* answer[w]: what w has been told
  faults            \* disturbances of the cache directory and of its users

mapVars == <<store, answer, faults>>

MapInit ==
  /\ store = Nothing
  /\ answer = [w \in Workers |-> NoAnswer]
  /\ faults = 0

\* A lookup that reports what the store holds.
Get(w) ==
  /\ answer' = [answer EXCEPT ![w] = IF store = Whole THEN Whole ELSE Miss]
  /\ UNCHANGED <<store, faults>>

\* A lookup that is disturbed and reports nothing.
GetFails(w) ==
  /\ answer' = [answer EXCEPT ![w] = Miss]
  /\ faults' = faults + 1
  /\ UNCHANGED store

\* The count is there from now on.
Put ==
  /\ store' = Whole
  /\ UNCHANGED <<answer, faults>>

\* Only a cache that is or has been disturbed may forget.
Forget ==
  /\ store' = Nothing
  /\ faults' >= faults /\ faults' > 0
  /\ UNCHANGED answer

\* A disturbance that the store survives; the callers that it stops ask anew.
Disturb ==
  /\ faults' = faults + 1
  /\ \E stopped \in SUBSET Workers :
       answer' = [w \in Workers |-> IF w \in stopped THEN NoAnswer ELSE answer[w]]
  /\ UNCHANGED store

MapNext == (\E w \in Workers : Get(w) \/ GetFails(w)) \/ Put \/ Forget \/ Disturb

MapSpec == MapInit /\ [][MapNext]_mapVars
=============================================================================
