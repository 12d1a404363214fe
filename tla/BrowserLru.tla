---------------------------- MODULE BrowserLru -----------------------------
(***************************************************************************)
(* The browser's LRU cache over two IndexedDB databases                    *)
(* (src/src/storage/browser.ts): writes fill the active one; when it is    *)
(* full the two swap roles and the new active one is cleared.  A call runs *)
(* from one await to the next; IndexedDB serves the requests on a database *)
(* in the order they were made: each takes effect as it is made, and those *)
(* before it are answered first.                                           *)
(***************************************************************************)
EXTENDS Integers, FiniteSets, SequencesExt

CONSTANTS Key,       \* of one named cache; a value is not told apart
          Caller,    \* calls that may be under way at once
          maxItems

VARIABLES db,          \* database -> the keys it holds
          active,      \* the database that is written
          activeSize,  \* the counter kept beside it
          call,        \* what each caller awaits
          requests     \* the callers with a request unanswered, oldest first

vars == <<db, active, activeSize, call, requests>>

Database == 1..2
inactive == 3 - active
Idle == [pc |-> "idle"]

Init ==
  /\ db = [d \in Database |-> {}] /\ active = 1 /\ activeSize = 0
  /\ call = [c \in Caller |-> Idle] /\ requests = <<>>

\* c's request is answered: it is the oldest on its database
Answered(c, pc) ==
  /\ call[c].pc = pc
  /\ \A i, j \in DOMAIN requests :
       i < j /\ requests[j] = c => call[requests[i]].on # call[c].on

Request(c, next) ==
  /\ call' = [call EXCEPT ![c] = next]
  /\ requests' = Append(Remove(requests, c), c)

Return(c) == call' = [call EXCEPT ![c] = Idle] /\ requests' = Remove(requests, c)

\* the read of `existing`, in the database that is active now
Lookup(c, k) ==
  Request(c, [pc |-> "put", on |-> active, key |-> k, existing |-> k \in db[active]])

setItem(c, k) ==
  /\ call[c].pc = "idle" /\ Lookup(c, k)
  /\ UNCHANGED <<db, active, activeSize>>

\* the write goes to the database that is active by now
Put(c) ==
  /\ Answered(c, "put")
  /\ db' = [db EXCEPT ![active] = @ \cup {call[c].key}]
  /\ Request(c, [call[c] EXCEPT !.pc = "grow", !.on = active])
  /\ UNCHANGED <<active, activeSize>>

\* a key that was there does not count; at the threshold the count is checked
grow(c) ==
  /\ Answered(c, "grow")
  /\ activeSize' = IF call[c].existing THEN activeSize ELSE activeSize + 1
  /\ IF ~call[c].existing /\ activeSize' >= maxItems
     THEN Request(c, [pc |-> "length", on |-> active, length |-> Cardinality(db[active])])
     ELSE Return(c)
  /\ UNCHANGED <<db, active>>

\* the length is back: the databases swap, or the counter is put right
swap(c) ==
  /\ Answered(c, "length")
  /\ IF call[c].length >= maxItems
     THEN active' = inactive /\ activeSize' = 0 /\ db' = [db EXCEPT ![inactive] = {}]
     ELSE activeSize' = call[c].length /\ UNCHANGED <<db, active>>
  /\ Return(c)

\* a hit in the active database changes nothing
getItem(c, k) ==
  /\ call[c].pc = "idle" /\ k \notin db[active]
  /\ Request(c, [pc |-> "miss", on |-> active, key |-> k])
  /\ UNCHANGED <<db, active, activeSize>>

Older(c) ==
  /\ Answered(c, "miss")
  /\ Request(c, [pc |-> "older", on |-> inactive, key |-> call[c].key,
                  found |-> call[c].key \in db[inactive]])
  /\ UNCHANGED <<db, active, activeSize>>

\* a hit in the older half re-enters the active one
Promote(c) ==
  /\ Answered(c, "older")
  /\ IF call[c].found THEN Lookup(c, call[c].key) ELSE Return(c)
  /\ UNCHANGED <<db, active, activeSize>>

\* neither touches the counter
removeItem(c, k) ==
  /\ call[c].pc = "idle"
  /\ db' = [d \in Database |-> db[d] \ {k}]
  /\ UNCHANGED <<active, activeSize, call, requests>>

clear(c) ==
  /\ call[c].pc = "idle"
  /\ db' = [d \in Database |-> {}]
  /\ UNCHANGED <<active, activeSize, call, requests>>

\* the tab is reloaded: a full database is taken for the older half
init ==
  LET size(d) == Cardinality(db[d]) IN
  /\ active' = IF (size(1) >= size(2) /\ size(1) # maxItems) \/ size(2) = maxItems THEN 1 ELSE 2
  /\ activeSize' = size(active')
  /\ call' = [c \in Caller |-> Idle] /\ requests' = <<>>
  /\ UNCHANGED db

Next ==
  \/ init
  \/ \E c \in Caller :
       \/ Put(c) \/ grow(c) \/ swap(c) \/ Older(c) \/ Promote(c) \/ clear(c)
       \/ \E k \in Key : setItem(c, k) \/ getItem(c, k) \/ removeItem(c, k)

Spec == Init /\ [][Next]_vars

-----------------------------------------------------------------------------
\* At a swap "at most the oldest half of entries drops at once" (browser.ts:12):
\* the database cleared held no more that the other lacks than stays in that one.
AtMostHalfDrops ==
  [][\A c \in Caller :
       swap(c) /\ active' # active =>
         Cardinality(db[active'] \ db[active]) <= Cardinality(db'[active])]_vars
=============================================================================
