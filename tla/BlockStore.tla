----------------------------- MODULE BlockStore -----------------------------
(***************************************************************************)
(* What the Ring-ORAM client promises its callers: a map from block ids to *)
(* payloads.  A call that reports success took effect; a call that reports *)
(* anything else left the map alone.  Paths, stash, tree and evictions are *)
(* not visible.                                                            *)
(***************************************************************************)
CONSTANTS Blocks, Values, None

VARIABLES
  store,   \* [Blocks -> Values \cup {None}]
  reply    \* the answer to the most recent call

storeVars == <<store, reply>>

Answer(op, b, v, st) == [op |-> op, id |-> b, val |-> v, status |-> st]

NoReply == [op |-> "none", id |-> None, val |-> None, status |-> "ok"]

SInit ==
  /\ store = [b \in Blocks |-> None]
  /\ reply = NoReply

SAdmit(b, v) ==
  /\ store[b] = None
  /\ store' = [store EXCEPT ![b] = v]
  /\ reply' = Answer("admit", b, None, "ok")

SRead(b) ==
  /\ store[b] # None
  /\ reply' = Answer("read", b, store[b], "ok")
  /\ UNCHANGED store

SWrite(b, v) ==
  /\ store[b] # None
  /\ store' = [store EXCEPT ![b] = v]
  /\ reply' = Answer("write", b, None, "ok")

(* A refused call.  Only a write may break off for no reason the caller    *)
(* can see.                                                                *)
SFail(op, b, st) ==
  /\ st = "unknown" => store[b] = None
  /\ st = "panic" => op = "write"
  /\ reply' = Answer(op, b, None, st)
  /\ UNCHANGED store

SNext ==
  \E b \in Blocks :
    \/ \E v \in Values : SAdmit(b, v) \/ SWrite(b, v)
    \/ SRead(b)
    \/ \E op \in {"admit", "read", "write"}, st \in {"unknown", "size", "panic"} :
         SFail(op, b, st)

SSpec == SInit /\ [][SNext]_storeVars
=============================================================================
