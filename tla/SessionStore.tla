----------------------------- MODULE SessionStore -----------------------------
(***************************************************************************)
(* What a SessionRepository promises its callers                           *)
(* (internal/repository/session_repository.go), with the crash behaviour   *)
(* of the implementation the program wires in, the JSON file.              *)
(*                                                                         *)
(*   content   what FindByID and FindAll return                            *)
(*   durable   what a fresh process would load from the file               *)
(*   readable  FALSE when a fresh process could not parse the file         *)
(*   proc      the process that owns the repository                        *)
(*                                                                         *)
(* The promise: content changes one session at a time, durable becomes the *)
(* WHOLE content of some moment or is damaged by an interrupted write, and *)
(* a restart serves exactly what is durable.                               *)
(***************************************************************************)
CONSTANTS Ids,      \* session identifiers
          Values,   \* session records, as far as callers tell them apart
          Absent    \* the "not found" answer

VARIABLES content, durable, readable, proc

vars == <<content, durable, readable, proc>>

Contents == [Ids -> Values \cup {Absent}]
NoSessions == [id \in Ids |-> Absent]

TypeOK ==
  /\ content \in Contents
  /\ durable \in Contents
  /\ readable \in BOOLEAN
  /\ proc \in {"up", "down", "failed"}

Init ==
  /\ content = NoSessions
  /\ durable = NoSessions
  /\ readable = TRUE
  /\ proc = "up"

(***************************************************************************)
(* Save and DeleteByID change one session and make everything durable.     *)
(***************************************************************************)
Write(id, v) ==
  /\ proc = "up"
  /\ content' = [content EXCEPT ![id] = v]
  /\ durable' = content'
  /\ readable' = TRUE
  /\ UNCHANGED proc

(***************************************************************************)
(* UpdateByID and UpdateByIDTransient change a present session in memory.  *)
(***************************************************************************)
Update(id, v) ==
  /\ proc = "up"
  /\ content[id] # Absent
  /\ content' = [content EXCEPT ![id] = v]
  /\ UNCHANGED <<durable, readable, proc>>

(* Flush, or the background loop, makes the content durable. *)
Sync ==
  /\ proc = "up"
  /\ durable' = content
  /\ readable' = TRUE
  /\ UNCHANGED <<content, proc>>

(* A write has begun and has not finished: the file is empty or torn. *)
Damage ==
  /\ proc = "up"
  /\ durable' = NoSessions
  /\ readable' \in BOOLEAN
  /\ UNCHANGED <<content, proc>>

Stop ==
  /\ proc = "up"
  /\ proc' = "down"
  /\ content' = NoSessions
  /\ UNCHANGED <<durable, readable>>

Start ==
  /\ proc # "up"
  /\ readable
  /\ proc' = "up"
  /\ content' = durable
  /\ UNCHANGED <<durable, readable>>

StartFails ==
  /\ proc # "up"
  /\ proc' = "failed"
  /\ UNCHANGED <<content, durable, readable>>

Next ==
  \/ \E id \in Ids, v \in Values \cup {Absent} : Write(id, v)
  \/ \E id \in Ids, v \in Values : Update(id, v)
  \/ Sync
  \/ Damage
  \/ Stop
  \/ Start
  \/ StartFails

Spec == Init /\ [][Next]_vars
=============================================================================
