---------------------------- MODULE BlockDevice ----------------------------
(***************************************************************************)
(* What a block driver promises its callers.  A call reads a sector into   *)
(* the caller's buffer or writes the buffer to it.  It is refused without  *)
(* any effect, or performed at one moment between call and return; the     *)
(* caller is given the outcome of its own request, ok.  For some calls the *)
(* driver does not tell the device where all of the buffer is: of these,   *)
(* part, only the buffer or the sector that they change is certain.        *)
(***************************************************************************)
CONSTANTS Callers, Sectors, Values

VARIABLES
  disk,         \* sector -> value
  buf,          \* caller -> value in its buffer
  call          \* caller -> its call: [st, kind, sector, part], and [st, ok] once done

vars == <<disk, buf, call>>

Idle == [st |-> "idle"]

Init ==
  /\ disk \in [Sectors -> Values]
  /\ buf \in [Callers -> Values]
  /\ call = [c \in Callers |-> Idle]

Call(c, kind, s, v, part) ==
  /\ call[c].st = "idle"
  /\ call' = [call EXCEPT ![c] = [st |-> "asked", kind |-> kind, sector |-> s, part |-> part]]
  /\ buf' = [buf EXCEPT ![c] = v]
  /\ UNCHANGED disk

\* The same, refused at once.
CallRefused(c, v) ==
  /\ call[c].st = "idle"
  /\ call' = [call EXCEPT ![c] = Idle]
  /\ buf' = [buf EXCEPT ![c] = v]
  /\ UNCHANGED disk

\* The caller is told FALSE, and nothing has happened.
Refuse(c) ==
  /\ call[c].st = "asked"
  /\ call' = [call EXCEPT ![c] = Idle]
  /\ UNCHANGED <<disk, buf>>

\* The request takes effect.
Perform(c) ==
  /\ call[c].st = "asked" /\ ~call[c].part
  /\ call' = [call EXCEPT ![c] = [st |-> "done", ok |-> TRUE]]
  /\ \/ /\ call[c].kind = "read"
        /\ buf' = [buf EXCEPT ![c] = disk[call[c].sector]]
        /\ UNCHANGED disk
     \/ /\ call[c].kind = "write"
        /\ disk' = [disk EXCEPT ![call[c].sector] = buf[c]]
        /\ UNCHANGED buf

\* A request for which the device did not have all of the buffer.
PerformPart(c, v) ==
  /\ call[c].st = "asked" /\ call[c].part
  /\ call' = [call EXCEPT ![c] = [st |-> "done", ok |-> TRUE]]
  /\ \/ /\ call[c].kind = "read"
        /\ buf' = [buf EXCEPT ![c] = v]
        /\ UNCHANGED disk
     \/ /\ call[c].kind = "write"
        /\ disk' = [disk EXCEPT ![call[c].sector] = v]
        /\ UNCHANGED buf

\* The device reports an error.
Fail(c) ==
  /\ call[c].st = "asked"
  /\ call' = [call EXCEPT ![c] = [st |-> "done", ok |-> FALSE]]
  /\ UNCHANGED <<disk, buf>>

Return(c) ==
  /\ call[c].st = "done"
  /\ call' = [call EXCEPT ![c] = Idle]
  /\ UNCHANGED <<disk, buf>>

Next ==
  \E c \in Callers :
    \/ \E kind \in {"read", "write"}, s \in Sectors, v \in Values, part \in BOOLEAN :
         Call(c, kind, s, v, part)
    \/ \E v \in Values : CallRefused(c, v) \/ PerformPart(c, v)
    \/ Refuse(c) \/ Perform(c) \/ Fail(c) \/ Return(c)

Spec == Init /\ [][Next]_vars

=============================================================================
