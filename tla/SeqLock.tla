------------------------------ MODULE SeqLock ------------------------------
(***************************************************************************)
(* include/lockfree/seqlock.h: one writer publishes a payload of several   *)
(* words, readers copy it optimistically and check the sequence number.    *)
(* The payload is not atomic: both copies go word by word, in any order,   *)
(* and a reader's copy races with the writer's.  The fences keep the       *)
(* writer's two stores of seq_ on either side of its copy and the reader's *)
(* two loads on either side of its own, so each of these is one step in    *)
(* program order.  A payload is told from another by the number of the     *)
(* write that stored it; write 0 is the initial payload_{}.                *)
(***************************************************************************)
EXTENDS Integers, FiniteSets

CONSTANTS Readers,
          Words,     \* the words of T
          MaxWrites  \* bound on the number of calls of write

ASSUME SeqLockAssumption == MaxWrites \in Nat

VARIABLES seq,     \* seq_
          payload, \* payload_, per word the number of the write it stems from
          todo,    \* the words the running write has not copied yet
          pc,      \* per reader: next step
          retry,   \* per reader: TRUE in read(), FALSE in try_read()
          s0,      \* per reader: the first load of seq_
          rest,    \* per reader: words not copied yet
          out,     \* per reader: its copy
          ret,     \* per reader: what its last call returned
          began    \* history: seq_ when the call began

writerVars == <<seq, payload, todo>>
readerVars == <<pc, retry, s0, rest, out, ret, began>>
seqLockVars == <<writerVars, readerVars>>

Even(n) == n % 2 = 0
Stamp(n) == n \div 2    \* the last write completed when seq_ = n

SeqLockInit ==
    /\ seq = 0 /\ payload = [w \in Words |-> 0] /\ todo = {}
    /\ pc = [r \in Readers |-> "idle"]
    /\ retry = [r \in Readers |-> FALSE]
    /\ s0 = [r \in Readers |-> 0]
    /\ rest = [r \in Readers |-> {}]
    /\ out = [r \in Readers |-> [w \in Words |-> 0]]
    /\ ret = [r \in Readers |-> "none"]
    /\ began = [r \in Readers |-> 0]

-----------------------------------------------------------------------------
\* write(value): mark the write in flight ...
WriteBegin ==
    /\ Even(seq) /\ seq < 2 * MaxWrites
    /\ seq' = seq + 1
    /\ todo' = Words
    /\ UNCHANGED <<payload, readerVars>>

\* ... payload_ = value ...
WriteWord(w) ==
    /\ w \in todo
    /\ payload' = [payload EXCEPT ![w] = Stamp(seq) + 1]
    /\ todo' = todo \ {w}
    /\ UNCHANGED <<seq, readerVars>>

\* ... and mark it stable.
WriteEnd ==
    /\ ~Even(seq) /\ todo = {}
    /\ seq' = seq + 1
    /\ UNCHANGED <<payload, todo, readerVars>>

-----------------------------------------------------------------------------
Goto(r, label) == pc' = [pc EXCEPT ![r] = label]
Return(r, what) == Goto(r, "idle") /\ ret' = [ret EXCEPT ![r] = what]

\* A caller enters read() or try_read().
Call(r, mode) ==
    /\ pc[r] = "idle"
    /\ retry' = [retry EXCEPT ![r] = mode]
    /\ began' = [began EXCEPT ![r] = seq]
    /\ Goto(r, "load0")
    /\ UNCHANGED <<writerVars, s0, rest, out, ret>>

\* s0 = seq_.load(); only try_read looks at it before copying.
Load0Inverted(r) ==                               \* mutant: the parity test inverted
    /\ pc[r] = "load0"
    /\ s0' = [s0 EXCEPT ![r] = seq]
    /\ IF ~retry[r] /\ Even(seq)
         THEN Return(r, "missed") /\ UNCHANGED rest
         ELSE /\ Goto(r, "copy")
              /\ rest' = [rest EXCEPT ![r] = Words]
              /\ UNCHANGED ret
    /\ UNCHANGED <<writerVars, retry, out, began>>

Load0(r) ==
    /\ pc[r] = "load0"
    /\ s0' = [s0 EXCEPT ![r] = seq]
    /\ IF ~retry[r] /\ ~Even(seq)
         THEN Return(r, "missed") /\ UNCHANGED rest
         ELSE /\ Goto(r, "copy")
              /\ rest' = [rest EXCEPT ![r] = Words]
              /\ UNCHANGED ret
    /\ UNCHANGED <<writerVars, retry, out, began>>

\* out = payload_
CopyWord(r, w) ==
    /\ pc[r] = "copy" /\ w \in rest[r]
    /\ out' = [out EXCEPT ![r][w] = payload[w]]
    /\ rest' = [rest EXCEPT ![r] = @ \ {w}]
    /\ UNCHANGED <<writerVars, pc, retry, s0, ret, began>>

\* s1 = seq_.load(), and the test of both loads.
StableAnyParity(r) == seq = s0[r]               \* mutant: s0 may be odd
Stable(r) == seq = s0[r] /\ Even(s0[r])

Load1(r) ==
    /\ pc[r] = "copy" /\ rest[r] = {}
    /\ \/ Stable(r) /\ Return(r, "ok")
       \/ ~Stable(r) /\ retry[r] /\ Goto(r, "load0") /\ UNCHANGED ret
       \/ ~Stable(r) /\ ~retry[r] /\ Return(r, "missed")
    /\ UNCHANGED <<writerVars, retry, s0, rest, out, began>>

-----------------------------------------------------------------------------
WriteStep == WriteEnd \/ \E w \in Words : WriteWord(w)
ReadStep(r) == Load0(r) \/ Load1(r) \/ \E w \in Words : CopyWord(r, w)

SeqLockNext ==
    \/ WriteBegin \/ WriteStep
    \/ \E r \in Readers : ReadStep(r) \/ \E mode \in BOOLEAN : Call(r, mode)

SeqLockSpec == SeqLockInit /\ [][SeqLockNext]_seqLockVars

-----------------------------------------------------------------------------
SeqLockTypeOK ==
    /\ seq \in Nat
    /\ payload \in [Words -> Nat]
    /\ todo \in SUBSET Words
    /\ pc \in [Readers -> {"idle", "load0", "copy"}]
    /\ retry \in [Readers -> BOOLEAN]
    /\ s0 \in [Readers -> Nat]
    /\ rest \in [Readers -> SUBSET Words]
    /\ out \in [Readers -> [Words -> Nat]]
    /\ ret \in [Readers -> {"none", "ok", "missed"}]
    /\ began \in [Readers -> Nat]

\* No torn and no stale value: when read() returns, or try_read() returns true,
\* every word comes from one and the same write, and that write is the last one
\* completed before the call began or a later one.
ReturnsOneWrite ==
    \A r \in Readers : pc[r] = "idle" /\ ret[r] = "ok" =>
        \E n \in Stamp(began[r]) .. Stamp(seq) : \A w \in Words : out[r][w] = n

\* try_read() reports failure only if a write overlapped the call: a reader of a
\* quiet book always succeeds.
MissedOnlyByOverlap ==
    [][\A r \in Readers : pc[r] # "idle" /\ pc'[r] = "idle" /\ ret'[r] = "missed"
            => ~retry[r] /\ (~Even(began[r]) \/ seq # began[r])]_seqLockVars

-----------------------------------------------------------------------------
\* The inductive invariant behind ReturnsOneWrite.  PayloadInv: the words are
\* those of the completed write, but for the ones a running write has replaced.
\* ReaderInv: as long as seq_ has not moved from an even s0, what the reader
\* copied is that write.
PayloadInv ==
    /\ Even(seq) => todo = {}
    /\ \A w \in Words :
         payload[w] = IF Even(seq) \/ w \in todo THEN Stamp(seq) ELSE Stamp(seq) + 1

ReaderInv == \A r \in Readers :
    /\ began[r] <= seq /\ s0[r] <= seq
    /\ pc[r] = "copy" =>
         /\ began[r] <= s0[r]
         /\ seq = s0[r] /\ Even(seq) =>
               \A w \in Words \ rest[r] : out[r][w] = Stamp(seq)

SeqInv == SeqLockTypeOK /\ PayloadInv /\ ReaderInv /\ ReturnsOneWrite
=============================================================================
