-------------------------- MODULE SharedBookTable ---------------------------
(***************************************************************************)
(* SharedBookTable (orderbook/shared_book_table.h): an array of seqlocks   *)
(* in a named shared-memory segment, as operators on the segments of the   *)
(* host and on the object a process holds.                                 *)
(*                                                                         *)
(* The host is [linked, used, segs]: the segment the name leads to, 0 for  *)
(* none; how many there have been; and each one's size and slots.  A       *)
(* segment without a name lives as long as somebody has it mapped.         *)
(***************************************************************************)
EXTENDS Integers

CONSTANTS Slots,      \* slot numbers
          MaxSegments \* bound: segments made

Words == {1, 2}
Zero == <<0, 0>>
EmptySlot == [seq |-> 0, words |-> [k \in Words |-> Zero]]
Sized(on) == [sized |-> on, slots |-> [s \in Slots |-> EmptySlot]]
NewHost == [linked |-> 0, used |-> 0, segs |-> [i \in 1 .. MaxSegments |-> Sized(FALSE)]]

\* The object: the segment it maps, and whether close() is to unlink the name.
NewTable == [at |-> 0, named |-> FALSE, owns |-> TRUE]

\* create(): shm_open with O_TRUNC empties the segment of that name under those
\* who have it mapped, or makes one; ftruncate fills it with zeroes, and the
\* constructor writes the same ones again.
ShmOpenCreate(host) ==
    IF host.linked # 0 THEN [host EXCEPT !.segs[host.linked] = Sized(FALSE)]
    ELSE [host EXCEPT !.linked = host.used + 1, !.used = host.used + 1]
Ftruncate(host, i) == [host EXCEPT !.segs[i] = Sized(TRUE)]
Construct(host, i) == [host EXCEPT !.segs[i].slots = Sized(TRUE).slots]

\* open(): owns_unlink_ is cleared only by one that succeeds.
OpenFails(table) == [table EXCEPT !.named = TRUE]
OpenMaps(table, i) == [at |-> i, named |-> TRUE, owns |-> FALSE]

\* close() from the destructor.
CloseUnlinks(host, table) == IF table.named THEN [host EXCEPT !.linked = 0] ELSE host \* mutant
Close(host, table) == IF table.owns /\ table.named THEN [host EXCEPT !.linked = 0] ELSE host

\* write() and read() of one slot, access by access.
BumpSeq(host, i, s) == [host EXCEPT !.segs[i].slots[s].seq = @ + 1]
StoreWord(host, i, s, k, value) == [host EXCEPT !.segs[i].slots[s].words[k] = value]
SlotSeq(host, i, s) == host.segs[i].slots[s].seq
WordOf(host, i, s, k) == host.segs[i].slots[s].words[k]
=============================================================================
