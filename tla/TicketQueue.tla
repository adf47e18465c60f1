---------------------------- MODULE TicketQueue ----------------------------
(***************************************************************************)
(* What a queue for several producers promises.  A push first takes a      *)
(* ticket, which fixes its place in the order, and fills it in later; a    *)
(* pop delivers the oldest ticket, and only when it is filled.  Items      *)
(* therefore come out in the order of the tickets, each once; a filled     *)
(* ticket waits behind an unfilled one, and for ever behind one whose      *)
(* producer gave up.                                                       *)
(***************************************************************************)
EXTENDS Naturals, Sequences

CONSTANTS Capacity, \* tickets held at most
          Producers,
          Item,
          Nobody,   \* "by" of a ticket that is filled
          Lost,     \* "by" of a ticket whose producer gave up
          NoItem

VARIABLES tickets,  \* oldest first: [item, by], by = the producer still filling it in
          out       \* last item delivered

ticketVars == <<tickets, out>>

TicketInit == tickets = <<>> /\ out = NoItem

Filling(p) == \E i \in DOMAIN tickets : tickets[i].by = p

Claim(p, x) ==
    /\ Len(tickets) < Capacity
    /\ ~Filling(p)
    /\ tickets' = Append(tickets, [item |-> x, by |-> p])
    /\ UNCHANGED out

Fill(p) ==
    \E i \in DOMAIN tickets :
        /\ tickets[i].by = p
        /\ tickets' = [tickets EXCEPT ![i].by = Nobody]
        /\ UNCHANGED out

Abandon(p) ==
    \E i \in DOMAIN tickets :
        /\ tickets[i].by = p
        /\ tickets' = [tickets EXCEPT ![i] = [item |-> NoItem, by |-> Lost]]
        /\ UNCHANGED out

Deliver ==
    /\ tickets # <<>>
    /\ Head(tickets).by = Nobody
    /\ out' = Head(tickets).item
    /\ tickets' = Tail(tickets)

TicketNext ==
    \/ Deliver
    \/ \E p \in Producers : Fill(p) \/ Abandon(p) \/ \E x \in Item : Claim(p, x)

TicketSpec == TicketInit /\ [][TicketNext]_ticketVars
=============================================================================
