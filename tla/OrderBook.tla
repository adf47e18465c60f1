----------------------------- MODULE OrderBook -----------------------------
(***************************************************************************)
(* include/orderbook/order_book.h: one symbol's limit order book, owned by *)
(* one thread.  Two arrays of at most MaxLevels price levels, best first,  *)
(* and the table of resting orders, which refer to their level by price.   *)
(* A step is one call of on_add, on_cancel, on_modify or on_execute.       *)
(***************************************************************************)
EXTENDS Integers, Sequences, SequencesExt, FiniteSetsExt

CONSTANTS OrderIds, Prices, Quantities, \* what a feed may say
          MaxLevels, MaxOrders,         \* template parameters
          WordModulus,   \* values of Qty and order_count (2^64 and 2^32)
          SeqModulus,    \* values of sequence_ (2^64)
          MaxCount,      \* bound: no add while a level counts so many orders
          MaxIllFormed,  \* bound: calls that break the feed's protocol
          Chained        \* pairs <<id, o>>: erasing id may move o's entry into its place

ASSUME OrderBookAssumption ==
    /\ MaxLevels \in Nat \ {0} /\ MaxOrders \in Nat \ {0}
    /\ WordModulus \in Nat \ {0} /\ SeqModulus \in Nat \ {0, 1}
    /\ MaxCount \in 1 .. WordModulus - 1 /\ MaxIllFormed \in Nat
    /\ Prices \subseteq Int /\ Quantities \subseteq 0 .. WordModulus - 1
    /\ Chained \subseteq OrderIds \X OrderIds

VARIABLES book,     \* bids_ and asks_, by side: levels [price, qty, count], best first
          orders,   \* orders_: id -> [side, price, qty]
          sequence, \* sequence_
          broken,   \* TRUE once a store went past the end of a level array, or an
                    \* erased entry was read and held another order
          illFormed \* history: calls so far that were none of FeedCall

bookVars == <<book, orders, sequence, broken, illFormed>>

Sides == {"Bid", "Ask"}
Wrap(n) == n % WordModulus

BookInit ==
    /\ book = [side \in Sides |-> <<>>]
    /\ orders = [id \in {} |-> 0]
    /\ sequence = 0
    /\ broken = FALSE /\ illFormed = 0

Resting == DOMAIN orders
Put(id, order) == [o \in Resting \cup {id} |-> IF o = id THEN order ELSE orders[o]]
Erase(id) == [o \in Resting \ {id} |-> orders[o]]
Count == sequence' = (sequence + 1) % SeqModulus

-----------------------------------------------------------------------------
\* find_level: the index of the first level with this price, 0 for nullptr.
FindLevel(levels, price) == SelectInSeq(levels, LAMBDA l : l.price = price)

Better(side, a, b) == IF side = "Bid" THEN a > b ELSE a < b

\* find_or_insert_level: where the scan stops, and the array it leaves.
ScanPastTheWorse(levels, side, price) ==      \* mutant: the comparison turned round
    LET stop == SelectInSeq(levels, LAMBDA l : l.price = price \/ Better(side, l.price, price))
    IN  IF stop = 0 THEN Len(levels) + 1 ELSE stop

Scan(levels, side, price) ==
    LET stop == SelectInSeq(levels, LAMBDA l : l.price = price \/ Better(side, price, l.price))
    IN  IF stop = 0 THEN Len(levels) + 1 ELSE stop

WithLevel(levels, side, price) ==
    LET i == Scan(levels, side, price)
    IN  IF (i <= Len(levels) /\ levels[i].price = price) \/ Len(levels) >= MaxLevels
          THEN levels
          ELSE InsertAt(levels, i, [price |-> price, qty |-> 0, count |-> 0])

EraseLevel(levels, price) ==
    LET i == FindLevel(levels, price) IN IF i = 0 THEN levels ELSE RemoveAt(levels, i)

\* remove_qty
RemoveQtyKeepsLevel(levels, order) ==         \* mutant: an emptied level stays
    LET i == FindLevel(levels, order.price)
    IN  IF i = 0 THEN levels
        ELSE [levels EXCEPT ![i].qty = Wrap(@ - order.qty), ![i].count = Wrap(@ - 1)]

RemoveQty(levels, order) ==
    LET i == FindLevel(levels, order.price)
        rest == [levels EXCEPT ![i].qty = Wrap(@ - order.qty), ![i].count = Wrap(@ - 1)]
    IN  IF i = 0 THEN levels
        ELSE IF rest[i].count = 0 THEN EraseLevel(rest, order.price) ELSE rest

-----------------------------------------------------------------------------
OnAdd(id, side, price, qty) ==
    /\ Cardinality(Resting) < MaxOrders        \* else return false
    /\ LET levels == WithLevel(book[side], side, price)
           i == Scan(book[side], side, price)
       IN  IF i \in DOMAIN levels
             THEN /\ book' = [book EXCEPT ![side] =
                       [levels EXCEPT ![i].qty = Wrap(@ + qty), ![i].count = Wrap(@ + 1)]]
                  /\ UNCHANGED broken
             ELSE broken' = TRUE /\ UNCHANGED book    \* levels[MaxLevels].qty += qty
    /\ orders' = Put(id, [side |-> side, price |-> price, qty |-> qty])
    /\ Count

OnCancel(id) ==
    /\ id \in Resting
    /\ book' = [book EXCEPT ![orders[id].side] = RemoveQty(@, orders[id])]
    /\ orders' = Erase(id)
    /\ Count
    /\ UNCHANGED broken

OnModify(id, newQty) ==
    /\ id \in Resting
    /\ LET loc == orders[id]
           i == FindLevel(book[loc.side], loc.price)
       IN  /\ i # 0
           /\ book' = [book EXCEPT ![loc.side][i].qty = Wrap(@ - loc.qty + newQty)]
           /\ orders' = Put(id, [loc EXCEPT !.qty = newQty])
    /\ Count
    /\ UNCHANGED broken

\* What loc refers to once orders_.erase(it) has run (order_book.h:126-127): the
\* bucket may hold the entry that the erase shifted back into it.
AfterErase(id) == {orders[o] : o \in {id} \cup {o \in Resting \ {id} : <<id, o>> \in Chained}}

OnExecute(id, execQty) ==
    /\ id \in Resting
    /\ LET loc == orders[id]
           i == FindLevel(book[loc.side], loc.price)
           left == Wrap(loc.qty - execQty)
           rest == [book EXCEPT ![loc.side][i].qty = Wrap(@ - execQty)]
           gone == [rest EXCEPT ![loc.side][i].count = Wrap(@ - 1)]
       IN  /\ i # 0
           /\ \/ /\ left # 0
                 /\ book' = rest /\ orders' = Put(id, [loc EXCEPT !.qty = left])
                 /\ UNCHANGED broken
              \/ /\ left = 0
                 /\ orders' = Erase(id)
                 /\ IF gone[loc.side][i].count # 0
                      THEN book' = gone /\ UNCHANGED broken
                      ELSE \E ref \in AfterErase(id) :
                             /\ book' = [gone EXCEPT ![ref.side] = EraseLevel(@, ref.price)]
                             /\ broken' = (ref # loc)
    /\ Count

-----------------------------------------------------------------------------
\* Any calls at all: an id used again while its order rests leaves a level's
\* count too high for ever, so MaxCount bounds how often that happens.
CountsBounded ==
    \A side \in Sides : \A i \in DOMAIN book[side] : book[side][i].count < MaxCount

AnyCall ==
    \E id \in OrderIds, qty \in Quantities :
        \/ CountsBounded /\ \E side \in Sides, price \in Prices : OnAdd(id, side, price, qty)
        \/ OnCancel(id) \/ OnModify(id, qty) \/ OnExecute(id, qty)

\* The calls of a feed that follows the exchange's protocol (external to src/):
\* an id is not reused while its order rests, quantities are positive, no
\* execution exceeds what is left, and a side has at most MaxLevels prices.
FeedCall ==
    \E id \in OrderIds, qty \in Quantities \ {0} :
        \/ /\ CountsBounded /\ id \notin Resting
           /\ \E side \in Sides, price \in Prices :
                 /\ Len(book[side]) < MaxLevels \/ FindLevel(book[side], price) # 0
                 /\ OnAdd(id, side, price, qty)
        \/ OnCancel(id) \/ OnModify(id, qty)
        \/ id \in Resting /\ qty <= orders[id].qty /\ OnExecute(id, qty)

FeedStep == ~broken /\ FeedCall /\ UNCHANGED illFormed
BookNext ==
    \/ FeedStep
    \/ ~broken /\ AnyCall /\ illFormed < MaxIllFormed /\ illFormed' = illFormed + 1

BookSpec == BookInit /\ [][BookNext]_bookVars
-----------------------------------------------------------------------------
\* Level 0 is the best price and every price has one level: what best_bid() and
\* best_ask() return is the top of the book, after any calls whatever.
BestFirst ==
    \A side \in Sides : \A i, j \in DOMAIN book[side] :
        i < j => Better(side, book[side][i].price, book[side][j].price)

At(side, price) == {id \in Resting : orders[id].side = side /\ orders[id].price = price}

\* The levels are the resting orders summed by price: no level is missing,
\* left over or off by an order, however long the feed has been running, as long
\* as it keeps to the protocol and no erase in the order table has moved another
\* order into the entry that on_execute goes on reading.
LevelsAreOrders == illFormed = 0 /\ ~broken =>
    \A side \in Sides, price \in Prices :
        LET i == FindLevel(book[side], price)
            ids == At(side, price)
        IN  IF ids = {} THEN i = 0
            ELSE /\ i # 0
                 /\ book[side][i].count = Cardinality(ids)
                 /\ book[side][i].qty = Wrap(MapThenSumSet(LAMBDA id : orders[id].qty, ids))

-----------------------------------------------------------------------------
\* The inductive invariant behind BestFirst.
Level == [price : Int, qty : Int, count : Int]
Order == [side : Sides, price : Int, qty : Int]
Sorted(side, levels) ==
    \A i, j \in DOMAIN levels : i < j => Better(side, levels[i].price, levels[j].price)
SortedBook(b) == b \in [Sides -> Seq(Level)] /\ \A side \in Sides : Sorted(side, b[side])

BookInv == SortedBook(book) /\ \A id \in Resting : orders[id] \in Order

\* The inductive invariant behind LevelsAreOrders: the levels of a side are the
\* sums of its orders and nothing else, and no sum of a level counts too far.
LevelOf(side, price) ==
    LET ids == At(side, price)
    IN  [price |-> price, qty |-> Wrap(MapThenSumSet(LAMBDA id : orders[id].qty, ids)),
         count |-> Cardinality(ids)]
ExactLevels ==
    \A side \in Sides : Range(book[side]) =
        {LevelOf(side, orders[id].price) : id \in {o \in Resting : orders[o].side = side}}
FeedOrders ==
    \A id \in Resting :
        /\ orders[id].qty \in 1 .. WordModulus - 1
        /\ Cardinality(At(orders[id].side, orders[id].price)) <= MaxCount
LevelsInv ==
    /\ illFormed \in Nat /\ IsFiniteSet(Resting)
    /\ illFormed = 0 /\ ~broken => FeedOrders /\ ExactLevels
=============================================================================
