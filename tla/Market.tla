------------------------------- MODULE Market -------------------------------
(***************************************************************************)
(* The market (game.cpp, iomarket.cpp): players offer goods for gold or    *)
(* gold for goods, others accept the offers in whole or in part, the owner *)
(* cancels them, and a job of the server returns the expired ones.  The    *)
(* handlers run on the dispatcher and read and write the table of offers   *)
(* at once; the job's SELECT runs on a thread of the pool, and its rows    *)
(* are worked through by a later task of the dispatcher.                   *)
(*                                                                         *)
(* One kind of goods, of tier 0, that is not the store coin.  A player's   *)
(* gold is what he carries and what is in the bank together, the locker is *)
(* depot and inbox together.  A handler that refuses before it changes     *)
(* anything (no room in the inbox, exhausted, own offer) takes no step.    *)
(* Whether a player is online makes no difference to what he holds.        *)
(***************************************************************************)
EXTENDS Sequences, FiniteSetsExt, Functions

CONSTANTS Player,
          Id,                \* ids of offers
          MaxAmount,         \* the largest amount anyone offers, for the checker
          Prices,            \* prices per piece
          Fee,               \* what creating an offer costs
          MaxOffers,         \* MAX_MARKET_OFFERS_AT_A_TIME_PER_PLAYER
          Purse, Stash, Locker,  \* what each player has to begin with
          MaxBatches,        \* bound: unprocessed results of the job
          PartialInFlight    \* are offers of an unprocessed result accepted in part?

ASSUME MarketAssumption ==
    /\ IsFiniteSet(Player) /\ IsFiniteSet(Id)
    /\ Prices \subseteq Nat \ {0}
    /\ {MaxAmount, Fee, MaxOffers, MaxBatches} \subseteq Nat \ {0}
    /\ {Purse, Stash, Locker} \subseteq [Player -> Nat]
    /\ PartialInFlight \in BOOLEAN

VARIABLES
    gold,     \* getMoney() and getBankBalance() of each player
    stash,    \* stashItems
    locker,   \* depot, and the inbox the market delivers to
    offers,   \* the table market_offers: [ids -> [owner, side, amount, price, old]]
    batches   \* results of checkExpiredOffers on their way to the dispatcher, each
              \* the rows of some offers as they were

vars == <<gold, stash, locker, offers, batches>>

Listed == DOMAIN offers
InFlight == UNION {DOMAIN batches[k] : k \in DOMAIN batches}

Init ==
    /\ gold = Purse /\ stash = Stash /\ locker = Locker
    /\ offers = <<>>
    /\ batches = <<>>

-----------------------------------------------------------------------------
(* What was set aside for offer o: its goods, or the gold for them.        *)
Worth(o) == IF o.side = "buy" THEN o.amount * o.price ELSE o.amount

OffersBy(table, p, side) == {id \in DOMAIN table : table[id].owner = p /\ table[id].side = side}

WorthOf(table, ids) == SumFunctionOnSet([id \in DOMAIN table |-> Worth(table[id])], ids)

(* removeOfferItems takes from the stash first.  It fails when both hold   *)
(* too little, and then what it took is gone: "the player may lose the     *)
(* item [...] but will not clone".                                         *)
Has(p, n) == stash[p] + locker[p] >= n

FromStash(p, n) == Min({stash[p], n})

RemoveOfferItems(p, n) ==
    /\ Has(p, n)
    /\ stash' = [stash EXCEPT ![p] = @ - FromStash(p, n)]
    /\ locker' = [locker EXCEPT ![p] = @ - (n - FromStash(p, n))]

LoseOfferItems(p, n) ==
    /\ ~Has(p, n)
    /\ stash' = [stash EXCEPT ![p] = 0]
    /\ locker' = [locker EXCEPT ![p] = 0]

Insert(p, side, n, price) ==
    \E id \in Id \ (Listed \cup InFlight) :
        offers' = [i \in Listed \cup {id} |-> IF i = id
            THEN [owner |-> p, side |-> side, amount |-> n, price |-> price, old |-> FALSE]
            ELSE offers[i]]

Without(ids) == [i \in Listed \ ids |-> offers[i]]

(* deleteOffer of an offer that is used up, acceptOffer of another.        *)
Reduce(id, n) ==
    IF offers[id].amount = n THEN offers' = Without({id})
    ELSE offers' = [offers EXCEPT ![id].amount = @ - n]

MayOffer(p) == Cardinality({id \in Listed : offers[id].owner = p}) < MaxOffers

-----------------------------------------------------------------------------
(* playerCreateMarketOffer: the goods, or the gold that will buy them, are *)
(* set aside, and the fee is gone.                                         *)
SellFor(p, n, price) ==
    /\ MayOffer(p) /\ gold[p] >= Fee
    /\ \/ /\ RemoveOfferItems(p, n)
          /\ gold' = [gold EXCEPT ![p] = @ - Fee]
          /\ Insert(p, "sell", n, price)
       \/ LoseOfferItems(p, n) /\ UNCHANGED <<gold, offers>>
    /\ UNCHANGED batches

BuyFor(p, n, price) ==
    /\ MayOffer(p) /\ gold[p] >= n * price + Fee
    /\ gold' = [gold EXCEPT ![p] = @ - (n * price + Fee)]
    /\ Insert(p, "buy", n, price)
    /\ UNCHANGED <<stash, locker, batches>>

(* playerCancelMarketOffer.                                                *)
Cancel(id) ==
    /\ id \in Listed
    /\ LET o == offers[id]
       IN  IF o.side = "buy"
           THEN gold' = [gold EXCEPT ![o.owner] = @ + Worth(o)] /\ UNCHANGED locker
           ELSE locker' = [locker EXCEPT ![o.owner] = @ + Worth(o)] /\ UNCHANGED gold
    /\ offers' = Without({id})
    /\ UNCHANGED <<stash, batches>>

\* Mutation: a part of an offer is charged as the whole of it.
ChargedInFull(p, id, n) ==
    LET o == offers[id]
    IN  /\ o.side = "sell" /\ o.owner # p
        /\ gold[p] >= o.amount * o.price
        /\ gold' = [gold EXCEPT ![p] = @ - o.amount * o.price, ![o.owner] = @ + o.amount * o.price]
        /\ locker' = [locker EXCEPT ![p] = @ + n]
        /\ Reduce(id, n)
        /\ UNCHANGED stash

(* playerAcceptMarketOffer of an offer to sell: withdrawMarketFunds, then  *)
(* the delivery, then the seller's pay.                                    *)
BuyFrom(p, id, n) ==
    LET o == offers[id]
    IN  /\ o.side = "sell" /\ o.owner # p
        /\ gold[p] >= n * o.price
        /\ gold' = [gold EXCEPT ![p] = @ - n * o.price, ![o.owner] = @ + n * o.price]
        /\ locker' = [locker EXCEPT ![p] = @ + n]
        /\ Reduce(id, n)
        /\ UNCHANGED stash

(* ... and of an offer to buy: the goods are delivered first and taken     *)
(* back if they cannot be removed from the seller, who loses what was      *)
(* removed until then.                                                     *)
Deliver(p, q, n) ==
    /\ Has(p, n)
    /\ stash' = [stash EXCEPT ![p] = @ - FromStash(p, n)]
    /\ locker' = [locker EXCEPT ![p] = @ - (n - FromStash(p, n)), ![q] = @ + n]

SellTo(p, id, n) ==
    LET o == offers[id]
    IN  /\ o.side = "buy" /\ o.owner # p
        /\ \/ /\ Deliver(p, o.owner, n)
              /\ gold' = [gold EXCEPT ![p] = @ + n * o.price]
              /\ Reduce(id, n)
           \/ LoseOfferItems(p, n) /\ UNCHANGED <<gold, offers>>

Accept(p, id, n) ==
    /\ id \in Listed /\ n <= offers[id].amount
    /\ PartialInFlight \/ id \notin InFlight \/ n = offers[id].amount
    /\ BuyFrom(p, id, n) \/ SellTo(p, id, n)
    /\ UNCHANGED batches

-----------------------------------------------------------------------------
Age(id) ==
    /\ id \in Listed /\ ~offers[id].old
    /\ offers' = [offers EXCEPT ![id].old = TRUE]
    /\ UNCHANGED <<gold, stash, locker, batches>>

\* Mutation: only the offers to sell are looked for.
ExpiredSales == {id \in Listed : offers[id].old /\ offers[id].side = "sell"}

(* checkExpiredOffers: the rows as they are when the query runs.           *)
Expired == {id \in Listed : offers[id].old}

CheckExpired ==
    /\ Len(batches) < MaxBatches
    /\ Expired # {}
    /\ batches' = Append(batches, [id \in Expired |-> offers[id]])
    /\ UNCHANGED <<gold, stash, locker, offers>>

\* Mutation: nobody looks whether the offer is still there.
EveryRow(rows) == DOMAIN rows

(* processExpiredOffers returns what the rows say for every offer that     *)
(* moveOfferToHistory still finds.                                         *)
StillListed(rows) == DOMAIN rows \cap Listed

Returned(rows, p, side) == WorthOf(rows, OffersBy(rows, p, side) \cap StillListed(rows))

ProcessExpired ==
    /\ batches # <<>>
    /\ LET rows == Head(batches)
       IN  /\ gold' = [p \in Player |-> gold[p] + Returned(rows, p, "buy")]
           /\ locker' = [p \in Player |-> locker[p] + Returned(rows, p, "sell")]
           /\ offers' = Without(StillListed(rows))
    /\ batches' = Tail(batches)
    /\ UNCHANGED stash

-----------------------------------------------------------------------------
Next ==
    \/ \E p \in Player, n \in 1 .. MaxAmount, price \in Prices : SellFor(p, n, price) \/ BuyFor(p, n, price)
    \/ \E id \in Id : Cancel(id) \/ Age(id)
    \/ \E p \in Player, id \in Id, n \in 1 .. MaxAmount : Accept(p, id, n)
    \/ CheckExpired
    \/ ProcessExpired

Spec == Init /\ [][Next]_vars

(* The job's timer is armed again whenever it fires, and the dispatcher    *)
(* works through its tasks.  Players are bound to nothing.                 *)
FairSpec == Spec /\ WF_vars(CheckExpired) /\ WF_vars(ProcessExpired)

-----------------------------------------------------------------------------
(* What a player owns, with what the market keeps for him.                 *)
Kept(p, side) == WorthOf(offers, OffersBy(offers, p, side))

GoodsOf(p) == stash[p] + locker[p] + Kept(p, "sell")

GoldOf(p) == gold[p] + Kept(p, "buy")

Goods == SumFunction([p \in Player |-> GoodsOf(p)])
Gold == SumFunction([p \in Player |-> GoldOf(p)])

(* The market makes neither goods nor gold, however the offers, their      *)
(* acceptance and the return of the expired ones interleave.               *)
NothingIsCloned == [][Goods' <= Goods /\ Gold' <= Gold]_vars

(* What a handler may do to what the players own: nothing, cost the owner  *)
(* of a new offer the fee, lose goods that could not be removed, or pass n *)
(* pieces from q to p for gold at a price.                                 *)
Keeps(p) == GoodsOf(p)' = GoodsOf(p) /\ GoldOf(p)' = GoldOf(p)

PaysFee(p) ==
    /\ GoodsOf(p)' = GoodsOf(p) /\ GoldOf(p)' + Fee = GoldOf(p)
    /\ \E id \in Listed' \ Listed : offers'[id].owner = p

Loses(p) == GoodsOf(p)' <= GoodsOf(p) /\ GoldOf(p)' = GoldOf(p) /\ offers' = offers

Trades(p, q, n, price) ==
    /\ GoodsOf(p)' = GoodsOf(p) + n /\ GoldOf(p)' + n * price = GoldOf(p)
    /\ GoodsOf(q)' + n = GoodsOf(q) /\ GoldOf(q)' = GoldOf(q) + n * price

Sold(id) == offers[id].amount - IF id \in Listed' THEN offers'[id].amount ELSE 0

(* What offer id is shorter by has changed hands between its owner and one *)
(* other player, at the price the owner asked or bid.                      *)
Settled(id) ==
    /\ Sold(id) > 0
    /\ \E p, q \in Player :
          /\ p # q /\ offers[id].owner = IF offers[id].side = "sell" THEN q ELSE p
          /\ Trades(p, q, Sold(id), offers[id].price)
          /\ \A r \in Player \ {p, q} : Keeps(r)

(* Whatever is accepted, in whole or in part, is paid by one side to the   *)
(* other at the price of the offer that was accepted, for the pieces it    *)
(* is then shorter by; apart from that, from the fee of a new offer and    *)
(* from goods that a failed removal loses, no handler changes what anybody *)
(* owns.                                                                   *)
TradesArePaid ==
    [][\/ \A q \in Player : Keeps(q)
       \/ \E p \in Player : (PaysFee(p) \/ Loses(p)) /\ \A q \in Player \ {p} : Keeps(q)
       \/ \E id \in Listed : Settled(id)]_vars

(* An offer that has expired is returned, unless it is accepted or         *)
(* cancelled before.                                                       *)
Waiting(id) == id \in Listed /\ offers[id].old

ExpiredReturn == \A id \in Id : Waiting(id) ~> ~Waiting(id)
=============================================================================
