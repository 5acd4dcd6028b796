-------------------------------- MODULE Shop --------------------------------
(***************************************************************************)
(* Items, containers and cash: the item commands of session/actions.go and *)
(* session/commands.go over the items of model/model.go and                *)
(* database/item.go.                                                       *)
(*                                                                         *)
(* An item knows the container it is in, and moves by compare-and-set.     *)
(* Cash is read in one critical section and written in another.  A menu    *)
(* lists items and acts on one of them later, when they may have gone      *)
(* elsewhere; which one is open, for all entries of the shop's menus act   *)
(* on the last item of the list.  Whoever is in the shop's menu when the   *)
(* store is deleted deals on with what is left of it in memory.            *)
(*                                                                         *)
(* A deleted item leaves the database, but a session that listed it can    *)
(* still move it and pay for it; its second deletion panics.  The world is *)
(* one room with one store, one template and one session per character.    *)
(***************************************************************************)
EXTENDS Integers, FiniteSets, Functions

CONSTANTS
    Traders,        \* sessions and their characters; Keeper may administer
    Keeper,
    Store, Hall,    \* the store and the room
    Items, Boxes,   \* Boxes: the items with a capacity
    NoBox,
    Inventory,      \* where each item is at the start, NoBox: not made yet
    Prices,
    MaxDeals        \* commands each session gives in the run

ASSUME ShopAssumption ==
    /\ IsFiniteSet(Traders) /\ Keeper \in Traders
    /\ Boxes \subseteq Items /\ Items # {}
    /\ Traders \cap Items = {} /\ Store # Hall /\ Store # NoBox /\ Hall # NoBox
    /\ {Store, Hall, NoBox} \cap (Traders \cup Items) = {}
    /\ Inventory \in [Items -> {Store, Hall, NoBox}]
    /\ Prices \subseteq Int /\ Prices # {}
    /\ MaxDeals \in [Traders -> Nat]

Owners == Traders \cup {Store}
Holders == Owners \cup Boxes \cup {Hall, NoBox}

VARIABLES
    items,          \* those in the database
    unmade,         \* ids not used yet
    container,      \* of each item, in memory
    price,          \* the value of the template
    cash,
    issued,         \* cash given so far (history)
    storeOpen,      \* the store is in the database
    lost,           \* cash the store had when it was deleted (history)
    at,             \* what each session is about to do
    deal,           \* the item it moves, where from and where to, and if for cash
    purse,          \* the sum it is about to write
    opened,         \* the box it has open, or the store if it is in the shop
    purge,          \* items it has still to delete
    deals,          \* bound
    clashed         \* a sale was disturbed, or a purse written by two (history)

worldOfItems == <<items, unmade, container, storeOpen>>
money        == <<price, cash, issued, lost, clashed>>
locals       == <<deal, purse, opened, purge>>
shopVars     == <<worldOfItems, money, locals, at, deals>>

NoDeal == [item |-> CHOOSE i \in Items : TRUE, from |-> NoBox, to |-> NoBox, sale |-> FALSE]

ShopInit ==
    /\ items = {i \in Items : Inventory[i] # NoBox} /\ unmade = Items \ items
    /\ container = Inventory
    /\ price = CHOOSE p \in Prices : TRUE
    /\ cash = [o \in Owners |-> 0] /\ issued = 0 /\ lost = 0 /\ clashed = FALSE
    /\ storeOpen = TRUE
    /\ at = [t \in Traders |-> "idle"]
    /\ deal = [t \in Traders |-> NoDeal]
    /\ purse = [t \in Traders |-> 0]
    /\ opened = [t \in Traders |-> NoBox]
    /\ purge = [t \in Traders |-> {}]
    /\ deals = [t \in Traders |-> 0]

ShopTypeOK ==
    /\ items \subseteq Items /\ unmade \subseteq Items
    /\ container \in [Items -> Holders]
    /\ price \in Prices /\ issued \in Nat /\ lost \in Int /\ cash \in [Owners -> Int]
    /\ storeOpen \in BOOLEAN /\ clashed \in BOOLEAN
    /\ at \in [Traders -> {"idle", "move", "debit", "pay", "credit", "collect", "gift",
                           "put", "purge", "purgeStore", "panicked"}]
    /\ deal \in [Traders -> [item : Items, from : Holders, to : Holders, sale : BOOLEAN]]
    /\ purse \in [Traders -> Int]
    /\ opened \in [Traders -> Boxes \cup {NoBox, Store}]
    /\ purge \in [Traders -> SUBSET Items]
    /\ deals \in [Traders -> Nat] /\ \A t \in Traders : deals[t] <= MaxDeals[t]

\* ItemsIn: what the database finds in h.
ItemsIn(h) == {i \in items : container[i] = h}

Turns(t, a, b) == at[t] = a /\ at' = [at EXCEPT ![t] = b]

\* The next command of session t, at its prompt or in the menu of a box or the
\* shop.
Orders(t, b, a) ==
    /\ opened[t] = b /\ Turns(t, "idle", a)
    /\ deals[t] < MaxDeals[t] /\ deals' = [deals EXCEPT ![t] = @ + 1]

-----------------------------------------------------------------------------
(* Moving items: get, drop, open, shop                                     *)

Chooses(t, b, from, to, sale) ==
    /\ Orders(t, b, "move")
    /\ \E i \in ItemsIn(from) :
          deal' = [deal EXCEPT ![t] = [item |-> i, from |-> from, to |-> to, sale |-> sale]]
    /\ UNCHANGED <<worldOfItems, money, purse, opened, purge>>

Drop(t) == Chooses(t, NoBox, t, Hall, FALSE)
Get(t)  == Chooses(t, NoBox, Hall, t, FALSE)
Buy(t)  == Chooses(t, Store, Store, t, TRUE)
Sell(t) == Chooses(t, Store, t, Store, TRUE)

Deposit(t)  == opened[t] \in Boxes /\ Chooses(t, opened[t], t, opened[t], FALSE)
Withdraw(t) == opened[t] \in Boxes /\ Chooses(t, opened[t], opened[t], t, FALSE)

Shops(t) ==
    /\ storeOpen /\ opened[t] = NoBox /\ Turns(t, "idle", "idle")
    /\ opened' = [opened EXCEPT ![t] = Store]
    /\ UNCHANGED <<worldOfItems, money, deal, purse, purge, deals>>

\* Faulty variant: boxes in hand can be opened too.
OpenableAnywhere(t) == (ItemsIn(Hall) \cup ItemsIn(t)) \cap Boxes

Openable(t) == ItemsIn(Hall) \cap Boxes

Open(t) ==
    /\ \E b \in Openable(t) : opened' = [opened EXCEPT ![t] = b]
    /\ Orders(t, NoBox, "idle")
    /\ UNCHANGED <<worldOfItems, money, deal, purse, purge>>

Close(t) ==
    /\ opened[t] # NoBox /\ Turns(t, "idle", "idle")
    /\ opened' = [opened EXCEPT ![t] = NoBox]
    /\ UNCHANGED <<worldOfItems, money, deal, purse, purge, deals>>

\* Faulty variant: wherever it is.
CanMoveAlways(i, from) == TRUE

\* SetContainerId moves an item only if it is still where the caller saw it.
CanMove(i, from) == container[i] = from

Moves(t) ==
    LET d == deal[t] IN
    /\ IF CanMove(d.item, d.from)
       THEN /\ container' = [container EXCEPT ![d.item] = d.to]
            /\ Turns(t, "move", IF d.sale THEN "debit" ELSE "idle")
       ELSE Turns(t, "move", "idle") /\ UNCHANGED container
    /\ UNCHANGED <<items, unmade, storeOpen, money, locals, deals>>

-----------------------------------------------------------------------------
(* Cash: sellItem, RemoveCash, AddCash, /cash give                         *)

\* Whose cash t has read and is about to write.
Purse(t) == CASE at[t] = "pay" -> deal[t].to
              [] at[t] = "collect" -> deal[t].from
              [] at[t] = "gift" -> t
              [] OTHER -> NoBox

\* t reads the cash of owner o and will write sum; two may do so at a time, and
\* a sale go on without its store.
Reads(t, o, sum) ==
    /\ purse' = [purse EXCEPT ![t] = sum]
    /\ clashed' = \/ clashed \/ \E u \in Traders : Purse(u) = o
                  \/ ~storeOpen /\ at[t] \in {"debit", "credit"}
    /\ UNCHANGED <<worldOfItems, price, cash, issued, lost, deal, opened, purge>>

Writes(t, o) ==
    /\ cash' = [cash EXCEPT ![o] = purse[t]]
    /\ UNCHANGED <<worldOfItems, price, lost, clashed, locals, deals>>

\* Faulty variant: removing adds.
DebitAdds(t) ==
    Turns(t, "debit", "pay") /\ Reads(t, deal[t].to, cash[deal[t].to] + price) /\ UNCHANGED deals

Debit(t) ==
    Turns(t, "debit", "pay") /\ Reads(t, deal[t].to, cash[deal[t].to] - price) /\ UNCHANGED deals

Pay(t) == Turns(t, "pay", "credit") /\ Writes(t, deal[t].to) /\ UNCHANGED issued

\* Faulty variant: nothing is added.
CreditNothing(t) ==
    Turns(t, "credit", "collect") /\ Reads(t, deal[t].from, cash[deal[t].from]) /\ UNCHANGED deals

\* The value is read again.
Credit(t) ==
    Turns(t, "credit", "collect") /\ Reads(t, deal[t].from, cash[deal[t].from] + price)
        /\ UNCHANGED deals

Collect(t) == Turns(t, "collect", "idle") /\ Writes(t, deal[t].from) /\ UNCHANGED issued

GiveCash(t) == t = Keeper /\ Orders(t, NoBox, "gift") /\ Reads(t, t, cash[t] + 1)

TakeCash(t) == Turns(t, "gift", "idle") /\ Writes(t, t) /\ issued' = issued + 1

-----------------------------------------------------------------------------
(* Administration: /items, /destroyitem, /store                            *)

SetValue(t, v) ==
    /\ t = Keeper /\ Orders(t, NoBox, "idle")
    /\ price' = v
    /\ clashed' = (clashed \/ \E u \in Traders : at[u] \in {"pay", "credit"})
    /\ UNCHANGED <<worldOfItems, cash, issued, lost, locals>>

\* An item is made in no container, and then put in one.
CreateItem(t) ==
    /\ t = Keeper /\ Orders(t, NoBox, "put")
    /\ \E i \in unmade :
          /\ items' = items \cup {i} /\ unmade' = unmade \ {i}
          /\ deal' = [deal EXCEPT ![t] = [item |-> i, from |-> NoBox, to |-> t, sale |-> FALSE]]
    /\ UNCHANGED <<container, storeOpen, money, purse, opened, purge>>

Put(t) ==
    /\ Turns(t, "put", "idle") /\ CanMove(deal[t].item, NoBox)
    /\ container' = [container EXCEPT ![deal[t].item] = t]
    /\ UNCHANGED <<items, unmade, storeOpen, money, locals, deals>>

\* What is to be deleted is listed first: an item in the room, all of the
\* template, or all in the store.
Lists(t, condemned, a) ==
    /\ t = Keeper /\ Orders(t, NoBox, a)
    /\ purge' = [purge EXCEPT ![t] = condemned]
    /\ UNCHANGED <<worldOfItems, money, deal, purse, opened>>

DestroyItem(t)    == \E i \in ItemsIn(Hall) : Lists(t, {i}, "purge")
DeleteTemplate(t) == Lists(t, items, "purge")
DeleteStore(t)    == storeOpen /\ Lists(t, ItemsIn(Store), "purgeStore")

DeleteObject(t) ==
    /\ at[t] \in {"purge", "purgeStore"}
    /\ \E i \in purge[t] :
          IF i \in items
          THEN /\ items' = items \ {i} /\ purge' = [purge EXCEPT ![t] = @ \ {i}]
               /\ UNCHANGED at
          ELSE at' = [at EXCEPT ![t] = "panicked"] /\ UNCHANGED <<items, purge>>
    /\ UNCHANGED <<unmade, container, storeOpen, money, deal, purse, opened, deals>>

Purged(t) ==
    /\ purge[t] = {} /\ Turns(t, "purge", "idle")
    /\ UNCHANGED <<worldOfItems, money, locals, deals>>

\* The store goes last, with its cash.
CloseDown(t) ==
    /\ purge[t] = {}
    /\ IF storeOpen
       THEN /\ Turns(t, "purgeStore", "idle") /\ storeOpen' = FALSE
            /\ lost' = lost + cash[Store]
            /\ clashed' = (clashed \/ \E u \in Traders : at[u] \in {"pay", "credit", "collect"})
       ELSE Turns(t, "purgeStore", "panicked") /\ UNCHANGED <<storeOpen, lost, clashed>>
    /\ UNCHANGED <<items, unmade, container, price, cash, issued, locals, deals>>

ShopNext ==
    \E t \in Traders :
        \/ Drop(t) \/ Get(t) \/ Buy(t) \/ Sell(t)
        \/ Shops(t) \/ Open(t) \/ Close(t) \/ Deposit(t) \/ Withdraw(t) \/ Moves(t)
        \/ Debit(t) \/ Pay(t) \/ Credit(t) \/ Collect(t) \/ GiveCash(t) \/ TakeCash(t)
        \/ \E v \in Prices : SetValue(t, v)
        \/ CreateItem(t) \/ Put(t)
        \/ DestroyItem(t) \/ DeleteTemplate(t) \/ DeleteStore(t) \/ DeleteObject(t) \/ Purged(t)
        \/ CloseDown(t)

ShopSpec == ShopInit /\ [][ShopNext]_shopVars

-----------------------------------------------------------------------------
(* Properties                                                              *)

\* Two sessions never pay one seller for one item, though the menus of both
\* offer it (sellItem pays only when SetContainerId has moved the item).
NothingSoldTwice ==
    \A t, u \in Traders :
        (/\ {at[t], at[u]} \subseteq {"debit", "pay", "credit", "collect"}
         /\ deal[t].item = deal[u].item /\ deal[t].from = deal[u].from) => t = u

Worth(f) == FoldFunction(+, 0, f)

\* The cash of those who are in the database.
Owned == [o \in Owners |-> IF o = Store /\ ~storeOpen THEN 0 ELSE cash[o]]

\* Between sales there is as much cash as was given out, but for what the store
\* had when it was deleted; unless two sessions write one purse at a time, the
\* value changes between the two payments of a sale, or the store is deleted
\* under one (sellItem's TODO: no transaction).
CashIsConserved ==
    (~clashed /\ \A t \in Traders : at[t] \notin {"pay", "credit", "collect"}) =>
        Worth(Owned) = issued - lost

\* What a sale still owes its seller: nothing before the buyer has paid, then the
\* value, then what the sum read last would add.
Owed(t) ==
    CASE at[t] = "credit" -> price
      [] at[t] = "collect" -> purse[t] - cash[deal[t].from]
      [] OTHER -> 0

\* What an owner has or is owed.
DueTo(o) == [t \in Traders |-> IF deal[t].from = o THEN Owed(t) ELSE 0]
Balance == [o \in Owners |->
                IF o = Store /\ ~storeOpen THEN 0 ELSE cash[o] + Worth(DueTo(o))]

Accounts == INSTANCE Ledger WITH balance <- Balance

\* The two payments of a sale, each a read and a later write of a purse, amount
\* to one transfer of one price between the two, and nothing else moves cash but
\* the deletion of the store, which forfeits all it has; until two sessions
\* write one purse, the value changes within a sale, or the store is deleted
\* under one.  (Steps that are not the shop's leave the balances too; they are
\* told first.)
ImplementsLedger ==
    Accounts!Init /\ [][UNCHANGED shopVars \/ clashed' \/ Accounts!Next]_(Accounts!ledgerVars)

\* No box is inside itself, over any number of boxes, whatever menus of boxes
\* that have been carried off meanwhile are open: one of any boxes is in none of
\* them.  ItemWeight, which descends into the boxes, ends.
WeighingEnds ==
    \A S \in SUBSET (items \cap Boxes) : S # {} => \E b \in S : container[b] \notin S
=============================================================================
