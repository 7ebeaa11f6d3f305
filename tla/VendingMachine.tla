---------------------------- MODULE VendingMachine ----------------------------
(***************************************************************************)
(* The vending machine of examples/vending_machine.hpp: its states, tables, *)
(* guards and handlers, as values for the constants of StateTree, and what *)
(* its author promises of it.                                              *)
(*                                                                         *)
(* The facts of StateTree are the data members of vending_def and the      *)
(* balance of `serving::active`, which has history at every level and so   *)
(* is never reset.  Money is counted in whole units.                       *)
(***************************************************************************)
EXTENDS StateTree

CONSTANTS
    Products,   \* numbers of products
    Amounts,    \* what load_goods may carry, a refused amount among it
    Prices,     \* what set_price may carry, a refused price among it
    Coins,      \* what money may carry
    Code,       \* the secret the machine was made with
    Codes,      \* what start_maintenance may carry
    Stocks,     \* the goods the machine may be made with
    MaxMoney,   \* bound: money inserted in all
    MaxCount    \* bound: items loaded at a time

\* Goods, with these amounts and prices.
AreGoods(goods, amounts, prices) ==
    /\ DOMAIN goods \subseteq Products
    /\ goods \in [DOMAIN goods -> [amount : amounts, price : prices]]

ASSUME VendingAssumption ==
    /\ Amounts \subseteq Int /\ Prices \subseteq Int
    /\ Coins \subseteq Nat \ {0}
    /\ \A stock \in Stocks : AreGoods(stock, Int, Int)

-----------------------------------------------------------------------------
(* The data of the machine *)

\* goods, balance and secret of vending_def; credit is active::balance.  The rest
\* is history: all the money that was ever put in, the number of items that came
\* out, whether a coin has gone in since the last of them, and whether goods that
\* the machine was made with lack a price and none were loaded or priced since.
VendFacts ==
    {[goods |-> stock, balance |-> 0, secret |-> Code, credit |-> 0,
      inserted |-> 0, sold |-> 0, paid |-> FALSE,
      unpriced |-> \E p \in DOMAIN stock : stock[p].price <= 0] : stock \in Stocks}

Count(goods) == MapThenSumSet(LAMBDA p : goods[p].amount, DOMAIN goods)
IsEmpty(d) == Count(d.goods) = 0

\* Mutant: a price of zero, which a new product has, is a price.
PricesSet(d) == \A p \in DOMAIN d.goods : d.goods[p].price >= 0
PricesCorrect(d) == \A p \in DOMAIN d.goods : d.goods[p].price > 0
GoodsExist(d, p) == p \in DOMAIN d.goods
GetPrice(d, p) == IF p \in DOMAIN d.goods THEN d.goods[p].price ELSE 0

AddGoods(d, e) ==
    IF e.product \in DOMAIN d.goods
    THEN [d EXCEPT !.goods[e.product].amount = @ + e.amount, !.unpriced = FALSE]
    ELSE [d EXCEPT !.goods =
             [p \in DOMAIN @ \cup {e.product} |->
                 IF p \in DOMAIN @ THEN @[p] ELSE [amount |-> e.amount, price |-> 0]],
                   !.unpriced = FALSE]

SetPrice(d, e) ==
    IF e.product \in DOMAIN d.goods
    THEN [d EXCEPT !.goods[e.product].price = e.price, !.unpriced = FALSE] ELSE d

\* Nothing happens if there is none of the product left.
DispenseProduct(d, e) ==
    IF e.product \in DOMAIN d.goods /\ d.goods[e.product].amount > 0
    THEN [d EXCEPT !.goods[e.product].amount = @ - 1,
                   !.balance = @ + d.goods[e.product].price,
                   !.sold = @ + 1, !.paid = FALSE]
    ELSE d

\* active::on_enter for money: what is left of earlier money is still there.
EnterActive(d, e) ==
    [d EXCEPT !.credit = @ + e.amount, !.inserted = @ + e.amount, !.paid = TRUE]

-----------------------------------------------------------------------------
(* Events, with the data they carry *)

Signals ==
    {[type |-> t] : t \in {"power_on", "power_off", "end_maintenance", "withdraw_money", "load_done"}}
VendEvents ==
    Signals
      \cup [type : {"start_maintenance"}, secret : Codes]
      \cup [type : {"load_goods"}, product : Products, amount : Amounts]
      \cup [type : {"set_price"}, product : Products, price : Prices]
      \cup [type : {"money"}, amount : Coins]
      \cup [type : {"select_item"}, product : Products]
VendTypeOf == [e \in VendEvents |-> e.type]

-----------------------------------------------------------------------------
(* States and tables *)

VendParent ==
    [off |-> "vm", on |-> "vm", maintenance |-> "on", serving |-> "on",
     out_of_service |-> "on", m_idle |-> "maintenance", loading |-> "maintenance",
     s_idle |-> "serving", active |-> "serving"]
VendStates == DOMAIN VendParent \cup {"vm"}
VendInitial ==
    [vm |-> "off", on |-> "serving", maintenance |-> "m_idle", serving |-> "s_idle"]
VendHistory == {"on", "serving", "active"}
VendRegions == << >>
VendDeferred == [s \in VendStates |-> {}]
VendGuarantee == [m \in DOMAIN VendInitial |-> "basic"]

tr(from, type, to, guard) == [from |-> from, event |-> type, to |-> to, guard |-> guard]
in(type, guard) == [event |-> type, guard |-> guard]

MachineRows ==
    <<tr("off", "power_on", "on", "none"),
      tr("on", "power_off", "off", "none")>>
OnRows ==
    <<tr("serving", None, "out_of_service", "is_empty"),
      tr("out_of_service", None, "serving", "not_empty"),
      tr("serving", "start_maintenance", "maintenance", "check_secret"),
      tr("out_of_service", "start_maintenance", "maintenance", "check_secret"),
      tr("maintenance", "end_maintenance", "serving", "may_leave")>>
MaintenanceRows ==
    <<tr("m_idle", "load_goods", "loading", "check_amount"),
      tr("loading", "load_done", "m_idle", "none")>>
\* Mutant: a sale does not leave the state in which money has been taken.
ServingRowsStay ==
    <<tr("s_idle", "money", "active", "none"),
      tr("active", "money", "active", "none"),
      tr("active", "select_item", "active", "can_sell")>>
ServingRows ==
    <<tr("s_idle", "money", "active", "none"),
      tr("active", "money", "active", "none"),
      tr("active", "select_item", "s_idle", "can_sell")>>
VendTable ==
    [vm |-> MachineRows, on |-> OnRows, maintenance |-> MaintenanceRows,
     serving |-> ServingRows]
MaintenanceInternal == <<in("set_price", "can_price"), in("withdraw_money", "none")>>
VendInternal ==
    [s \in VendStates |-> IF s = "maintenance" THEN MaintenanceInternal ELSE <<>>]

-----------------------------------------------------------------------------
(* Guards and handlers *)

CheckSecret(d, e) == d.secret = e.secret
CheckAmount(e) == e.amount >= 0
CheckPrice(e) == e.price >= 0

EnoughMoney(d, e) == GetPrice(d, e.product) <= d.credit

\* The guards by name, and their combinations with and_, or_ and not_.
Holds(guard, e, d) ==
    CASE guard = "none"         -> TRUE
      [] guard = "is_empty"     -> IsEmpty(d)
      [] guard = "not_empty"    -> ~IsEmpty(d)
      [] guard = "check_secret" -> CheckSecret(d, e)
      [] guard = "check_amount" -> CheckAmount(e)
      [] guard = "can_price"    -> GoodsExist(d, e.product) /\ CheckPrice(e)
      [] guard = "may_leave"    -> IsEmpty(d) \/ PricesCorrect(d)
      [] guard = "can_sell"     -> GoodsExist(d, e.product) /\ EnoughMoney(d, e)
VendVerdicts(guard, e, d) == {Holds(guard, e, d)}

\* The handler a state or a row has for this type of event, if any.  on_exit of
\* `active` is not among them: it takes a select_item&&, and has_on_exit looks
\* for one that a `select_item const&` can be passed to.
VendHandler(h, e, d) ==
    CASE h = <<"enter", "loading", 0>> /\ Kind(e) = "load_goods"  -> AddGoods(d, e)
      [] h = <<"enter", "active", 0>> /\ Kind(e) = "money"        -> EnterActive(d, e)
      [] h = <<"action", "serving", 3>>                           -> DispenseProduct(d, e)
      [] h = <<"internal", "maintenance", 1>>                     -> SetPrice(d, e)
      [] OTHER                                                    -> d
VendEffects(h, e, d) == {VendHandler(h, e, d)}
VendWrites(h) == IF h = <<"enter", "active", 0>> THEN {"active"} ELSE {}

\* add_goods posts load_done to the machine that is running it.
VendPosts(h, e) ==
    IF h = <<"enter", "loading", 0>> /\ Kind(e) = "load_goods"
    THEN <<[type |-> "load_done"]>> ELSE <<>>
NeverThrows == {}

\* The constants of StateTree are those of this machine.
ASSUME MachineAssumption ==
    /\ States = VendStates /\ Root = "vm" /\ Parent = VendParent /\ Initial = VendInitial
    /\ Regions = VendRegions /\ History = VendHistory
    /\ Events = VendEvents /\ TypeOf = VendTypeOf
    /\ None \notin {"start_maintenance", "load_goods", "set_price", "money", "select_item"}
    /\ Table = VendTable /\ Internal = VendInternal /\ Deferred = VendDeferred
    /\ Guarantee = VendGuarantee /\ InitFacts = VendFacts /\ Throwing = NeverThrows

-----------------------------------------------------------------------------
(* The machine, with bounded money and goods *)

Within(e) ==
    /\ Kind(e) = "money" => facts.inserted + e.amount <= MaxMoney
    /\ Kind(e) = "load_goods" => Count(facts.goods) + e.amount <= MaxCount

VendNext ==
    \/ \E e \in Events : Within(e) /\ Receive(e)
    \/ Step

VendSpec == Init /\ [][VendNext]_vars

-----------------------------------------------------------------------------
(* Properties *)

Serving == "serving" \in Active(current)

\* vending_machine_test.cpp:124-125 tries to leave maintenance without setting
\* prices and is refused.  The guard is asked only there: that an open shop with
\* anything to sell has a price on every product needs that goods come in only
\* in maintenance, and that an empty shop is closed before anything is loaded.
\* Goods that the machine was made with are not asked for their prices, and are
\* served without until some are loaded or priced.
PricedWhenServing ==
    Resting /\ Serving /\ ~facts.unpriced =>
        \A p \in DOMAIN facts.goods : facts.goods[p].price > 0

\* The guard of a sale compares the price with a balance that nothing reduces, so
\* only the states of `serving` keep customers from buying on one coin for ever:
\* for every item that comes out a coin has gone in since the one before, with
\* power cycles and maintenance in between, over which the states are kept.
CoinForEachItem == [][facts'.sold # facts.sold => facts.paid]_vars

\* vending_machine.hpp:198 says of leaving `active` with a selected item "Subtract
\* balance", and vending_machine_test.cpp:178-179 expects of the sale "Machine's
\* balance increased by item's price": what customers have paid is either still
\* theirs or the machine's.
MoneyAccounted == Resting => facts.inserted = facts.credit + facts.balance

-----------------------------------------------------------------------------
(* The invariant of sales *)

DataOK(d) ==
    /\ d \in [goods : {d.goods}, balance : Int, secret : {Code}, credit : Int,
              inserted : Int, sold : Int, paid : BOOLEAN, unpriced : BOOLEAN]
    /\ AreGoods(d.goods, Int, Int)

\* A price is set for an event that carries one.
SetsPrice(f) == f.op = "call" /\ Handler(f) = <<"internal", "maintenance", 1>>
Carried(s) == \A j \in DOMAIN s : SetsPrice(s[j]) => Kind(s[j].event) = "set_price"

\* Between the guard and the action of a sale only states are left: the price
\* and the money are still those that the guard has compared.
Sells(f) == f.op = "call" /\ Handler(f) = <<"action", "serving", 3>>
Leaves(f) == f.op = "exit" \/ (f.op = "call" /\ f.kind = "exit")
Agreed(s, d) ==
    \A j \in DOMAIN s : Sells(s[j]) =>
        EnoughMoney(d, s[j].event) /\ \A i \in 1..(j - 1) : Leaves(s[i])

SaleInv == ~throwing /\ DataOK(facts) /\ Carried(todo) /\ Agreed(todo, facts)

-----------------------------------------------------------------------------
(* The invariant of coins *)

\* What `serving` has left to do to enter a state for an event, and calls in which
\* a coin goes in.
Moves(f, to) == f.op = "set" /\ f.of = "serving" /\ f.to = to
Pays(f) ==
    /\ Kind(f.event) = "money"
    /\ \/ f.op = "enter" /\ f.of = "active"
       \/ f.op = "call" /\ Handler(f) = <<"enter", "active", 0>>

\* `serving` is in `active`, or is about to be, for a coin of which nothing has
\* been bought; and a sale leaves `active`.
Funded(s, d) ==
    /\ \A j \in DOMAIN s : Sells(s[j]) =>
          d.paid /\ \E k \in DOMAIN s : k > j /\ Moves(s[k], "s_idle")
    /\ \A j \in DOMAIN s : Moves(s[j], "active") =>
          d.paid \/ \E i \in 1..(j - 1) : Pays(s[i])
Spends(s, state, d) ==
    state = "active" => d.paid \/ \E k \in DOMAIN s : Moves(s[k], "s_idle")
CoinInv == Funded(todo, facts) /\ Spends(todo, current["serving"], facts)

-----------------------------------------------------------------------------
(* The invariant of prices *)

\* What `on` has left to do: its own rows, for an event; what follows them; and
\* the change of its current state.
Asks(f) == f.op = "rows" /\ f.of = "on" /\ f.event # None
Settles(f) == f.op = "settle" /\ f.of = "on"
Enters(f) == f.op = "set" /\ f.of = "on"
SettlesNext(s, j) == j + 1 \in DOMAIN s /\ Settles(s[j + 1])

\* Calls in which goods may be loaded or priced, or sold.
Upkeep(f) ==
    \/ f.op \in {"dispatch", "internal"} /\ f.of = "maintenance"
    \/ f.op = "rows" /\ f.of = "maintenance" /\ f.event # None
    \/ f.op = "enter" /\ f.of = "loading"
    \/ f.op = "call" /\ Handler(f) \in {<<"enter", "loading", 0>>, <<"internal", "maintenance", 1>>}
Trade(f) ==
    \/ f.op = "dispatch" /\ f.of = "serving"
    \/ f.op = "rows" /\ f.of = "serving" /\ f.event # None
    \/ Sells(f)

AsksAfter(s, j) == \E k \in DOMAIN s : k > j /\ Asks(s[k])

\* `on` has not moved before its machines had the event.
InPlace(s, state) ==
    \A j \in DOMAIN s :
        /\ Upkeep(s[j]) => state = "maintenance" /\ AsksAfter(s, j)
        /\ Trade(s[j]) => state = "serving"
        /\ Asks(s[j]) => SettlesNext(s, j)

\* The goods have prices, or are those that it was made with.
Priced(d) == d.unpriced \/ PricesCorrect(d)

\* Else `on` stays in maintenance; or the machine is empty, and either it is not
\* open or it closes by the default transition that comes next.
Allowed(s, d) ==
    \A j \in DOMAIN s : Enters(s[j]) =>
        \/ Priced(d) \/ s[j].to = "maintenance"
        \/ IsEmpty(d) /\ (s[j].to = "out_of_service" \/ SettlesNext(s, j))
Closes(f, r) ==
    \/ Settles(f) /\ r = "process"
    \/ f.op = "default" /\ f.of = "on"
    \/ f = Rows("on", None, 1) /\ r = "refuse"
Closing(s, r) ==
    \/ s # <<>> /\ Closes(Head(s), r)
    \/ \E j \in DOMAIN s : Enters(s[j]) /\ s[j].to = "out_of_service"
Tended(s, r, state, d) ==
    \/ Priced(d) \/ state = "maintenance"
    \/ IsEmpty(d) /\ (state = "out_of_service" \/ (state = "serving" /\ Closing(s, r)))

PriceInv ==
    /\ InPlace(todo, start.current["on"])
    /\ start.current["on"] = "serving" => Priced(facts)
    /\ Allowed(todo, facts)
    /\ Tended(todo, res, current["on"], facts)
-----------------------------------------------------------------------------
(* The invariant of default transitions: one that is due is on its way.    *)

\* The shop is open and empty, or closed and not.
PendAt(state, d) ==
    \/ state = "serving" /\ IsEmpty(d)
    \/ state = "out_of_service" /\ ~IsEmpty(d)

\* Calls that begin with another answer than `process`, or give another one.
Overrides(f) ==
    f.op \in {"dispatch", "default", "enter"} \/ (f.op = "answer" /\ f.of # "process")

\* After the i-th call, or with it if `now`, some call before the k-th answers
\* `process`, and none replaces that.
ToldBefore(s, i, k, now) ==
    \E j \in i..(k - 1) :
        /\ (j = i /\ now) \/ (j > i /\ Tells(s[j]))
        /\ \A h \in (j + 1)..(k - 1) : ~Overrides(s[h])

\* What `on` does about it: it looks for a default transition, or is making it,
\* or will look for one after the event; unless it is off and stays so.
PowersOn(f) == f.op = "set" /\ f.of = "vm" /\ f.to = "on"
Mends(f, d) ==
    \/ f.op \in {"default", "enter"} /\ f.of = "on"
    \/ Enters(f) /\ ~PendAt(f.to, d)
Looks(f, r) == f = Rows("on", None, 1) /\ r = "refuse"
Awaited(s, r, c, d) ==
    \/ c["vm"] = "off" /\ \A j \in DOMAIN s : ~PowersOn(s[j])
    \/ \E j \in DOMAIN s : Mends(s[j], d)
    \/ s # <<>> /\ Looks(Head(s), r)
    \/ \E k \in DOMAIN s : Settles(s[k]) /\ ToldBefore(s, 0, k, r = "process")

\* What `on` enters it may keep, or it looks again; and it will look after a sale.
Kept(s, d) == \A j \in DOMAIN s : Enters(s[j]) => ~PendAt(s[j].to, d) \/ SettlesNext(s, j)
Sold(s, i) == \E k \in DOMAIN s : k > i /\ Asks(s[k]) /\ ToldBefore(s, i, k, ~Sells(s[i]))

PendInv ==
    /\ PendAt(current["on"], facts) => Awaited(todo, res, current, facts)
    /\ Kept(todo, facts)
    /\ \A i \in DOMAIN todo : Trade(todo[i]) => Sold(todo, i)
=============================================================================
