------------------------ MODULE VendingMachine_proofs ------------------------
(***************************************************************************)
(* For every set of products, prices, stocks and coins: an item comes out  *)
(* only for a coin that went in after the item before it, and what a       *)
(* machine that was stocked and opened offers has a price. The guard of a  *)
(* sale compares the price with the customer's money, which nothing        *)
(* reduces; until its action runs, other handlers do. The guard that looks *)
(* at the prices is asked when maintenance is left, and never again. And   *)
(* whenever it rests, the shop is open if there is something to sell, and  *)
(* closed if not.                                                          *)
(***************************************************************************)
EXTENDS VendingMachine, StateTree_proofs

\* The handlers and guards of StateTree are those of this machine.
Programmed ==
    \A h, e, d :
        /\ Verdicts(h, e, d) = VendVerdicts(h, e, d) /\ Effects(h, e, d) = VendEffects(h, e, d)
        /\ Writes(h) = VendWrites(h) /\ Posts(h, e) = VendPosts(h, e)

-----------------------------------------------------------------------------
(* The stack of calls *)

LEMMA SaleDo ==
  ASSUME NEW S, NEW s \in Seq(S), s # <<>>, NEW T, NEW ops \in Seq(T), NEW d,
         Carried(s), Agreed(s, d), Carried(ops), Agreed(ops, d),
         Leaves(Head(s)) => \A i \in DOMAIN ops : Leaves(ops[i])
  PROVE  Carried(ops \o Tail(s)) /\ Agreed(ops \o Tail(s), d)
<1> DEFINE r == ops \o Tail(s)
           n == Len(ops)
<1>1. /\ n \in Nat /\ Len(s) \in Nat \ {0} /\ DOMAIN ops = 1..n /\ DOMAIN s = 1..Len(s)
      /\ DOMAIN r = 1..(n + (Len(s) - 1))
      /\ \A i \in 1..n : r[i] = ops[i]
      /\ \A i \in 2..Len(s) : r[n + (i - 1)] = s[i]
      /\ Head(s) = s[1]
  BY ONLY s \in Seq(S), s # <<>>, ops \in Seq(T), DoStack
<1> HIDE DEF r, n
<1>2. \A j \in DOMAIN r : \/ j \in DOMAIN ops /\ r[j] = ops[j]
                          \/ (j - n) + 1 \in 2..Len(s) /\ r[j] = s[(j - n) + 1]
  <2> TAKE j \in DOMAIN r
  <2>1. CASE j <= n
    BY <2>1, <1>1
  <2>2. CASE j > n
    <3>1. (j - n) + 1 \in 2..Len(s) /\ n + (((j - n) + 1) - 1) = j
      BY <2>2, <1>1
    <3>2. QED
      BY <3>1, <1>1
  <2>3. QED
    BY <2>1, <2>2, <1>1
<1>3. Carried(r)
  BY <1>1, <1>2 DEF Carried
<1>4. ASSUME NEW j \in DOMAIN r, Sells(r[j])
      PROVE  EnoughMoney(d, r[j].event) /\ \A i \in 1..(j - 1) : Leaves(r[i])
  <2>1. CASE j \in DOMAIN ops /\ r[j] = ops[j]
    <3>1. \A i \in 1..(j - 1) : i \in 1..n /\ r[i] = ops[i]
      BY <2>1, <1>1
    <3>2. QED
      BY <2>1, <3>1, <1>4 DEF Agreed
  <2>2. CASE (j - n) + 1 \in 2..Len(s) /\ r[j] = s[(j - n) + 1]
    <3> DEFINE k == (j - n) + 1
    <3>1. k \in DOMAIN s /\ k \in 2..Len(s) /\ Sells(s[k]) /\ r[j] = s[k]
      BY <2>2, <1>1, <1>4
    <3>2. EnoughMoney(d, s[k].event) /\ \A i \in 1..(k - 1) : Leaves(s[i])
      BY <3>1 DEF Agreed
    <3>3. \A i \in DOMAIN ops : Leaves(ops[i])
      <4>1. 1 \in 1..(k - 1)
        BY <3>1, <1>1
      <4>2. QED
        BY <4>1, <3>2, <1>1
    <3>4. ASSUME NEW i \in 1..(j - 1)
          PROVE  Leaves(r[i])
      <4>1. i \in DOMAIN r
        BY <1>1, <3>4
      <4>2. CASE i \in DOMAIN ops /\ r[i] = ops[i]
        BY <4>2, <3>3
      <4>3. CASE (i - n) + 1 \in 2..Len(s) /\ r[i] = s[(i - n) + 1]
        <5>1. (i - n) + 1 \in 1..(k - 1)
          BY <4>3, <1>1, <3>4
        <5>2. QED
          BY <5>1, <4>3, <3>2
      <4>4. QED
        BY <4>1, <4>2, <4>3, <1>2
    <3>5. QED
      BY <3>1, <3>2, <3>4
  <2>3. QED
    BY <2>1, <2>2, <1>2
<1>5. QED
  BY <1>3, <1>4 DEF r, Agreed

\* Most actions put nothing there that runs a handler.
LEMMA QuietDo ==
  ASSUME NEW S, NEW s \in Seq(S), s # <<>>, NEW T, NEW ops \in Seq(T), NEW d,
         Carried(s), Agreed(s, d), ~Leaves(Head(s)), \A j \in DOMAIN ops : ops[j].op # "call"
  PROVE  Carried(ops \o Tail(s)) /\ Agreed(ops \o Tail(s), d)
<1>1. Carried(ops) /\ Agreed(ops, d)
  BY DEF Carried, Agreed, SetsPrice, Sells
<1>2. QED
  BY <1>1, SaleDo

LEMMA CoinDo ==
  ASSUME NEW S, NEW s \in Seq(S), s # <<>>, NEW T, NEW ops \in Seq(T), NEW d,
         Funded(s, d), Funded(ops, d), Pays(Head(s)) => d.paid \/ \E i \in DOMAIN ops : Pays(ops[i])
  PROVE  Funded(ops \o Tail(s), d)
<1> DEFINE r == ops \o Tail(s)
           n == Len(ops)
<1>1. /\ n \in Nat /\ Len(s) \in Nat \ {0} /\ DOMAIN ops = 1..n /\ DOMAIN s = 1..Len(s)
      /\ DOMAIN r = 1..(n + (Len(s) - 1))
      /\ \A i \in 1..n : r[i] = ops[i]
      /\ \A i \in 2..Len(s) : r[n + (i - 1)] = s[i]
      /\ Head(s) = s[1]
  BY ONLY s \in Seq(S), s # <<>>, ops \in Seq(T), DoStack
<1> HIDE DEF r, n
<1>2. \A i \in DOMAIN ops : i \in DOMAIN r /\ r[i] = ops[i] /\ i <= n
  BY <1>1
<1>3. \A k \in 2..Len(s) : n + (k - 1) \in DOMAIN r /\ r[n + (k - 1)] = s[k]
  BY <1>1
<1>4. \A j \in DOMAIN r : \/ j \in DOMAIN ops /\ r[j] = ops[j]
                          \/ \E k \in 2..Len(s) : j = n + (k - 1) /\ r[j] = s[k]
  <2> TAKE j \in DOMAIN r
  <2>1. CASE j <= n
    BY <2>1, <1>1
  <2>2. CASE j > n
    <3>1. (j - n) + 1 \in 2..Len(s) /\ n + (((j - n) + 1) - 1) = j
      BY <2>2, <1>1
    <3>2. QED
      BY <3>1, <1>1
  <2>3. QED
    BY <2>1, <2>2, <1>1
<1>5. ASSUME NEW j \in DOMAIN r, Sells(r[j])
      PROVE  d.paid /\ \E k \in DOMAIN r : k > j /\ Moves(r[k], "s_idle")
  <2>1. CASE j \in DOMAIN ops /\ r[j] = ops[j]
    BY <1>2, <1>5, <2>1 DEF Funded
  <2>2. ASSUME NEW i \in 2..Len(s), j = n + (i - 1), r[j] = s[i]
        PROVE  d.paid /\ \E k \in DOMAIN r : k > j /\ Moves(r[k], "s_idle")
    <3>1. i \in DOMAIN s
      BY <1>1
    <3>2. d.paid /\ \E k \in DOMAIN s : k > i /\ Moves(s[k], "s_idle")
      BY <1>5, <2>2, <3>1 DEF Funded
    <3>3. PICK k \in DOMAIN s : k > i /\ Moves(s[k], "s_idle")
      BY <3>2
    <3>4. k \in 2..Len(s) /\ n + (k - 1) > j
      BY <1>1, <2>2, <3>3
    <3>5. QED
      BY <1>3, <3>2, <3>3, <3>4
  <2>3. QED
    BY <1>4, <2>1, <2>2
<1>6. ASSUME NEW j \in DOMAIN r, Moves(r[j], "active")
      PROVE  d.paid \/ \E i \in 1..(j - 1) : Pays(r[i])
  <2>1. CASE j \in DOMAIN ops /\ r[j] = ops[j]
    <3>1. d.paid \/ \E i \in 1..(j - 1) : Pays(ops[i])
      BY <1>6, <2>1 DEF Funded
    <3>2. \A i \in 1..(j - 1) : i \in DOMAIN ops
      BY <1>1, <2>1
    <3>3. QED
      BY <1>2, <3>1, <3>2
  <2>2. ASSUME NEW k \in 2..Len(s), j = n + (k - 1), r[j] = s[k]
        PROVE  d.paid \/ \E i \in 1..(j - 1) : Pays(r[i])
    <3>1. k \in DOMAIN s
      BY <1>1
    <3>2. d.paid \/ \E h \in 1..(k - 1) : Pays(s[h])
      BY <1>6, <2>2, <3>1 DEF Funded
    <3>3. ASSUME NEW h \in 1..(k - 1), Pays(s[h]), h > 1
          PROVE  \E i \in 1..(j - 1) : Pays(r[i])
      <4>1. h \in 2..Len(s) /\ n + (h - 1) \in 1..(j - 1)
        BY <1>1, <2>2, <3>3
      <4>2. QED
        BY <1>3, <3>3, <4>1
    <3>4. ASSUME NEW i \in DOMAIN ops, Pays(ops[i])
          PROVE  \E h \in 1..(j - 1) : Pays(r[h])
      <4>1. i \in 1..(j - 1)
        BY <1>1, <2>2, <3>4
      <4>2. QED
        BY <1>2, <3>4, <4>1
    <3>5. \A h \in 1..(k - 1) : h = 1 \/ h > 1
      BY <1>1
    <3>6. QED
      BY <1>1, <3>2, <3>3, <3>4, <3>5
  <2>3. QED
    BY <1>4, <2>1, <2>2
<1>7. QED
  BY <1>5, <1>6 DEF r, Funded

LEMMA SpendsDo ==
  ASSUME NEW S, NEW s \in Seq(S), s # <<>>, NEW T, NEW ops \in Seq(T), NEW state, NEW d,
         Spends(s, state, d), ~Moves(Head(s), "s_idle")
  PROVE  Spends(ops \o Tail(s), state, d)
<1> DEFINE r == ops \o Tail(s)
           n == Len(ops)
<1>1. /\ n \in Nat /\ Len(s) \in Nat \ {0} /\ DOMAIN s = 1..Len(s)
      /\ DOMAIN r = 1..(n + (Len(s) - 1))
      /\ \A i \in 2..Len(s) : r[n + (i - 1)] = s[i]
      /\ Head(s) = s[1]
  BY ONLY s \in Seq(S), s # <<>>, ops \in Seq(T), DoStack
<1> HIDE DEF r, n
<1>2. ASSUME NEW k \in DOMAIN s, Moves(s[k], "s_idle")
      PROVE  \E i \in DOMAIN r : Moves(r[i], "s_idle")
  <2>1. k \in 2..Len(s)
    BY <1>1, <1>2
  <2>2. n + (k - 1) \in DOMAIN r
    BY <1>1, <2>1
  <2>3. QED
    BY <1>1, <1>2, <2>1, <2>2
<1>3. QED
  BY <1>2 DEF r, Spends

-----------------------------------------------------------------------------
(* The actions *)

SameFacts == facts' = facts /\ ~throwing'

\* An action that pays for nothing and sells nothing.
NoSale ==
    /\ Funded(todo, facts) => Funded(todo', facts)
    /\ Head(todo).op # "set" =>
          \A state : Spends(todo, state, facts) => Spends(todo', state, facts)

LEMMA SaleKept ==
  ASSUME SaleInv, SameFacts, Carried(todo'), Agreed(todo', facts)
  PROVE  SaleInv'
  BY DEF SaleInv, SameFacts, Carried, Agreed

\* An action that runs no handler, and whose calls do not either.
LEMMA QuietStep ==
  ASSUME TypeOK, SaleInv, todo # <<>>, ~Leaves(Head(todo)), ~Pays(Head(todo)), SameFacts,
         NEW T, NEW ops \in Seq(T), Do(ops), \A j \in DOMAIN ops : ops[j].op \notin {"call", "set"}
  PROVE  SaleInv' /\ NoSale
<1>1. Carried(ops \o Tail(todo)) /\ Agreed(ops \o Tail(todo), facts)
  BY QuietDo DEF TypeOK, SaleInv
<1>2. Funded(ops, facts)
  BY DEF Funded, Sells, Moves
<1>3. todo \in Seq(Frame) /\ todo' = ops \o Tail(todo)
  BY DEF TypeOK, Do
<1>4. Funded(todo, facts) => Funded(todo', facts)
  BY <1>2, <1>3, CoinDo
<1>5. ASSUME NEW state, Head(todo).op # "set", Spends(todo, state, facts)
      PROVE  Spends(todo', state, facts)
  BY <1>3, <1>5, SpendsDo DEF Moves
<1>6. SaleInv'
  BY <1>1, SaleKept DEF Do
<1>7. QED
  BY <1>4, <1>5, <1>6 DEF NoSale

LEMMA NothingDone ==
  ASSUME TypeOK, SaleInv, todo # <<>>, ~Leaves(Head(todo)), ~Pays(Head(todo)), SameFacts, Do(<<>>)
  PROVE  SaleInv' /\ NoSale
<1>1. <<>> \in Seq({}) /\ \A j \in DOMAIN <<>> : <<>>[j].op \notin {"call", "set"}
  OBVIOUS
<1>2. QED
  BY <1>1, QuietStep

LEMMA OneDone ==
  ASSUME TypeOK, SaleInv, todo # <<>>, ~Leaves(Head(todo)), ~Pays(Head(todo)), SameFacts,
         NEW f, f.op \notin {"call", "set"}, Do(<<f>>)
  PROVE  SaleInv' /\ NoSale
<1>1. <<f>> \in Seq({f}) /\ \A j \in DOMAIN <<f>> : <<f>>[j].op \notin {"call", "set"}
  OBVIOUS
<1>2. QED
  BY <1>1, QuietStep

LEMMA TwoDone ==
  ASSUME TypeOK, SaleInv, todo # <<>>, ~Leaves(Head(todo)), ~Pays(Head(todo)), SameFacts,
         NEW f, f.op \notin {"call", "set"}, NEW g, g.op \notin {"call", "set"}, Do(<<f, g>>)
  PROVE  SaleInv' /\ NoSale
<1>1. <<f, g>> \in Seq({f, g}) /\ \A j \in DOMAIN <<f, g>> : <<f, g>>[j].op \notin {"call", "set"}
  OBVIOUS
<1>2. QED
  BY <1>1, QuietStep

LEMMA QuietSale ==
  ASSUME TypeOK, SaleInv,
         \/ Dispatch \/ NextRegion \/ NoMoreRows \/ Settle \/ CheckDefault \/ GiveAnswer
         \/ ClearSource \/ CompleteTransition \/ LeaveTry
  PROVE  SaleInv' /\ NoSale
<1> USE DEF SameFacts, Doing, Leaves, Pays, SaleInv
<1>1. CASE Dispatch
  <2> DEFINE n == Head(todo).of
  <2>1. todo # <<>> /\ ~Leaves(Head(todo)) /\ ~Pays(Head(todo)) /\ SameFacts /\ DispatchTo(n)
    BY <1>1 DEF Dispatch, program
  <2>2. CASE Do(<<>>)
    BY <2>1, <2>2, NothingDone
  <2>3. CASE Do(MachineDispatch(n))
    <3> DEFINE a == Op("dispatch", current[n], event)
               b == Rows(n, event, 1)
               c == Op("settle", n, None)
               d == InternalRows(n, 1)
    <3>1. a.op \notin {"call", "set"} /\ b.op \notin {"call", "set"} /\ c.op \notin {"call", "set"} /\ d.op \notin {"call", "set"}
      BY DEF Op, Rows, InternalRows
    <3> HIDE DEF a, b, c, d
    <3>2. <<a, b, c, d>> \in Seq({a, b, c, d})
          /\ \A j \in DOMAIN <<a, b, c, d>> : <<a, b, c, d>>[j].op \notin {"call", "set"}
      BY <3>1
    <3>3. Do(<<a, b, c, d>>)
      BY <2>3 DEF MachineDispatch, a, b, c, d
    <3>4. QED
      BY <2>1, <3>2, <3>3, QuietStep
  <2>4. CASE Do(RegionsDispatch(n))
    <3>1. Region(n, 1, "refuse").op \notin {"call", "set"} /\ InternalRows(n, 1).op \notin {"call", "set"}
      BY DEF Region, InternalRows
    <3>2. QED
      BY <2>1, <2>4, <3>1, TwoDone DEF RegionsDispatch
  <2>5. CASE Do(StateDispatch(n))
    <3>1. InternalRows(n, 1).op \notin {"call", "set"}
      BY DEF InternalRows
    <3>2. QED
      BY <2>1, <2>5, <3>1, OneDone DEF StateDispatch
  <2>6. QED
    BY <2>1, <2>2, <2>3, <2>4, <2>5 DEF DispatchTo, Return
<1>2. CASE NextRegion
  <2>1. todo # <<>> /\ ~Leaves(Head(todo)) /\ ~Pays(Head(todo)) /\ SameFacts
        /\ \/ Do(<<>>)
           \/ \E g, h, e : Do(<<Op("dispatch", g, e), Region(Head(todo).of, Head(todo).row + 1, h)>>)
    BY <1>2 DEF NextRegion, program, Return
  <2>2. ASSUME NEW g, NEW h, NEW e,
               Do(<<Op("dispatch", g, e), Region(Head(todo).of, Head(todo).row + 1, h)>>)
        PROVE  SaleInv' /\ NoSale
    <3>1. Op("dispatch", g, e).op \notin {"call", "set"} /\ Region(Head(todo).of, Head(todo).row + 1, h).op \notin {"call", "set"}
      BY DEF Op, Region
    <3>2. QED
      BY <2>1, <2>2, <3>1, TwoDone
  <2>3. QED
    BY <2>1, <2>2, NothingDone
<1>3. CASE NoMoreRows
  BY <1>3, NothingDone DEF NoMoreRows, program
<1>4. CASE Settle
  <2>1. todo # <<>> /\ ~Leaves(Head(todo)) /\ ~Pays(Head(todo)) /\ SameFacts
        /\ \/ Do(<<>>) \/ Do(<<Op("default", Head(todo).of, None), Answer("process")>>)
    BY <1>4 DEF Settle, program
  <2>2. Op("default", Head(todo).of, None).op \notin {"call", "set"} /\ Answer("process").op \notin {"call", "set"}
    BY DEF Op, Answer
  <2>3. QED
    BY <2>1, <2>2, NothingDone, TwoDone
<1>5. CASE CheckDefault
  <2>1. Rows(Head(todo).of, None, 1).op \notin {"call", "set"}
    BY DEF Rows
  <2>2. QED
    BY <1>5, <2>1, OneDone DEF CheckDefault, program
<1>6. CASE GiveAnswer
  BY <1>6, NothingDone DEF GiveAnswer, program, Return
<1>7. CASE ClearSource
  BY <1>7, NothingDone DEF ClearSource, program
<1>8. CASE CompleteTransition
  BY <1>8, NothingDone DEF CompleteTransition, program, Return
<1>9. CASE LeaveTry
  BY <1>9, NothingDone DEF LeaveTry, program
<1>10. QED
  BY <1>1, <1>2, <1>3, <1>4, <1>5, <1>6, <1>7, <1>8, <1>9

LEMMA ReceiveSale ==
  ASSUME TypeOK, SaleInv, NEW e, Receive(e)
  PROVE  SaleInv'
<1>1. Op("dispatch", Root, e).op # "call"
  BY DEF Op
<1>2. todo' = <<Op("dispatch", Root, e)>> /\ SameFacts
  BY DEF Receive, SameFacts, SaleInv
<1>3. Carried(todo') /\ Agreed(todo', facts)
  BY <1>1, <1>2 DEF Carried, Agreed, SetsPrice, Sells
<1>4. QED
  BY <1>2, <1>3, SaleKept

\* A row is tried under its guard: that of a sale has compared price and money.
LEMMA TestRowSale ==
  ASSUME Programmed, TypeOK, StackInv, SaleInv, TestRow
  PROVE  SaleInv'
<1> DEFINE f == Head(todo)
           m == f.of
           i == First(Candidates(f))
           r == Table[m][i]
           ops == Transition(m, f.event, i)
<1>1. /\ todo # <<>> /\ f.op = "rows" /\ ~Leaves(f) /\ ~Pays(f) /\ SameFacts
      /\ Candidates(f) # {}
      /\ \E v \in Verdicts(r.guard, f.event, facts) :
            Do(IF v THEN ops ELSE <<Rows(m, f.event, i + 1)>>)
  BY DEF TestRow, Doing, SameFacts, SaleInv, Leaves, Pays, program
<1>2. CASE Do(<<Rows(m, f.event, i + 1)>>)
  <2>1. Rows(m, f.event, i + 1).op \notin {"call", "set"}
    BY DEF Rows
  <2>2. QED
    BY <1>1, <1>2, <2>1, OneDone
<1>3. CASE Holds(r.guard, f.event, facts) /\ Do(ops)
  <2> DEFINE a == Op("exit", r.from, f.event)
             b == Call("action", m, i, f.event)
             c == Op("enter", r.to, f.event)
             d == Op("clear", r.from, f.event)
             g == SetCurrent(m, r.to)
  <2>1. f \in Frame /\ m \in Machines
    BY <1>1, TailFacts, FrameFields DEF TypeOK
  <2>2. Guarantee[m] = "basic"
    BY <2>1, MachineAssumption DEF Machines, VendGuarantee, VendInitial
  <2>3. ops = <<a, b, c, d, g>> \o <<>>
    BY <2>2 DEF Transition, Tried
  <2>4. a.op = "exit" /\ c.op = "enter" /\ d.op = "clear" /\ g.op = "set"
        /\ b.op = "call" /\ b.kind = "action" /\ b.of = m /\ b.row = i /\ b.event = f.event
    BY DEF Op, Call, SetCurrent
  <2> HIDE DEF a, b, c, d, g, ops
  <2>5. /\ ops = <<a, b, c, d, g>> /\ ops \in Seq({a, b, c, d, g}) /\ DOMAIN ops = 1..5
        /\ ops[1] = a /\ ops[2] = b /\ ops[3] = c /\ ops[4] = d /\ ops[5] = g
    BY <2>3
  <2>6. Sells(b) => EnoughMoney(facts, b.event)
    <3>1. SUFFICES ASSUME Sells(b)
                   PROVE  EnoughMoney(facts, b.event)
      OBVIOUS
    <3>2. m = "serving" /\ i = 3
      BY <2>4, <3>1 DEF Sells, Handler
    <3>3. r.guard = "can_sell"
      BY <3>2, MachineAssumption DEF VendTable, ServingRows, tr
    <3>4. Holds("can_sell", f.event, facts)
      BY <1>3, <3>3
    <3>5. QED
      BY <2>4, <3>4 DEF Holds
  <2>7. Carried(ops)
    BY <2>4, <2>5 DEF Carried, SetsPrice, Handler
  <2>8. Agreed(ops, facts)
    <3>1. ASSUME NEW j \in DOMAIN ops, Sells(ops[j])
          PROVE  EnoughMoney(facts, ops[j].event) /\ \A k \in 1..(j - 1) : Leaves(ops[k])
      <4>1. j = 2
        BY <3>1, <2>4, <2>5 DEF Sells
      <4>2. \A k \in 1..(2 - 1) : k = 1
        OBVIOUS
      <4>3. QED
        BY <3>1, <4>1, <4>2, <2>4, <2>5, <2>6 DEF Leaves
    <3>2. QED
      BY <3>1 DEF Agreed
  <2>9. Carried(ops \o Tail(todo)) /\ Agreed(ops \o Tail(todo), facts)
    BY <1>1, <2>5, <2>7, <2>8, SaleDo DEF TypeOK, SaleInv
  <2>10. QED
    BY <1>1, <1>3, <2>9, SaleKept DEF Do
<1>4. PICK v \in Verdicts(r.guard, f.event, facts) :
        Do(IF v THEN ops ELSE <<Rows(m, f.event, i + 1)>>)
  BY <1>1
<1> HIDE DEF ops
<1>5. CASE v
  <2>1. v = Holds(r.guard, f.event, facts)
    BY <1>4 DEF Programmed, VendVerdicts
  <2>2. Holds(r.guard, f.event, facts) /\ Do(ops)
    BY <1>4, <1>5, <2>1
  <2>3. QED
    BY <1>3, <2>2
<1>6. CASE ~v
  BY <1>2, <1>4, <1>6
<1>7. QED
  BY <1>5, <1>6

LEMMA TestInternalRowSale ==
  ASSUME TypeOK, StackInv, SaleInv, TestInternalRow
  PROVE  SaleInv' /\ NoSale
<1> DEFINE f == Head(todo)
           i == First(InternalCandidates(f))
           a == Call("internal", f.of, i, event)
           b == Answer("in_state")
           again == InternalRows(f.of, i + 1)
<1>1. /\ todo # <<>> /\ f.op = "internal" /\ ~Leaves(f) /\ ~Pays(f) /\ SameFacts
      /\ InternalCandidates(f) # {}
      /\ \E v : Do(IF v THEN <<a, b>> ELSE <<again>>)
  BY DEF TestInternalRow, Doing, SameFacts, SaleInv, Leaves, Pays, program
<1>2. /\ a.op = "call" /\ a.kind = "internal" /\ a.of = f.of /\ a.row = i /\ a.event = event
      /\ b.op = "answer" /\ again.op = "internal"
  BY DEF Call, Answer, InternalRows
<1>3. CASE Do(<<a, b>>)
  <2>1. f \in Frame /\ f.row >= 1
    BY <1>1, FirstCall DEF SaleInv, Fits, FitsDispatch
  <2>2. SetsPrice(a) => Kind(a.event) = "set_price"
    <3>1. SUFFICES ASSUME SetsPrice(a)
                   PROVE  Kind(event) = "set_price"
      BY <1>2
    <3>2. f.of = "maintenance" /\ i = 1
      BY <1>2, <3>1 DEF SetsPrice, Handler
    <3>4. Internal["maintenance"][1].event = Kind(event)
      BY <1>1, <2>1, <3>2, FirstInternalCandidate
    <3>5. "maintenance" \in VendStates
      BY DEF VendStates, VendParent
    <3>6. QED
      BY <3>4, <3>5, MachineAssumption DEF VendInternal, MaintenanceInternal, in
  <2> HIDE DEF a, b, f, i
  <2>3. <<a, b>> \in Seq({a, b})
    OBVIOUS
  <2>4. Carried(<<a, b>>) /\ Agreed(<<a, b>>, facts)
    <3>1. \A j \in DOMAIN <<a, b>> : <<a, b>>[j] \in {a, b}
      OBVIOUS
    <3>2. ~Sells(a) /\ ~Sells(b) /\ ~SetsPrice(b)
      BY <1>2 DEF Sells, Handler, SetsPrice
    <3>3. QED
      BY <2>2, <3>1, <3>2 DEF Carried, Agreed
  <2>5. Carried(<<a, b>> \o Tail(todo)) /\ Agreed(<<a, b>> \o Tail(todo), facts)
    BY <1>1, <2>3, <2>4, SaleDo DEF TypeOK, SaleInv, f
  <2>6. Funded(<<a, b>>, facts)
    <3>1. \A j \in DOMAIN <<a, b>> : <<a, b>>[j] \in {a, b}
      OBVIOUS
    <3>2. \A x \in {a, b} : ~Sells(x) /\ ~Moves(x, "active")
      BY <1>2 DEF Sells, Handler, Moves
    <3>3. QED
      BY <3>1, <3>2 DEF Funded
  <2>7. todo \in Seq(Frame) /\ todo' = <<a, b>> \o Tail(todo) /\ ~Moves(Head(todo), "s_idle")
    BY <1>1, <1>3 DEF TypeOK, Do, Moves, f
  <2>8. ~Pays(Head(todo))
    BY <1>1 DEF f
  <2>9. NoSale
    BY <1>1, <2>3, <2>6, <2>7, <2>8, CoinDo, SpendsDo DEF NoSale
  <2>10. QED
    BY <1>1, <1>3, <2>5, <2>9, SaleKept DEF Do
<1>4. CASE Do(<<again>>)
  BY <1>1, <1>2, <1>4, OneDone
<1>5. QED
  BY <1>1, <1>3, <1>4

LEMMA ExitOrEnterSale ==
  ASSUME TypeOK, SaleInv, ExitOrEnter
  PROVE  SaleInv' /\ NoSale
<1> DEFINE f == Head(todo)
           n == f.of
           e == f.event
<1>1. todo # <<>> /\ SameFacts /\ f \in Frame
  BY TailFacts DEF ExitOrEnter, Doing, SameFacts, SaleInv, program, TypeOK
<1>2. f.op \in {"exit", "enter"} => n \in States /\ e \in Events \cup {None}
  BY <1>1, FrameFields DEF OpNames
<1>3. \/ f.op = "exit" /\ Do(InnerExit(n, e) \o <<Call("exit", n, 0, e)>>)
      \/ f.op = "enter" /\ Do(<<Call("enter", n, 0, e)>> \o InnerEnter(n, e))
  BY DEF ExitOrEnter, Doing
<1>4. Orthogonal = {}
  BY MachineAssumption DEF Orthogonal, VendRegions
<1>5. ASSUME NEW T, NEW ops \in Seq(T), Do(ops), f.op \in {"exit", "enter"},
             \A x \in ToSet(ops) :
                 \/ x.op \notin {"call", "set"} /\ (f.op = "exit" => x.op = "exit")
                 \/ x.op = "call" /\ x.kind = f.op,
             Pays(f) => \E x \in ToSet(ops) : Pays(x)
      PROVE  SaleInv' /\ NoSale
  <2>1. \A j \in DOMAIN ops : ops[j] \in ToSet(ops)
    BY DEF ToSet
  <2>2. Carried(ops) /\ Agreed(ops, facts)
    BY <1>5, <2>1 DEF Carried, Agreed, SetsPrice, Sells, Handler
  <2>3. Leaves(f) => \A j \in DOMAIN ops : Leaves(ops[j])
    BY <1>3, <1>5, <2>1 DEF Leaves
  <2>4. Carried(ops \o Tail(todo)) /\ Agreed(ops \o Tail(todo), facts)
    BY <1>1, <1>5, <2>2, <2>3, SaleDo DEF TypeOK, SaleInv
  <2>5. Funded(ops, facts)
    BY <1>5, <2>1 DEF Funded, Sells, Handler, Moves
  <2>6. Pays(f) => \E j \in DOMAIN ops : Pays(ops[j])
    BY <1>5 DEF ToSet
  <2>7. todo \in Seq(Frame) /\ todo' = ops \o Tail(todo) /\ ~Moves(f, "s_idle")
    BY <1>1, <1>5 DEF TypeOK, Do, Moves
  <2>8. NoSale
    BY <1>1, <1>5, <2>5, <2>6, <2>7, CoinDo, SpendsDo DEF NoSale
  <2>9. QED
    BY <1>1, <1>5, <2>4, <2>8, SaleKept DEF Do
<1>6. CASE f.op = "exit" /\ Do(InnerExit(n, e) \o <<Call("exit", n, 0, e)>>)
  <2> DEFINE a == Op("exit", current[n], e)
             c == Call("exit", n, 0, e)
             inner == InnerExit(n, e)
  <2>1. a.op = "exit" /\ c.op = "call" /\ c.kind = "exit"
    BY DEF Op, Call
  <2>2. inner = <<a>> \/ inner = <<>>
    BY <1>4 DEF InnerExit
  <2> HIDE DEF a, c, f, n, e, inner
  <2>3. <<c>> \in Seq({a, c}) /\ ToSet(<<c>>) = {c}
    BY DEF ToSet
  <2>4. inner \in Seq({a, c}) /\ ToSet(inner) \subseteq {a}
    <3>1. CASE inner = <<a>>
      BY <3>1 DEF ToSet
    <3>2. CASE inner = <<>>
      BY <3>2 DEF ToSet
    <3>3. QED
      BY <2>2, <3>1, <3>2
  <2>5. inner \o <<c>> \in Seq({a, c}) /\ ToSet(inner \o <<c>>) = ToSet(inner) \cup ToSet(<<c>>)
    BY ONLY <2>3, <2>4, ConcatFacts
  <2>6. Do(inner \o <<c>>)
    BY <1>6 DEF inner, c
  <2>7. \A x \in ToSet(inner \o <<c>>) : x \in {a, c}
    BY <2>3, <2>4, <2>5
  <2>8. ~Pays(f)
    BY <1>6 DEF Pays
  <2>9. QED
    BY <1>5, <1>6, <2>1, <2>5, <2>6, <2>7, <2>8
<1>7. CASE f.op = "enter" /\ Do(<<Call("enter", n, 0, e)>> \o InnerEnter(n, e))
  <2> DEFINE a == Op("enter", Initial[n], e)
             b == Op("default", n, None)
             c == Call("enter", n, 0, e)
             inner == InnerEnter(n, e)
  <2>1. a.op = "enter" /\ b.op = "default" /\ c.op = "call" /\ c.kind = "enter"
    BY DEF Op, Call
  <2>2. inner = <<a, b>> \/ inner = <<>>
    BY <1>4 DEF InnerEnter
  <2> HIDE DEF a, b, c, f, n, e, inner
  <2>3. <<c>> \in Seq({a, b, c}) /\ ToSet(<<c>>) = {c}
    BY DEF ToSet
  <2>4. inner \in Seq({a, b, c}) /\ ToSet(inner) \subseteq {a, b}
    <3>1. CASE inner = <<a, b>>
      BY <3>1 DEF ToSet
    <3>2. CASE inner = <<>>
      BY <3>2 DEF ToSet
    <3>3. QED
      BY <2>2, <3>1, <3>2
  <2> DEFINE one == <<c>>
             T == {a, b, c}
  <2>5. one \o inner \in Seq(T) /\ ToSet(one \o inner) = ToSet(one) \cup ToSet(inner)
    <3>1. one \in Seq(T) /\ inner \in Seq(T)
      BY <2>3, <2>4
    <3> HIDE DEF one, T
    <3>2. QED
      BY ONLY <3>1, ConcatFacts
  <2>6. Do(one \o inner)
    BY <1>7 DEF inner, c
  <2>7. \A x \in ToSet(one \o inner) : x \in {a, b, c}
    BY <2>3, <2>4, <2>5
  <2>8. Pays(f) => Pays(c)
    BY <1>7 DEF Pays, Handler, Call, c, n, e
  <2>9. c \in ToSet(one \o inner)
    BY <2>3, <2>5
  <2> HIDE DEF T, one
  <2>10. QED
    BY <1>5, <1>7, <2>1, <2>5, <2>6, <2>7, <2>8, <2>9
<1>8. QED
  BY <1>3, <1>6, <1>7

-----------------------------------------------------------------------------
(* The handlers *)

LEMMA VendEventFields ==
  ASSUME NEW e \in VendEvents
  PROVE  /\ e.type = "load_goods" => e.product \in Products /\ e.amount \in Amounts
         /\ e.type = "money" => e.amount \in Coins
         /\ e.type = "set_price" => e.product \in Products /\ e.price \in Prices
<1>1. CASE e \in Signals
  <2>1. e.type \in {"power_on", "power_off", "end_maintenance", "withdraw_money", "load_done"}
    BY <1>1 DEF Signals
  <2>2. QED
    BY <2>1
<1>2. CASE e \in [type : {"start_maintenance"}, secret : Codes]
  BY <1>2
<1>3. CASE e \in [type : {"load_goods"}, product : Products, amount : Amounts]
  BY <1>3
<1>4. CASE e \in [type : {"set_price"}, product : Products, price : Prices]
  BY <1>4
<1>5. CASE e \in [type : {"money"}, amount : Coins]
  BY <1>5
<1>6. CASE e \in [type : {"select_item"}, product : Products]
  BY <1>6
<1>7. \/ e \in Signals
      \/ e \in [type : {"start_maintenance"}, secret : Codes]
      \/ e \in [type : {"load_goods"}, product : Products, amount : Amounts]
      \/ e \in [type : {"set_price"}, product : Products, price : Prices]
      \/ e \in [type : {"money"}, amount : Coins]
      \/ e \in [type : {"select_item"}, product : Products]
  BY DEF VendEvents
<1>8. QED
  BY <1>1, <1>2, <1>3, <1>4, <1>5, <1>6, <1>7

LEMMA EventFields ==
  ASSUME NEW e \in Events \cup {None}
  PROVE  /\ Kind(e) = "load_goods" => e.product \in Products /\ e.amount \in Int
         /\ Kind(e) = "money" => e.amount \in Int
         /\ Kind(e) = "set_price" => e.product \in Products /\ e.price \in Int
<1>1. CASE e = None
  BY <1>1, MachineAssumption DEF Kind
<1>2. CASE e \in VendEvents /\ e # None
  <2>1. Kind(e) = e.type
    BY <1>2, MachineAssumption DEF Kind, VendTypeOf
  <2>2. Amounts \subseteq Int /\ Prices \subseteq Int /\ Coins \subseteq Int
    BY VendingAssumption
  <2>3. QED
    BY <1>2, <2>1, <2>2, VendEventFields
<1>3. QED
  BY <1>1, <1>2, MachineAssumption

\* The data of the machine; no handler changes its secret.
Data(goods, balance, credit, inserted, sold, paid, unpriced) ==
    [goods |-> goods, balance |-> balance, secret |-> Code, credit |-> credit,
     inserted |-> inserted, sold |-> sold, paid |-> paid, unpriced |-> unpriced]

LEMMA DataFields ==
  ASSUME NEW d, DataOK(d)
  PROVE  /\ d.balance \in Int /\ d.credit \in Int /\ d.inserted \in Int /\ d.sold \in Int
         /\ d.paid \in BOOLEAN /\ d.unpriced \in BOOLEAN
         /\ d.goods \in [DOMAIN d.goods -> [amount : Int, price : Int]]
         /\ DOMAIN d.goods \subseteq Products
BY DEF DataOK, AreGoods

LEMMA AddGoodsFacts ==
  ASSUME NEW d, DataOK(d), NEW e, e.product \in Products, e.amount \in Int
  PROVE  /\ DataOK(AddGoods(d, e))
         /\ AddGoods(d, e).sold = d.sold /\ AddGoods(d, e).paid = d.paid
<1> DEFINE p == e.product
           D == DOMAIN d.goods
           New(goods) == Data(goods, d.balance, d.credit, d.inserted, d.sold, d.paid, FALSE)
<1>1. /\ d.goods \in [D -> [amount : Int, price : Int]] /\ D \subseteq Products
  BY DataFields
<1>2. ASSUME NEW goods, AreGoods(goods, Int, Int), AddGoods(d, e) = New(goods)
      PROVE  /\ DataOK(AddGoods(d, e))
             /\ AddGoods(d, e).sold = d.sold /\ AddGoods(d, e).paid = d.paid
  BY <1>2 DEF Data, DataOK
<1>3. CASE p \in D
  <2> DEFINE goods == [d.goods EXCEPT ![p].amount = @ + e.amount]
  <2>1. AreGoods(goods, Int, Int)
    BY <1>1, <1>3 DEF AreGoods
  <2>2. AddGoods(d, e) = New(goods)
    BY <1>1, <1>3 DEF AddGoods, DataOK, Data
  <2> HIDE DEF goods, New
  <2>3. QED
    BY <1>2, <2>1, <2>2
<1>4. CASE p \notin D
  <2> DEFINE goods == [q \in D \cup {p} |->
                          IF q \in D THEN d.goods[q] ELSE [amount |-> e.amount, price |-> 0]]
  <2>1. AreGoods(goods, Int, Int)
    BY <1>1, <1>4 DEF AreGoods
  <2>2. AddGoods(d, e) = New(goods)
    BY <1>1, <1>4 DEF AddGoods, DataOK, Data
  <2> HIDE DEF goods, New
  <2>3. QED
    BY <1>2, <2>1, <2>2
<1>5. QED
  BY <1>3, <1>4

LEMMA SetPriceFacts ==
  ASSUME NEW d, DataOK(d), NEW e, e.price \in Int
  PROVE  /\ DataOK(SetPrice(d, e))
         /\ SetPrice(d, e).sold = d.sold /\ SetPrice(d, e).paid = d.paid
<1> DEFINE p == e.product
           D == DOMAIN d.goods
           goods == [d.goods EXCEPT ![p].price = e.price]
           new == Data(goods, d.balance, d.credit, d.inserted, d.sold, d.paid, FALSE)
<1>1. /\ d.goods \in [D -> [amount : Int, price : Int]] /\ D \subseteq Products
  BY DataFields
<1>2. CASE p \in D
  <2>1. AreGoods(goods, Int, Int)
    BY <1>1, <1>2 DEF AreGoods
  <2>2. SetPrice(d, e) = new
    BY <1>1, <1>2 DEF SetPrice, DataOK, Data
  <2> HIDE DEF goods
  <2>3. DataOK(new) /\ new.sold = d.sold /\ new.paid = d.paid
    BY <2>1 DEF Data, DataOK
  <2>4. QED
    BY <2>2, <2>3
<1>3. QED
  BY <1>2 DEF SetPrice

\* A sale takes an item and a coin, and leaves the prices alone.
LEMMA DispenseFacts ==
  ASSUME NEW d, DataOK(d), NEW e
  PROVE  LET after == DispenseProduct(d, e) IN
         /\ DataOK(after) /\ after.unpriced = d.unpriced
         /\ DOMAIN after.goods = DOMAIN d.goods
         /\ \A q \in DOMAIN d.goods : after.goods[q].price = d.goods[q].price
<1> DEFINE p == e.product
           D == DOMAIN d.goods
           goods == [d.goods EXCEPT ![p].amount = @ - 1]
           balance == d.balance + d.goods[p].price
           sold == d.sold + 1
           new == Data(goods, balance, d.credit, d.inserted, sold, FALSE, d.unpriced)
<1>1. /\ d.goods \in [D -> [amount : Int, price : Int]] /\ D \subseteq Products
      /\ d.balance \in Int /\ d.sold \in Int
  BY DataFields
<1>2. CASE p \in D /\ d.goods[p].amount > 0
  <2>1. AreGoods(goods, Int, Int)
    BY <1>1, <1>2 DEF AreGoods
  <2>2. DOMAIN goods = D /\ \A q \in D : goods[q].price = d.goods[q].price
    BY <1>1, <1>2
  <2>3. balance \in Int /\ sold \in Int
    BY <1>1, <1>2
  <2>4. DispenseProduct(d, e) = new
    <3>1. DispenseProduct(d, e) =
            [d EXCEPT !.goods = goods, !.balance = balance, !.sold = sold, !.paid = FALSE]
      BY <1>1, <1>2 DEF DispenseProduct, DataOK
    <3> HIDE DEF goods, balance, sold
    <3>2. QED
      BY <3>1 DEF DataOK, Data
  <2> HIDE DEF goods, balance, sold
  <2>5. DataOK(new) /\ new.unpriced = d.unpriced /\ new.goods = goods
    BY <2>1, <2>3 DEF Data, DataOK
  <2>6. QED
    BY <2>2, <2>4, <2>5
<1>3. CASE ~(p \in D /\ d.goods[p].amount > 0)
  BY <1>3 DEF DispenseProduct
<1>4. QED
  BY <1>2, <1>3

LEMMA EnterActiveFacts ==
  ASSUME NEW d, DataOK(d), NEW e, e.amount \in Int
  PROVE  LET after == EnterActive(d, e) IN
         /\ DataOK(after) /\ after.goods = d.goods /\ after.unpriced = d.unpriced
         /\ after.sold = d.sold /\ after.paid = TRUE
<1> DEFINE credit == d.credit + e.amount
           inserted == d.inserted + e.amount
           new == Data(d.goods, d.balance, credit, inserted, d.sold, TRUE, d.unpriced)
<1>1. credit \in Int /\ inserted \in Int /\ AreGoods(d.goods, Int, Int)
  BY DEF DataOK
<1>2. EnterActive(d, e) = new
  <2>1. EnterActive(d, e) = [d EXCEPT !.credit = credit, !.inserted = inserted, !.paid = TRUE]
    BY DEF EnterActive
  <2> HIDE DEF credit, inserted
  <2>2. QED
    BY <2>1 DEF DataOK, Data
<1> HIDE DEF credit, inserted
<1>3. QED
  BY <1>1, <1>2 DEF Data, DataOK

\* Only a sale changes what has been sold; a coin is taken for it, and only money
\* in `active` brings another.
LEMMA VendHandlerFacts ==
  ASSUME NEW h, NEW e \in Events \cup {None}, NEW d, DataOK(d),
         h = <<"internal", "maintenance", 1>> => Kind(e) = "set_price"
  PROVE  LET after == VendHandler(h, e, d) IN
         /\ DataOK(after)
         /\ h # <<"action", "serving", 3>> => after.sold = d.sold
         /\ h # <<"action", "serving", 3>> /\ d.paid => after.paid
         /\ h = <<"enter", "active", 0>> /\ Kind(e) = "money" => after.paid
         /\ h[1] = "exit" => after = d
<1> DEFINE after == VendHandler(h, e, d)
<1>1. CASE h = <<"enter", "loading", 0>> /\ Kind(e) = "load_goods"
  <2>1. after = AddGoods(d, e)
    BY <1>1 DEF VendHandler
  <2>2. QED
    BY <1>1, <2>1, EventFields, AddGoodsFacts
<1>2. CASE h = <<"enter", "active", 0>> /\ Kind(e) = "money"
  <2>1. after = EnterActive(d, e)
    BY <1>2 DEF VendHandler
  <2>2. e.amount \in Int
    BY <1>2, EventFields
  <2> HIDE DEF after
  <2>3. DataOK(after) /\ after.sold = d.sold /\ after.paid = TRUE
    BY <2>1, <2>2, EnterActiveFacts
  <2>4. QED
    BY <1>2, <2>3 DEF after
<1>3. CASE h = <<"action", "serving", 3>>
  <2>1. after = DispenseProduct(d, e)
    BY <1>3 DEF VendHandler
  <2>2. DataOK(after)
    BY <2>1, DispenseFacts
  <2>3. QED
    BY <1>3, <2>2
<1>4. CASE h = <<"internal", "maintenance", 1>>
  <2>1. after = SetPrice(d, e)
    BY <1>4 DEF VendHandler
  <2>2. QED
    BY <1>4, <2>1, EventFields, SetPriceFacts
<1>5. CASE /\ ~(h = <<"enter", "loading", 0>> /\ Kind(e) = "load_goods")
           /\ ~(h = <<"enter", "active", 0>> /\ Kind(e) = "money")
           /\ h # <<"action", "serving", 3>> /\ h # <<"internal", "maintenance", 1>>
  BY <1>5 DEF VendHandler
<1>6. QED
  BY <1>1, <1>2, <1>3, <1>4, <1>5

LEMMA RunHandlerSale ==
  ASSUME Programmed, TypeOK, StackInv, SaleInv, RunHandler
  PROVE  /\ SaleInv'
         /\ facts'.sold # facts.sold => Sells(Head(todo))
<1> DEFINE f == Head(todo)
           h == Handler(f)
           after == VendHandler(h, f.event, facts)
<1>1. /\ todo # <<>> /\ f.op = "call" /\ ~throwing /\ ~throwing'
      /\ facts' = after /\ Do(<<>>)
  BY DEF RunHandler, Doing, Programmed, VendEffects
<1>2. f \in Frame /\ f.event \in Events \cup {None} /\ todo \in Seq(Frame)
  BY <1>1, TailFacts, FrameFields DEF TypeOK
<1>3. Carried(todo) /\ Agreed(todo, facts) /\ DataOK(facts)
  BY DEF SaleInv
<1>4. 1 \in DOMAIN todo /\ f = todo[1]
  BY <1>1, <1>2, TailFacts
<1>5. h = <<"internal", "maintenance", 1>> => Kind(f.event) = "set_price"
  BY <1>1, <1>3, <1>4 DEF Carried, SetsPrice
<1>6. /\ DataOK(after)
      /\ h # <<"action", "serving", 3>> => after.sold = facts.sold
      /\ h[1] = "exit" => after = facts
  BY <1>2, <1>3, <1>5, VendHandlerFacts
<1> HIDE DEF after, h
<1>7. ASSUME NEW j \in DOMAIN todo, Sells(todo[j]), j # 1
      PROVE  after = facts
  <2>1. j \in Nat /\ j > 1
    BY <1>2, <1>7
  <2>2. 1 \in 1..(j - 1)
    BY <2>1
  <2>3. Leaves(f)
    BY <1>3, <1>4, <1>7, <2>2 DEF Agreed
  <2>4. h[1] = "exit"
    BY <1>1, <2>3 DEF Leaves, Handler, h
  <2>5. QED
    BY <1>6, <2>4
<1> DEFINE rest == <<>> \o Tail(todo)
<1>8. Carried(rest) /\ Agreed(rest, facts)
  <2>1. <<>> \in Seq({}) /\ Carried(<<>>) /\ Agreed(<<>>, facts) /\ \A i \in DOMAIN <<>> : Leaves(<<>>[i])
    BY DEF Carried, Agreed
  <2>2. QED
    BY ONLY <1>1, <1>2, <1>3, <2>1, SaleDo
<1>9. Agreed(rest, after)
  <2>1. ASSUME NEW j \in DOMAIN rest, Sells(rest[j])
        PROVE  after = facts
    <3>1. /\ Len(todo) \in Nat \ {0} /\ DOMAIN todo = 1..Len(todo)
          /\ DOMAIN rest = 1..(0 + (Len(todo) - 1))
          /\ \A i \in 2..Len(todo) : rest[0 + (i - 1)] = todo[i]
      <4>1. <<>> \in Seq({}) /\ Len(<<>>) = 0
        OBVIOUS
      <4>2. QED
        BY <1>1, <1>2, <4>1, DoStack
    <3>2. j + 1 \in 2..Len(todo) /\ 0 + ((j + 1) - 1) = j
      BY <2>1, <3>1
    <3>3. rest[j] = todo[j + 1] /\ j + 1 \in DOMAIN todo /\ j + 1 # 1
      BY <3>1, <3>2
    <3>4. QED
      BY <1>7, <2>1, <3>3
  <2>2. QED
    BY <1>8, <2>1 DEF Agreed
<1>10. SaleInv'
  BY <1>1, <1>6, <1>8, <1>9 DEF SaleInv, Do
<1>11. facts'.sold # facts.sold => Sells(f)
  BY <1>1, <1>6 DEF Sells, h
<1>12. QED
  BY <1>10, <1>11

LEMMA NextSale ==
  ASSUME Programmed, TypeOK, StackInv, SaleInv, [VendNext]_vars
  PROVE  /\ SaleInv'
         /\ facts'.sold # facts.sold => RunHandler /\ Sells(Head(todo))
<1>1. Throwing = {} /\ ~throwing
  BY MachineAssumption DEF NeverThrows, SaleInv
<1>2. CASE \E e \in Events : Receive(e)
  BY <1>2, ReceiveSale DEF Receive
<1>3. CASE \/ Dispatch \/ NextRegion \/ NoMoreRows \/ Settle \/ CheckDefault \/ GiveAnswer
           \/ ClearSource \/ CompleteTransition \/ LeaveTry
  <2>1. facts' = facts
    BY <1>3 DEF Dispatch, NextRegion, NoMoreRows, Settle, CheckDefault, GiveAnswer, ClearSource,
       CompleteTransition, LeaveTry, program
  <2>2. QED
    BY <1>3, <2>1, QuietSale
<1>4. CASE TestRow
  BY <1>4, TestRowSale DEF TestRow, program
<1>5. CASE TestInternalRow
  BY <1>5, TestInternalRowSale DEF TestInternalRow, program
<1>6. CASE ExitOrEnter
  BY <1>6, ExitOrEnterSale DEF ExitOrEnter, program
<1>7. CASE RunHandler
  BY <1>7, RunHandlerSale
<1>8. ~HandlerThrows /\ ~GuardThrows /\ ~Escape /\ ~Catch
  BY <1>1 DEF HandlerThrows, GuardThrows, Escape, Catch
<1>9. CASE UNCHANGED vars
  BY <1>9 DEF vars, program, control, SaleInv
<1>10. QED
  BY <1>2, <1>3, <1>4, <1>5, <1>6, <1>7, <1>8, <1>9 DEF VendNext, Step, Stuck

LEMMA InitSale ==
  ASSUME Init
  PROVE  SaleInv
<1>1. PICK stock \in Stocks :
        facts = Data(stock, 0, 0, 0, 0, FALSE, \E p \in DOMAIN stock : stock[p].price <= 0)
  BY MachineAssumption DEF Init, VendFacts, Data
<1>2. AreGoods(stock, Int, Int)
  BY VendingAssumption
<1>3. DataOK(facts)
  <2> DEFINE unpriced == \E p \in DOMAIN stock : stock[p].price <= 0
  <2>1. unpriced \in BOOLEAN
    OBVIOUS
  <2>2. facts = Data(stock, 0, 0, 0, 0, FALSE, unpriced)
    BY <1>1
  <2> HIDE DEF unpriced
  <2>3. QED
    BY <1>2, <2>1, <2>2 DEF Data, DataOK
<1>4. todo = <<>> /\ ~throwing
  BY DEF Init
<1>5. QED
  BY <1>3, <1>4 DEF SaleInv, Carried, Agreed

LEMMA IsStateTree == VendSpec => Spec
<1>1. [VendNext]_vars => [Next]_vars
  BY DEF VendNext, Next
<1>2. QED
  BY <1>1, PTL DEF VendSpec, Spec

-----------------------------------------------------------------------------
(* Prices: what a call puts in its place *)

LEMMA AsksPut ==
  ASSUME NEW s \in Seq(Frame), NEW k \in DOMAIN s, NEW ops \in Seq(Frame), NEW r, Put(r, ops, s, k)
  PROVE  /\ \A i \in DOMAIN s : i >= k /\ AsksAfter(s, i) => AsksAfter(r, Len(ops) + (i - k))
         /\ \A j \in 0..Len(ops) : AsksAfter(s, k) \/ AsksAfter(ops, j) => AsksAfter(r, j)
<1> DEFINE n == Len(ops)
<1>1. /\ n \in Nat /\ DOMAIN ops = 1..n /\ DOMAIN s \subseteq Nat \ {0}
      /\ \A j \in DOMAIN ops : j \in DOMAIN r /\ r[j] = ops[j]
      /\ \A i \in DOMAIN s : i > k => n + (i - k) \in DOMAIN r /\ r[n + (i - k)] = s[i]
  BY PutCalls
<1> HIDE DEF n
<1>2. ASSUME NEW i \in DOMAIN s, i >= k, AsksAfter(s, i)
      PROVE  AsksAfter(r, n + (i - k))
  <2>1. PICK j \in DOMAIN s : j > i /\ Asks(s[j])
    BY <1>2 DEF AsksAfter
  <2>2. j > k /\ n + (j - k) > n + (i - k)
    BY <1>1, <1>2, <2>1
  <2>3. QED
    BY <1>1, <2>1, <2>2 DEF AsksAfter
<1>3. ASSUME NEW j \in 0..n, AsksAfter(s, k)
      PROVE  AsksAfter(r, j)
  <2>1. PICK i \in DOMAIN s : i > k /\ Asks(s[i])
    BY <1>3 DEF AsksAfter
  <2>2. n + (i - k) > j
    BY <1>1, <2>1
  <2>3. QED
    BY <1>1, <2>1, <2>2 DEF AsksAfter
<1>4. ASSUME NEW j \in 0..n, AsksAfter(ops, j)
      PROVE  AsksAfter(r, j)
  BY <1>1, <1>4 DEF AsksAfter
<1>5. QED
  BY <1>2, <1>3, <1>4 DEF n

\* Whether `on` settles after the j-th of the calls that take the first one's place.
SettlesThen(ops, s, j) == SettlesNext(ops, j) \/ (j = Len(ops) /\ SettlesNext(s, 1))

LEMMA SettlesPut ==
  ASSUME NEW s \in Seq(Frame), 1 \in DOMAIN s, NEW ops \in Seq(Frame), NEW r, Put(r, ops, s, 1)
  PROVE  /\ \A i \in DOMAIN s : i > 1 /\ SettlesNext(s, i) => SettlesNext(r, Len(ops) + (i - 1))
         /\ \A j \in 0..Len(ops) : SettlesThen(ops, s, j) => SettlesNext(r, j)
<1> DEFINE n == Len(ops)
<1>1. /\ n \in Nat /\ DOMAIN ops = 1..n /\ DOMAIN s \subseteq Nat \ {0}
      /\ \A j \in DOMAIN ops : j \in DOMAIN r /\ r[j] = ops[j]
      /\ \A i \in DOMAIN s : i > 1 => n + (i - 1) \in DOMAIN r /\ r[n + (i - 1)] = s[i]
  BY PutCalls
<1> HIDE DEF n
<1>2. ASSUME NEW i \in DOMAIN s, i >= 1, SettlesNext(s, i)
      PROVE  SettlesNext(r, n + (i - 1))
  <2>1. i + 1 \in DOMAIN s /\ i + 1 > 1 /\ n + ((i + 1) - 1) = (n + (i - 1)) + 1
    BY <1>1, <1>2 DEF SettlesNext
  <2>2. r[(n + (i - 1)) + 1] = s[i + 1] /\ (n + (i - 1)) + 1 \in DOMAIN r
    BY <1>1, <2>1
  <2>3. QED
    BY <1>2, <2>2 DEF SettlesNext
<1>3. ASSUME NEW j \in 0..n, SettlesNext(ops, j)
      PROVE  SettlesNext(r, j)
  BY <1>1, <1>3 DEF SettlesNext
<1>4. SettlesNext(s, 1) => SettlesNext(r, n)
  <2>1. n + (1 - 1) = n /\ 1 >= 1
    BY <1>1
  <2>2. QED
    BY <1>2, <2>1
<1>5. \A i \in DOMAIN s : i > 1 => i >= 1
  BY <1>1
<1>6. QED
  BY <1>2, <1>3, <1>4, <1>5 DEF n, SettlesThen

LEMMA InPlacePut ==
  ASSUME NEW s \in Seq(Frame), 1 \in DOMAIN s, NEW ops \in Seq(Frame), NEW r, Put(r, ops, s, 1),
         NEW state, InPlace(s, state),
         \A i \in DOMAIN ops :
             /\ Upkeep(ops[i]) => state = "maintenance" /\ (AsksAfter(s, 1) \/ AsksAfter(ops, i))
             /\ Trade(ops[i]) => state = "serving"
             /\ Asks(ops[i]) => SettlesThen(ops, s, i)
  PROVE  InPlace(r, state)
<1>1. /\ Len(ops) \in Nat /\ DOMAIN ops = 1..Len(ops) /\ DOMAIN s \subseteq Nat \ {0}
      /\ \A j \in DOMAIN r :
            \/ j \in DOMAIN ops /\ r[j] = ops[j]
            \/ \E i \in DOMAIN s : i > 1 /\ j = Len(ops) + (i - 1) /\ r[j] = s[i]
  BY PutCalls
<1>2. /\ \A i \in DOMAIN s : i >= 1 /\ AsksAfter(s, i) => AsksAfter(r, Len(ops) + (i - 1))
      /\ \A j \in 0..Len(ops) : AsksAfter(s, 1) \/ AsksAfter(ops, j) => AsksAfter(r, j)
  BY AsksPut
<1>3. /\ \A i \in DOMAIN s : i > 1 /\ SettlesNext(s, i) => SettlesNext(r, Len(ops) + (i - 1))
      /\ \A j \in 0..Len(ops) : SettlesThen(ops, s, j) => SettlesNext(r, j)
  BY SettlesPut
<1>4. ASSUME NEW j \in DOMAIN r
      PROVE  /\ Upkeep(r[j]) => state = "maintenance" /\ AsksAfter(r, j)
             /\ Trade(r[j]) => state = "serving"
             /\ Asks(r[j]) => SettlesNext(r, j)
  <2>1. CASE j \in DOMAIN ops /\ r[j] = ops[j]
    <3>1. j \in 0..Len(ops)
      BY <1>1, <2>1
    <3>2. QED
      BY <1>2, <1>3, <2>1, <3>1
  <2>2. ASSUME NEW i \in DOMAIN s, i > 1, j = Len(ops) + (i - 1), r[j] = s[i]
        PROVE  /\ Upkeep(r[j]) => state = "maintenance" /\ AsksAfter(r, j)
               /\ Trade(r[j]) => state = "serving"
               /\ Asks(r[j]) => SettlesNext(r, j)
    <3>1. i >= 1
      BY <1>1, <2>2
    <3>2. QED
      BY <1>2, <1>3, <2>2, <3>1 DEF InPlace
  <2>3. QED
    BY <1>1, <2>1, <2>2
<1>5. QED
  BY <1>4 DEF InPlace

LEMMA AllowedPut ==
  ASSUME NEW s \in Seq(Frame), 1 \in DOMAIN s, NEW ops \in Seq(Frame), NEW r, Put(r, ops, s, 1),
         NEW d, Allowed(s, d),
         \A i \in DOMAIN ops : Enters(ops[i]) =>
             \/ Priced(d) \/ ops[i].to = "maintenance"
             \/ IsEmpty(d) /\ (ops[i].to = "out_of_service" \/ SettlesThen(ops, s, i))
  PROVE  Allowed(r, d)
<1>1. /\ Len(ops) \in Nat /\ DOMAIN ops = 1..Len(ops)
      /\ \A j \in DOMAIN r :
            \/ j \in DOMAIN ops /\ r[j] = ops[j]
            \/ \E i \in DOMAIN s : i > 1 /\ j = Len(ops) + (i - 1) /\ r[j] = s[i]
  BY PutCalls
<1>2. /\ \A i \in DOMAIN s : i > 1 /\ SettlesNext(s, i) => SettlesNext(r, Len(ops) + (i - 1))
      /\ \A j \in 0..Len(ops) : SettlesThen(ops, s, j) => SettlesNext(r, j)
  BY SettlesPut
<1>3. ASSUME NEW j \in DOMAIN r, Enters(r[j])
      PROVE  \/ Priced(d) \/ r[j].to = "maintenance"
             \/ IsEmpty(d) /\ (r[j].to = "out_of_service" \/ SettlesNext(r, j))
  <2>1. CASE j \in DOMAIN ops /\ r[j] = ops[j]
    <3>1. j \in 0..Len(ops)
      BY <1>1, <2>1
    <3>2. QED
      BY <1>2, <1>3, <2>1, <3>1
  <2>2. ASSUME NEW i \in DOMAIN s, i > 1, j = Len(ops) + (i - 1), r[j] = s[i]
        PROVE  \/ Priced(d) \/ r[j].to = "maintenance"
               \/ IsEmpty(d) /\ (r[j].to = "out_of_service" \/ SettlesNext(r, j))
    BY <1>2, <1>3, <2>2 DEF Allowed
  <2>3. QED
    BY <1>1, <2>1, <2>2
<1>4. QED
  BY <1>3 DEF Allowed

LEMMA TendedPut ==
  ASSUME NEW s \in Seq(Frame), 1 \in DOMAIN s, NEW ops \in Seq(Frame), NEW r, Put(r, ops, s, 1),
         NEW state, NEW d, NEW a, NEW b, Tended(s, a, state, d), ~Enters(s[1]), r \in Seq(Frame),
         Closes(s[1], a) /\ IsEmpty(d) /\ state = "serving" =>
             \/ Priced(d)
             \/ ops # <<>> /\ Closes(ops[1], b)
             \/ \E i \in DOMAIN ops : Enters(ops[i]) /\ ops[i].to = "out_of_service"
  PROVE  Tended(r, b, state, d)
<1>1. /\ Len(ops) \in Nat /\ DOMAIN ops = 1..Len(ops) /\ DOMAIN s \subseteq Nat \ {0}
      /\ \A j \in DOMAIN ops : j \in DOMAIN r /\ r[j] = ops[j]
      /\ \A i \in DOMAIN s : i > 1 => Len(ops) + (i - 1) \in DOMAIN r /\ r[Len(ops) + (i - 1)] = s[i]
  BY PutCalls
<1>2. SUFFICES ASSUME ~Priced(d), IsEmpty(d), state = "serving", Closing(s, a)
               PROVE  Closing(r, b)
  BY DEF Tended
<1>3. CASE Closes(s[1], a)
  <2>1. CASE ops # <<>> /\ Closes(ops[1], b)
    <3>1. 1 \in DOMAIN ops
      BY <2>1
    <3>2. 1 \in DOMAIN r /\ r[1] = ops[1]
      BY <1>1, <3>1
    <3>3. r # <<>> /\ Head(r) = ops[1]
      BY <3>2
    <3>4. QED
      BY <2>1, <3>3 DEF Closing
  <2>2. CASE \E i \in DOMAIN ops : Enters(ops[i]) /\ ops[i].to = "out_of_service"
    BY <1>1, <2>2 DEF Closing
  <2>3. QED
    BY <1>2, <1>3, <2>1, <2>2
<1>4. CASE \E j \in DOMAIN s : Enters(s[j]) /\ s[j].to = "out_of_service"
  <2>1. PICK j \in DOMAIN s : Enters(s[j]) /\ s[j].to = "out_of_service"
    BY <1>4
  <2>2. j > 1
    BY <1>1, <2>1
  <2>3. QED
    BY <1>1, <2>1, <2>2 DEF Closing
<1>5. Head(s) = s[1]
  OBVIOUS
<1>6. QED
  BY <1>2, <1>3, <1>4, <1>5 DEF Closing

\* A call is replaced by others, which do not sell, load or price anything unless
\* it was such a call.
LEMMA PriceDo ==
  ASSUME TypeOK, StackInv, PriceInv, todo # <<>>,
         NEW ops \in Seq(Frame), Do(ops), start' = start, current'["on"] = current["on"],
         facts' = facts, ~Enters(Head(todo)),
         \A i \in DOMAIN ops :
             /\ Upkeep(ops[i]) => Begun["on"] = "maintenance" /\ (AsksAfter(todo, 1) \/ AsksAfter(ops, i))
             /\ Trade(ops[i]) => Begun["on"] = "serving"
             /\ Asks(ops[i]) => SettlesThen(ops, todo, i)
             /\ Enters(ops[i]) =>
                   \/ Priced(facts) \/ ops[i].to = "maintenance"
                   \/ IsEmpty(facts) /\ (ops[i].to = "out_of_service" \/ SettlesThen(ops, todo, i)),
         Closes(Head(todo), res) /\ IsEmpty(facts) /\ current["on"] = "serving" =>
             \/ Priced(facts)
             \/ ops # <<>> /\ Closes(ops[1], res')
             \/ \E i \in DOMAIN ops : Enters(ops[i]) /\ ops[i].to = "out_of_service"
  PROVE  PriceInv'
<1>1. /\ todo \in Seq(Frame) /\ InPlace(todo, Begun["on"]) /\ Allowed(todo, facts)
      /\ Tended(todo, res, current["on"], facts)
  BY FirstCall DEF PriceInv, Begun
<1>2. /\ Put(todo', ops, todo, 1) /\ 1 \in DOMAIN todo /\ Head(todo) = todo[1]
      /\ todo' \in Seq(Frame)
  <2>1. Tail(todo) \in Seq(Frame)
    BY <1>1, TailFacts
  <2>2. ops \o Tail(todo) \in Seq(Frame)
    BY <2>1
  <2>3. QED
    BY <1>1, <2>2, PutFirst DEF Do
<1>3. InPlace(todo', Begun["on"])
  BY <1>1, <1>2, InPlacePut
<1>4. Allowed(todo', facts)
  BY <1>1, <1>2, AllowedPut
<1>5. Tended(todo', res', current["on"], facts)
  BY <1>1, <1>2, TendedPut
<1>6. Begun["on"] = "serving" => Priced(facts)
  BY DEF PriceInv, Begun
<1>7. QED
  BY <1>3, <1>4, <1>5, <1>6 DEF PriceInv, Begun

\* A call with which nothing can be loaded, priced, sold or closed.
Idle(f) == ~Upkeep(f) /\ ~Trade(f) /\ ~Asks(f) /\ ~Enters(f)

LEMMA IdleDo ==
  ASSUME TypeOK, StackInv, PriceInv, todo # <<>>,
         NEW ops \in Seq(Frame), Do(ops), start' = start, current'["on"] = current["on"],
         facts' = facts, ~Enters(Head(todo)), \A i \in DOMAIN ops : Idle(ops[i]),
         Closes(Head(todo), res) => ops # <<>> /\ Closes(ops[1], res')
  PROVE  PriceInv'
BY PriceDo DEF Idle

LEMMA PriceNone ==
  ASSUME TypeOK, StackInv, PriceInv, todo # <<>>, Do(<<>>), start' = start,
         current'["on"] = current["on"], facts' = facts, ~Enters(Head(todo)),
         ~Closes(Head(todo), res)
  PROVE  PriceInv'
<1>1. <<>> \in Seq(Frame) /\ DOMAIN <<>> = {}
  OBVIOUS
<1>2. QED
  BY <1>1, IdleDo

\* What the first call is allowed to do.
LEMMA FirstPriced ==
  ASSUME TypeOK, StackInv, PriceInv, todo # <<>>
  PROVE  /\ Upkeep(Head(todo)) => Begun["on"] = "maintenance" /\ AsksAfter(todo, 1)
         /\ Trade(Head(todo)) => Begun["on"] = "serving"
         /\ Asks(Head(todo)) => SettlesNext(todo, 1)
         /\ Enters(Head(todo)) =>
               \/ Priced(facts) \/ Head(todo).to = "maintenance"
               \/ IsEmpty(facts) /\ (Head(todo).to = "out_of_service" \/ SettlesNext(todo, 1))
         /\ Begun["on"] = "serving" => Priced(facts)
         /\ Tended(todo, res, current["on"], facts)
<1>1. 1 \in DOMAIN todo /\ Head(todo) = todo[1]
  BY FirstCall, TailFacts
<1>2. QED
  BY <1>1 DEF PriceInv, InPlace, Allowed, Begun

-----------------------------------------------------------------------------
(* Prices: the machine *)

LEMMA VendTree ==
  /\ Machines = {"vm", "on", "maintenance", "serving"} /\ Orthogonal = {}
  /\ {"vm", "on", "maintenance", "serving", "m_idle", "loading"} \subseteq States
  /\ \A n \in Machines : Guarantee[n] = "basic" /\ Initial[n] # "loading"
  /\ Children("on") \subseteq {"maintenance", "serving", "out_of_service"}
  /\ \A n : "maintenance" \in Children(n) \/ "serving" \in Children(n) => n = "on"
  /\ \A n : "loading" \in Children(n) => n = "maintenance"
  /\ "on" \in History /\ Root = "vm"
  /\ Up["on"] = {"on", "vm"}
<1>1. /\ Machines = {"vm", "on", "maintenance", "serving"} /\ Orthogonal = {}
      /\ {"vm", "on", "maintenance", "serving", "m_idle", "loading"} \subseteq States
      /\ "on" \in History /\ Root = "vm"
  BY MachineAssumption DEF Machines, Orthogonal, VendInitial, VendRegions, VendStates, VendParent,
     VendHistory
<1>2. \A n \in Machines : Guarantee[n] = "basic" /\ Initial[n] # "loading"
  BY MachineAssumption DEF Machines, VendGuarantee, VendInitial
<1>3. /\ Parent["on"] = "vm" /\ Parent["maintenance"] = "on" /\ Parent["serving"] = "on"
      /\ Parent["loading"] = "maintenance"
      /\ DOMAIN Parent = {"off", "on", "maintenance", "serving", "out_of_service", "m_idle", "loading",
                          "s_idle", "active"}
      /\ Parent["off"] = "vm" /\ Parent["m_idle"] = "maintenance" /\ Parent["s_idle"] = "serving"
      /\ Parent["active"] = "serving"
  BY MachineAssumption DEF VendParent
<1>4. /\ Children("on") \subseteq {"maintenance", "serving", "out_of_service"}
      /\ \A n : "maintenance" \in Children(n) \/ "serving" \in Children(n) => n = "on"
      /\ \A n : "loading" \in Children(n) => n = "maintenance"
  BY <1>3 DEF Children
<1>5. Up["on"] = {"on", "vm"}
  <2>1. "on" \in DOMAIN Parent
    BY <1>3
  <2>2. Up["on"] = {"on"} \cup Up[Parent["on"]]
    BY <2>1, UpStep
  <2>3. QED
    BY <1>1, <1>3, <2>2, UpRoot
<1>6. QED
  BY <1>1, <1>2, <1>4, <1>5

\* The rows that lead to where goods are loaded, and those of `on` and of a sale.
LEMMA VendRows ==
  /\ \A m \in Machines : \A i \in DOMAIN Table[m] :
        Table[m][i].to = "loading" => m = "maintenance" /\ Table[m][i].event # None
  /\ DOMAIN Table["on"] = 1..5 /\ Len(Table["on"]) = 5
  /\ Table["on"][1].from = "serving" /\ Table["on"][1].event = None
  /\ Table["on"][1].guard = "is_empty" /\ Table["on"][1].to = "out_of_service"
  /\ Table["on"][2].from = "out_of_service" /\ Table["on"][2].guard = "not_empty"
  /\ Table["on"][3].to = "maintenance" /\ Table["on"][4].to = "maintenance"
  /\ Table["on"][5].guard = "may_leave" /\ Table["on"][5].event # None
  /\ Table["serving"][3].event # None
<1>1. ASSUME NEW m \in Machines, NEW i \in DOMAIN Table[m], Table[m][i].to = "loading"
      PROVE  m = "maintenance" /\ Table[m][i].event # None
  <2>1. Table[m][i].to \in Children(m)
    BY TableAssumption
  <2>2. m = "maintenance"
    BY <1>1, <2>1, VendTree
  <2>3. Table[m] = <<tr("m_idle", "load_goods", "loading", "check_amount"),
                     tr("loading", "load_done", "m_idle", "none")>>
    BY <2>2, MachineAssumption DEF VendTable, MaintenanceRows
  <2>4. i = 1
    BY <1>1, <2>3 DEF tr
  <2>5. Table[m][1].event = "load_goods"
    BY <2>3 DEF tr
  <2>6. QED
    BY <2>2, <2>4, <2>5, MachineAssumption
<1>2. Table["on"] = OnRows /\ Table["serving"] = ServingRows
  BY MachineAssumption DEF VendTable
<1>3. "end_maintenance" # None
  <2> DEFINE e == [type |-> "end_maintenance"]
  <2>1. e \in Signals
    BY DEF Signals
  <2>2. e \in VendEvents
    BY <2>1 DEF VendEvents
  <2>3. VendTypeOf[e] = "end_maintenance"
    BY <2>2 DEF VendTypeOf
  <2>4. e \in DOMAIN TypeOf /\ TypeOf[e] = "end_maintenance"
    BY <2>2, <2>3, MachineAssumption DEF VendTypeOf
  <2>5. "end_maintenance" \in Range(TypeOf)
    BY <2>4 DEF Range
  <2>6. QED
    BY <2>5, TableAssumption
<1>4. Table["serving"][3].event = "select_item"
  BY <1>2 DEF ServingRows, tr
<1>5. "select_item" # None
  BY MachineAssumption
<1>6. /\ DOMAIN OnRows = 1..5 /\ Len(OnRows) = 5
      /\ OnRows[1] = tr("serving", None, "out_of_service", "is_empty")
      /\ OnRows[2] = tr("out_of_service", None, "serving", "not_empty")
      /\ OnRows[3] = tr("serving", "start_maintenance", "maintenance", "check_secret")
      /\ OnRows[4] = tr("out_of_service", "start_maintenance", "maintenance", "check_secret")
      /\ OnRows[5] = tr("maintenance", "end_maintenance", "serving", "may_leave")
  <2> DEFINE a == tr("serving", None, "out_of_service", "is_empty")
             b == tr("out_of_service", None, "serving", "not_empty")
             c == tr("serving", "start_maintenance", "maintenance", "check_secret")
             d == tr("out_of_service", "start_maintenance", "maintenance", "check_secret")
             f == tr("maintenance", "end_maintenance", "serving", "may_leave")
  <2>1. OnRows = <<a, b, c, d, f>>
    BY DEF OnRows
  <2> HIDE DEF a, b, c, d, f
  <2>2. QED
    BY <2>1 DEF a, b, c, d, f
<1>7. QED
  BY <1>1, <1>2, <1>3, <1>4, <1>5, <1>6 DEF tr

-----------------------------------------------------------------------------
(* Prices: the actions *)

LEMMA CallKinds ==
  ASSUME NEW n, NEW e, NEW i, NEW kind
  PROVE  /\ \A name \in {"settle", "default", "exit", "clear"} : Idle(Op(name, n, e))
         /\ ~Trade(Op("enter", n, e)) /\ ~Asks(Op("enter", n, e)) /\ ~Enters(Op("enter", n, e))
         /\ Upkeep(Op("enter", n, e)) <=> n = "loading"
         /\ Upkeep(Op("dispatch", n, e)) <=> n = "maintenance"
         /\ Trade(Op("dispatch", n, e)) <=> n = "serving"
         /\ ~Asks(Op("dispatch", n, e)) /\ ~Enters(Op("dispatch", n, e))
         /\ Upkeep(Rows(n, e, i)) <=> n = "maintenance" /\ e # None
         /\ Trade(Rows(n, e, i)) <=> n = "serving" /\ e # None
         /\ Asks(Rows(n, e, i)) <=> n = "on" /\ e # None
         /\ ~Enters(Rows(n, e, i))
         /\ Upkeep(InternalRows(n, i)) <=> n = "maintenance"
         /\ ~Trade(InternalRows(n, i)) /\ ~Asks(InternalRows(n, i)) /\ ~Enters(InternalRows(n, i))
         /\ Idle(Answer(n))
         /\ Enters(SetCurrent(n, e)) <=> n = "on"
         /\ ~Trade(SetCurrent(n, e)) /\ ~Asks(SetCurrent(n, e)) /\ ~Upkeep(SetCurrent(n, e))
<1> USE DEF Idle, Upkeep, Trade, Sells, Asks, Enters
<1>1. \A name \in {"settle", "default", "exit", "clear"} : Idle(Op(name, n, e))
  BY DEF Op
<1>2. /\ ~Trade(Op("enter", n, e)) /\ ~Asks(Op("enter", n, e)) /\ ~Enters(Op("enter", n, e))
      /\ Upkeep(Op("enter", n, e)) <=> n = "loading"
  BY DEF Op
<1>3. /\ Upkeep(Op("dispatch", n, e)) <=> n = "maintenance"
      /\ Trade(Op("dispatch", n, e)) <=> n = "serving"
      /\ ~Asks(Op("dispatch", n, e)) /\ ~Enters(Op("dispatch", n, e))
  BY DEF Op
<1>4. /\ Upkeep(Rows(n, e, i)) <=> n = "maintenance" /\ e # None
      /\ Trade(Rows(n, e, i)) <=> n = "serving" /\ e # None
      /\ Asks(Rows(n, e, i)) <=> n = "on" /\ e # None
      /\ ~Enters(Rows(n, e, i))
  BY DEF Rows
<1>5. /\ Upkeep(InternalRows(n, i)) <=> n = "maintenance"
      /\ ~Trade(InternalRows(n, i)) /\ ~Asks(InternalRows(n, i)) /\ ~Enters(InternalRows(n, i))
  BY DEF InternalRows
<1>6. Idle(Answer(n))
  BY DEF Answer
<1>7. /\ Enters(SetCurrent(n, e)) <=> n = "on"
      /\ ~Trade(SetCurrent(n, e)) /\ ~Asks(SetCurrent(n, e)) /\ ~Upkeep(SetCurrent(n, e))
  BY DEF SetCurrent
<1>8. QED
  BY <1>1, <1>2, <1>3, <1>4, <1>5, <1>6, <1>7

LEMMA HandlerKinds ==
  ASSUME NEW kind, NEW n, NEW i, NEW e
  PROVE  LET f == Call(kind, n, i, e) IN
         /\ ~Asks(f) /\ ~Enters(f)
         /\ Upkeep(f) <=> <<kind, n, i>> \in {<<"enter", "loading", 0>>, <<"internal", "maintenance", 1>>}
         /\ Trade(f) <=> <<kind, n, i>> = <<"action", "serving", 3>>
BY DEF Call, Handler, Upkeep, Trade, Sells, Asks, Enters

\* An action that leaves `on` and the goods alone.
Unchanged == start' = start /\ current'["on"] = current["on"] /\ facts' = facts

LEMMA DispatchPrice ==
  ASSUME TypeOK, StackInv, PriceInv, Dispatch
  PROVE  PriceInv'
<1> DEFINE f == Head(todo)
           n == f.of
<1>1. /\ todo # <<>> /\ f.op = "dispatch" /\ Unchanged /\ DispatchTo(n)
      /\ ~Enters(f) /\ ~Closes(f, res)
  BY DEF Dispatch, Doing, Unchanged, tree, program, history, Enters, Closes, Settles, Rows
<1>2. f \in Frame /\ event \in Events /\ event # None /\ Fits(f, event, current, Begun)
  BY <1>1, FirstCall
<1>3. n \in States
  BY <1>1, <1>2, FrameFields DEF OpNames
<1>4. /\ n = "maintenance" => Begun["on"] = "maintenance" /\ AsksAfter(todo, 1)
      /\ n = "serving" => Begun["on"] = "serving"
  BY <1>1, FirstPriced DEF Upkeep, Trade
<1>5. CASE Do(<<>>)
  BY <1>1, <1>5, PriceNone DEF Unchanged
<1>6. CASE n \in Machines /\ Do(MachineDispatch(n))
  <2> DEFINE a == Op("dispatch", current[n], event)
             b == Rows(n, event, 1)
             c == Op("settle", n, None)
             d == InternalRows(n, 1)
             ops == MachineDispatch(n)
  <2>1. /\ ops \in Seq(Frame) /\ DOMAIN ops = {1, 2, 3, 4} /\ Len(ops) = 4
        /\ ops[1] = a /\ ops[2] = b /\ ops[3] = c /\ ops[4] = d
    <3>1. ops \in Seq(Frame) /\ DOMAIN ops = {1, 2, 3, 4}
      BY <1>2, <1>6, MachineCalls
    <3>2. ops = <<a, b, c, d>>
      BY DEF MachineDispatch
    <3> HIDE DEF a, b, c, d, ops
    <3>3. QED
      BY <3>1, <3>2
  <2>2. Idle(c) /\ Settles(ops[3]) <=> n = "on"
    <3>1. Idle(c)
      BY CallKinds
    <3>2. Settles(c) <=> n = "on"
      BY DEF Op, Settles
    <3>3. QED
      BY <2>1, <3>1, <3>2
  <2>3. /\ Upkeep(a) => current[n] = "maintenance" /\ n = "on"
        /\ Trade(a) => current[n] = "serving" /\ n = "on"
        /\ ~Asks(a) /\ ~Enters(a)
    <3>1. current[n] \in Children(n)
      BY <1>6 DEF TypeOK
    <3>2. /\ Upkeep(a) <=> current[n] = "maintenance"
          /\ Trade(a) <=> current[n] = "serving"
          /\ ~Asks(a) /\ ~Enters(a)
      BY CallKinds
    <3>3. current[n] \in {"maintenance", "serving"} => n = "on"
      BY <3>1, VendTree
    <3> HIDE DEF a
    <3>4. QED
      BY <3>2, <3>3
  <2>4. n = "on" => Begun["on"] = current["on"]
    <3>1. "on" \in Below("on") \cap Machines
      BY VendTree, UpSelf
    <3>2. n = "on" => Same(Below("on"), current, Begun)
      BY <1>1, <1>2 DEF Fits, FitsDispatch, Relies
    <3>3. QED
      BY <3>1, <3>2 DEF Same
  <2>5. /\ Upkeep(b) => n = "maintenance"
        /\ Trade(b) => n = "serving"
        /\ Asks(b) <=> n = "on"
        /\ ~Enters(b)
    BY <1>2, CallKinds
  <2>6. /\ Upkeep(d) => n = "maintenance"
        /\ ~Trade(d) /\ ~Asks(d) /\ ~Enters(d)
    BY CallKinds
  <2> HIDE DEF a, b, c, d, ops
  <2>7. n = "on" => AsksAfter(ops, 1) /\ SettlesNext(ops, 2)
    BY <2>1, <2>2, <2>5 DEF AsksAfter, SettlesNext
  <2>8. ASSUME NEW i \in DOMAIN ops
        PROVE  /\ Upkeep(ops[i]) => Begun["on"] = "maintenance" /\ (AsksAfter(todo, 1) \/ AsksAfter(ops, i))
               /\ Trade(ops[i]) => Begun["on"] = "serving"
               /\ Asks(ops[i]) => SettlesThen(ops, todo, i)
               /\ ~Enters(ops[i])
    <3>1. CASE i = 1
      BY <2>1, <2>3, <2>4, <2>7, <3>1
    <3>2. CASE i = 2
      BY <1>4, <2>1, <2>5, <2>7, <3>2 DEF SettlesThen
    <3>3. CASE i = 3
      BY <2>1, <2>2, <3>3, CallKinds DEF c, Idle
    <3>4. CASE i = 4
      BY <1>4, <2>1, <2>6, <3>4
    <3>5. QED
      BY <2>1, <3>1, <3>2, <3>3, <3>4
  <2>9. Do(ops)
    BY <1>6 DEF ops
  <2>10. QED
    BY <1>1, <2>1, <2>8, <2>9, PriceDo DEF Unchanged
<1>7. CASE n \notin Machines /\ Do(StateDispatch(n))
  <2>1. InternalRows(n, 1) \in Frame
    BY <1>3, InternalFrame
  <2>2. n # "maintenance"
    BY <1>7, VendTree
  <2>3. Idle(InternalRows(n, 1))
    BY <2>2, CallKinds DEF Idle
  <2>4. \A i \in DOMAIN <<InternalRows(n, 1)>> : Idle(<<InternalRows(n, 1)>>[i])
    BY <2>1, <2>3, OneCall
  <2>5. <<InternalRows(n, 1)>> \in Seq(Frame)
    BY <2>1
  <2>6. QED
    BY <1>1, <1>7, <2>4, <2>5, IdleDo DEF StateDispatch, Unchanged
<1>8. QED
  <2>1. n \notin Orthogonal
    BY VendTree
  <2>2. \/ Do(<<>>)
        \/ Do(CASE n \in Machines -> MachineDispatch(n) [] OTHER -> StateDispatch(n))
    BY <1>1, <2>1 DEF DispatchTo, Return
  <2>3. CASE n \in Machines
    BY <1>5, <1>6, <2>2, <2>3
  <2>4. CASE n \notin Machines
    BY <1>5, <1>7, <2>2, <2>4
  <2>5. QED
    BY <2>3, <2>4

LEMMA NoMoreRowsPrice ==
  ASSUME TypeOK, StackInv, PriceInv, NoMoreRows
  PROVE  PriceInv'
<1> DEFINE f == Head(todo)
<1>1. /\ todo # <<>> /\ Unchanged /\ Do(<<>>) /\ res' = res
      /\ \/ f.op = "rows" /\ Candidates(f) = {}
         \/ f.op = "internal"
      /\ ~Enters(f)
  BY DEF NoMoreRows, Doing, Unchanged, tree, program, history, Enters
<1>2. CASE ~Closes(f, res)
  BY <1>1, <1>2, PriceNone DEF Unchanged
<1>3. ASSUME Closes(f, res), IsEmpty(facts), current["on"] = "serving"
      PROVE  FALSE
  <2>1. f = Rows("on", None, 1) /\ res = "refuse"
    BY <1>1, <1>3 DEF Closes, Settles
  <2>2. f.op = "rows" /\ f.of = "on" /\ f.event = None /\ f.row = 1
    BY <2>1 DEF Rows
  <2>3. 1 \in f.row..Len(Table[f.of])
    BY <2>2, VendRows
  <2>4. Table[f.of][1].event = Kind(f.event) /\ Table[f.of][1].from = current[f.of]
    BY <1>3, <2>2, VendRows DEF Kind
  <2>5. 1 \in Candidates(f)
    BY <2>1, <2>3, <2>4 DEF Candidates
  <2>6. QED
    BY <1>1, <2>2, <2>5
<1>4. <<>> \in Seq(Frame) /\ DOMAIN <<>> = {}
  OBVIOUS
<1>5. QED
  BY ONLY TypeOK, StackInv, PriceInv, <1>1, <1>3, <1>4, PriceDo DEF Unchanged

LEMMA SettlePrice ==
  ASSUME TypeOK, StackInv, PriceInv, Settle
  PROVE  PriceInv'
<1> DEFINE f == Head(todo)
           a == Op("default", f.of, None)
           b == Answer("process")
<1>1. /\ todo # <<>> /\ f.op = "settle" /\ Unchanged /\ ~Enters(f)
      /\ Do(IF res = "process" THEN <<a, b>> ELSE <<>>)
      /\ Closes(f, res) => res = "process" /\ f.of = "on"
  BY DEF Settle, Doing, Unchanged, tree, program, history, Enters, Closes, Settles, Rows
<1>2. f \in Frame /\ f.of \in States
  BY <1>1, FirstCall, FrameFields DEF OpNames
<1>3. a \in Frame /\ b \in Frame /\ Idle(a) /\ Idle(b)
  BY <1>2, OpFrame, AnswerFrame, CallKinds DEF OpNames, Answers
<1>4. f.of = "on" => Closes(a, res')
  BY DEF Op, Closes
<1> HIDE DEF a, b
<1>5. <<a, b>> \in Seq(Frame) /\ DOMAIN <<a, b>> = {1, 2} /\ <<a, b>>[1] = a /\ <<a, b>>[2] = b
      /\ <<a, b>> # <<>>
  BY <1>3
<1>6. \A i \in DOMAIN <<a, b>> : Idle(<<a, b>>[i])
  BY <1>3, <1>5
<1>7. CASE res = "process"
  BY <1>1, <1>4, <1>5, <1>6, <1>7, IdleDo DEF Unchanged
<1>8. CASE res # "process"
  BY <1>1, <1>8, PriceNone DEF Unchanged
<1>9. QED
  BY <1>7, <1>8

LEMMA CheckDefaultPrice ==
  ASSUME TypeOK, StackInv, PriceInv, CheckDefault
  PROVE  PriceInv'
<1> DEFINE f == Head(todo)
           a == Rows(f.of, None, 1)
<1>1. /\ todo # <<>> /\ f.op = "default" /\ Unchanged /\ ~Enters(f) /\ res' = "refuse" /\ Do(<<a>>)
      /\ Closes(f, res) => f.of = "on"
  BY DEF CheckDefault, Doing, Unchanged, tree, program, history, Enters, Closes, Settles, Rows
<1>2. f.of \in Machines
  BY <1>1, FirstCall DEF Fits, FitsTransition
<1>3. a \in Frame
  BY <1>2, RowsFrame
<1>4. Idle(a)
  BY CallKinds DEF Idle
<1>5. f.of = "on" => Closes(a, res')
  BY <1>1 DEF Closes
<1> HIDE DEF a
<1>6. <<a>> \in Seq(Frame) /\ DOMAIN <<a>> = {1} /\ <<a>>[1] = a /\ <<a>> # <<>>
  BY <1>3
<1>7. QED
  BY <1>1, <1>4, <1>5, <1>6, IdleDo DEF Unchanged

LEMMA ReturnPrice ==
  ASSUME TypeOK, StackInv, PriceInv, GiveAnswer \/ LeaveTry
  PROVE  PriceInv'
<1>1. /\ todo # <<>> /\ Head(todo).op \in {"answer", "try"} /\ Unchanged /\ Do(<<>>)
  BY DEF GiveAnswer, LeaveTry, Doing, Return, Unchanged, tree, program, history
<1>2. ~Enters(Head(todo)) /\ ~Closes(Head(todo), res)
  BY <1>1 DEF Enters, Closes, Settles, Rows
<1>3. QED
  BY <1>1, <1>2, PriceNone DEF Unchanged

LEMMA NextRegionPrice ==
  ASSUME TypeOK, StackInv, NextRegion
  PROVE  FALSE
<1>1. todo # <<>> /\ Head(todo).op = "region"
  BY DEF NextRegion, Doing
<1>2. Head(todo).of \in Orthogonal
  BY <1>1, FirstCall, FrameFields
<1>3. QED
  BY <1>2, VendTree

\* The guards of `on` have looked at the goods.
LEMMA TestRowPrice ==
  ASSUME Programmed, TypeOK, StackInv, PriceInv, TestRow
  PROVE  PriceInv'
<1> DEFINE f == Head(todo)
           m == f.of
           i == First(Candidates(f))
           r == Table[m][i]
           v == Holds(r.guard, f.event, facts)
           ops == Transition(m, f.event, i)
           again == Rows(m, f.event, i + 1)
<1>1. /\ todo # <<>> /\ f.op = "rows" /\ Unchanged /\ ~Enters(f) /\ Candidates(f) # {}
      /\ Do(IF v THEN ops ELSE <<again>>)
  BY DEF TestRow, Doing, Unchanged, tree, program, history, Enters, Programmed, VendVerdicts
<1>2. f \in Frame /\ f.row >= 1 /\ m \in Machines /\ f.event \in Events \cup {None} /\ f.row \in Nat
  BY <1>1, FirstCall, FrameFields DEF Fits, FitsDispatch
<1>3. /\ i \in DOMAIN Table[m] /\ i \in Nat /\ i + 1 \in Nat /\ i + 1 >= 1
      /\ r.event = Kind(f.event) /\ r.from = current[m] /\ r.to \in Children(m) /\ r.to \in States
  <2>1. /\ i \in DOMAIN Table[m] /\ i \in Nat /\ i + 1 \in Nat /\ i + 1 >= 1
        /\ r.event = Kind(f.event) /\ r.from = current[m]
    BY <1>1, <1>2, FirstCandidate
  <2>2. r.to \in Children(m)
    BY <1>2, <2>1, TableAssumption
  <2>3. r.to \in States
    BY <2>2, ParentInTree DEF Children
  <2>4. QED
    BY <2>1, <2>2, <2>3
<1>4. r.event # None => f.event # None
  BY <1>3 DEF Kind
<1>5. /\ m = "maintenance" /\ f.event # None => Begun["on"] = "maintenance" /\ AsksAfter(todo, 1)
      /\ m = "serving" /\ f.event # None => Begun["on"] = "serving"
      /\ m = "on" /\ f.event # None => SettlesNext(todo, 1)
      /\ Tended(todo, res, current["on"], facts)
  BY <1>1, FirstPriced DEF Upkeep, Trade, Asks
<1>6. Closes(f, res) /\ IsEmpty(facts) /\ current["on"] = "serving" => m = "on" /\ i = 1 /\ v
  <2>1. SUFFICES ASSUME Closes(f, res), IsEmpty(facts), current["on"] = "serving"
                 PROVE  m = "on" /\ i = 1 /\ v
    OBVIOUS
  <2>2. f = Rows("on", None, 1) /\ res = "refuse"
    BY <1>1, <2>1 DEF Closes, Settles
  <2>3. f.of = "on" /\ f.event = None /\ f.row = 1
    BY <2>2 DEF Rows
  <2>4. 1 \in f.row..Len(Table[f.of])
    BY <2>3, VendRows
  <2>5. Table[f.of][1].event = Kind(f.event) /\ Table[f.of][1].from = current[f.of]
    BY <2>1, <2>3, VendRows DEF Kind
  <2>6. 1 \in Candidates(f)
    BY <2>2, <2>4, <2>5 DEF Candidates
  <2>7. Candidates(f) \in SUBSET Nat
    BY <1>2, VendRows, <2>3 DEF Candidates
  <2>8. i <= 1
    BY <2>6, <2>7, FirstOf
  <2>9. i \in 1..5
    BY <1>3, <2>3, VendRows
  <2>10. i = 1
    BY <2>8, <2>9
  <2>11. Table[m][i].guard = "is_empty"
    BY <2>3, <2>10, VendRows
  <2>12. QED
    BY <2>1, <2>3, <2>10, <2>11 DEF Holds
<1>7. CASE ~v
  <2>1. again \in Frame
    <3>1. \A k \in Nat : Rows(m, f.event, k) \in Frame
      BY <1>2, RowsFrame
    <3>2. QED
      BY <1>3, <3>1
  <2>2. /\ Upkeep(again) => m = "maintenance" /\ f.event # None
        /\ Trade(again) => m = "serving" /\ f.event # None
        /\ Asks(again) => m = "on" /\ f.event # None
        /\ ~Enters(again)
    BY CallKinds
  <2> HIDE DEF again
  <2>3. <<again>> \in Seq(Frame) /\ DOMAIN <<again>> = {1} /\ <<again>>[1] = again /\ Len(<<again>>) = 1
    BY <2>1
  <2>4. Do(<<again>>)
    BY <1>1, <1>7
  <2>5. ~(Closes(f, res) /\ IsEmpty(facts) /\ current["on"] = "serving")
    BY <1>6, <1>7
  <2> HIDE DEF v, i, f
  <2>6. \A j \in DOMAIN <<again>> :
            /\ Upkeep(<<again>>[j]) => Begun["on"] = "maintenance" /\ (AsksAfter(todo, 1) \/ AsksAfter(<<again>>, j))
            /\ Trade(<<again>>[j]) => Begun["on"] = "serving"
            /\ Asks(<<again>>[j]) => SettlesThen(<<again>>, todo, j)
            /\ ~Enters(<<again>>[j])
    BY <1>5, <2>2, <2>3 DEF SettlesThen
  <2>7. QED
    BY <1>1, <2>3, <2>4, <2>5, <2>6, PriceDo DEF Unchanged, f
<1>8. CASE v
  <2> DEFINE a == Op("exit", r.from, f.event)
             b == Call("action", m, i, f.event)
             c == Op("enter", r.to, f.event)
             d == Op("clear", r.from, f.event)
             g == SetCurrent(m, r.to)
  <2>1. Guarantee[m] = "basic"
    BY <1>2, VendTree
  <2>2. ops = <<a, b, c, d, g>> \o <<>>
    BY <2>1 DEF Transition, Tried
  <2>3. ops \in Seq(Frame)
    BY <1>2, <1>3, TransitionCalls
  <2>4. Idle(a) /\ Idle(d)
    BY CallKinds
  <2>5. ~Upkeep(b) /\ ~Asks(b) /\ ~Enters(b) /\ (Trade(b) => m = "serving" /\ i = 3)
    BY HandlerKinds
  <2>6. (Upkeep(c) <=> r.to = "loading") /\ ~Trade(c) /\ ~Asks(c) /\ ~Enters(c)
    BY CallKinds
  <2>7. (Enters(g) <=> m = "on") /\ ~Upkeep(g) /\ ~Trade(g) /\ ~Asks(g)
    BY CallKinds
  <2>8. g.to = r.to
    BY DEF SetCurrent
  <2> HIDE DEF a, b, c, d, g, ops
  <2>9. /\ ops = <<a, b, c, d, g>> /\ DOMAIN ops = {1, 2, 3, 4, 5} /\ Len(ops) = 5
        /\ ops[1] = a /\ ops[2] = b /\ ops[3] = c /\ ops[4] = d /\ ops[5] = g
    BY <2>2
  <2>10. Upkeep(c) => Begun["on"] = "maintenance" /\ AsksAfter(todo, 1)
    <3>1. r.to = "loading" => m = "maintenance" /\ r.event # None
      BY <1>2, <1>3, VendRows
    <3>2. QED
      BY <1>4, <1>5, <2>6, <3>1
  <2>11. Trade(b) => Begun["on"] = "serving"
    BY <1>4, <1>5, <2>5, VendRows
  <2>12. ASSUME m = "on"
         PROVE  \/ Priced(facts) \/ r.to = "maintenance"
                \/ IsEmpty(facts) /\ (r.to = "out_of_service" \/ SettlesNext(todo, 1))
    <3>1. i \in 1..5
      BY <1>3, <2>12, VendRows
    <3>2. CASE i = 1
      <4>1. r.guard = "is_empty" /\ r.to = "out_of_service"
        BY <2>12, <3>2, VendRows
      <4>2. QED
        BY <1>8, <4>1 DEF Holds
    <3>3. CASE i = 2
      <4>1. r.guard = "not_empty" /\ current["on"] = "out_of_service"
        BY <1>3, <2>12, <3>3, VendRows
      <4>2. ~IsEmpty(facts)
        BY <1>8, <4>1 DEF Holds
      <4>3. QED
        BY <1>5, <4>1, <4>2 DEF Tended
    <3>4. CASE i \in {3, 4}
      BY <2>12, <3>4, VendRows
    <3>5. CASE i = 5
      <4>1. r.guard = "may_leave" /\ r.event # None
        BY <2>12, <3>5, VendRows
      <4>2. IsEmpty(facts) \/ Priced(facts)
        BY <1>8, <4>1 DEF Holds, Priced
      <4>3. SettlesNext(todo, 1)
        BY <1>4, <1>5, <2>12, <4>1
      <4>4. QED
        BY <4>2, <4>3
    <3>6. QED
      BY <3>1, <3>2, <3>3, <3>4, <3>5
  <2>13. Closes(f, res) /\ IsEmpty(facts) /\ current["on"] = "serving" =>
            Enters(g) /\ g.to = "out_of_service"
    BY <1>6, <2>7, <2>8, VendRows
  <2>14. Do(ops)
    BY <1>1, <1>8
  <2> HIDE DEF v, i, f
  <2>15. ASSUME NEW j \in DOMAIN ops
         PROVE  /\ Upkeep(ops[j]) => Begun["on"] = "maintenance" /\ (AsksAfter(todo, 1) \/ AsksAfter(ops, j))
                /\ Trade(ops[j]) => Begun["on"] = "serving"
                /\ Asks(ops[j]) => SettlesThen(ops, todo, j)
                /\ Enters(ops[j]) =>
                      \/ Priced(facts) \/ ops[j].to = "maintenance"
                      \/ IsEmpty(facts) /\ (ops[j].to = "out_of_service" \/ SettlesThen(ops, todo, j))
    <3>1. CASE j = 1
      BY <2>4, <2>9, <3>1 DEF Idle
    <3>2. CASE j = 2
      BY <2>5, <2>9, <2>11, <3>2
    <3>3. CASE j = 3
      BY <2>6, <2>9, <2>10, <3>3
    <3>4. CASE j = 4
      BY <2>4, <2>9, <3>4 DEF Idle
    <3>5. CASE j = 5
      BY <2>7, <2>8, <2>9, <2>12, <3>5 DEF SettlesThen
    <3>6. QED
      BY <2>9, <3>1, <3>2, <3>3, <3>4, <3>5
  <2>16. 5 \in DOMAIN ops /\ ops[5] = g
    BY <2>9
  <2>17. QED
    BY <1>1, <2>3, <2>13, <2>14, <2>15, <2>16, PriceDo DEF Unchanged, f
<1>9. QED
  BY <1>7, <1>8

LEMMA TestInternalRowPrice ==
  ASSUME TypeOK, StackInv, PriceInv, TestInternalRow
  PROVE  PriceInv'
<1> DEFINE f == Head(todo)
           i == First(InternalCandidates(f))
           a == Call("internal", f.of, i, event)
           b == Answer("in_state")
           again == InternalRows(f.of, i + 1)
<1>1. /\ todo # <<>> /\ f.op = "internal" /\ Unchanged /\ ~Enters(f) /\ ~Closes(f, res)
      /\ InternalCandidates(f) # {}
      /\ \E v : Do(IF v THEN <<a, b>> ELSE <<again>>)
  BY DEF TestInternalRow, Doing, Unchanged, tree, program, history, Enters, Closes, Settles, Rows
<1>2. f \in Frame /\ f.row >= 1 /\ f.of \in States /\ event \in Events
  BY <1>1, FirstCall, FrameFields DEF Fits, FitsDispatch
<1>3. i \in Nat /\ i + 1 \in Nat
  BY <1>1, <1>2, FirstInternalCandidate
<1>4. a \in Frame /\ b \in Frame /\ again \in Frame
  BY <1>2, <1>3, CallFrame, AnswerFrame, InternalFrame DEF Answers
<1>5. f.of = "maintenance" => Begun["on"] = "maintenance" /\ AsksAfter(todo, 1)
  BY <1>1, FirstPriced DEF Upkeep
<1>6. ~Asks(a) /\ ~Enters(a) /\ ~Trade(a) /\ (Upkeep(a) => f.of = "maintenance")
  BY HandlerKinds
<1>7. Idle(b) /\ ~Asks(again) /\ ~Enters(again) /\ ~Trade(again) /\ (Upkeep(again) => f.of = "maintenance")
  BY CallKinds
<1> HIDE DEF a, b, again, i, f
<1>8. CASE Do(<<a, b>>)
  <2>1. <<a, b>> \in Seq(Frame) /\ DOMAIN <<a, b>> = {1, 2} /\ <<a, b>>[1] = a /\ <<a, b>>[2] = b
    BY <1>4
  <2>2. \A j \in DOMAIN <<a, b>> :
            /\ Upkeep(<<a, b>>[j]) => Begun["on"] = "maintenance" /\ (AsksAfter(todo, 1) \/ AsksAfter(<<a, b>>, j))
            /\ ~Trade(<<a, b>>[j]) /\ ~Asks(<<a, b>>[j]) /\ ~Enters(<<a, b>>[j])
    BY <1>5, <1>6, <1>7, <2>1 DEF Idle
  <2>3. QED
    BY <1>1, <1>8, <2>1, <2>2, PriceDo DEF Unchanged, f
<1>9. CASE Do(<<again>>)
  <2>1. <<again>> \in Seq(Frame) /\ DOMAIN <<again>> = {1} /\ <<again>>[1] = again
    BY <1>4
  <2>2. \A j \in DOMAIN <<again>> :
            /\ Upkeep(<<again>>[j]) => Begun["on"] = "maintenance" /\ (AsksAfter(todo, 1) \/ AsksAfter(<<again>>, j))
            /\ ~Trade(<<again>>[j]) /\ ~Asks(<<again>>[j]) /\ ~Enters(<<again>>[j])
    BY <1>5, <1>7, <2>1
  <2>3. QED
    BY <1>1, <1>9, <2>1, <2>2, PriceDo DEF Unchanged, f
<1>10. QED
  BY <1>1, <1>8, <1>9

\* No initial state is one in which goods are loaded.
LEMMA InnerEnterIdle ==
  ASSUME NEW n \in States, NEW e \in Events \cup {None}
  PROVE  \A g \in ToSet(InnerEnter(n, e)) : Idle(g)
<1>1. CASE n \in Machines
  <2> DEFINE b == Op("enter", Initial[n], e)
             c == Op("default", n, None)
  <2>1. Idle(b) /\ Idle(c)
    <3>1. Idle(c)
      BY CallKinds
    <3>2. /\ ~Trade(b) /\ ~Asks(b) /\ ~Enters(b)
          /\ Upkeep(b) <=> Initial[n] = "loading"
      BY CallKinds
    <3>3. Initial[n] # "loading"
      BY <1>1, VendTree
    <3> HIDE DEF b, c
    <3>4. QED
      BY <3>1, <3>2, <3>3 DEF Idle
  <2>2. InnerEnter(n, e) = <<b, c>>
    BY <1>1, TreeAssumption DEF InnerEnter
  <2> HIDE DEF b, c
  <2>3. ToSet(<<b, c>>) = {b, c}
    BY DEF ToSet
  <2>4. QED
    BY <2>1, <2>2, <2>3
<1>2. CASE n \notin Machines
  <2>1. InnerEnter(n, e) = <<>>
    BY <1>2, VendTree DEF InnerEnter
  <2>2. QED
    BY <2>1 DEF ToSet
<1>3. QED
  BY <1>1, <1>2

LEMMA ExitOrEnterPrice ==
  ASSUME TypeOK, StackInv, PriceInv, ExitOrEnter
  PROVE  PriceInv'
<1> DEFINE f == Head(todo)
           n == f.of
           e == f.event
           x == Call("exit", n, 0, e)
           y == Call("enter", n, 0, e)
<1>1. /\ todo # <<>> /\ f.op \in {"exit", "enter"} /\ Unchanged /\ ~Enters(f) /\ ~Closes(f, res)
      /\ \/ Do(InnerExit(n, e) \o <<x>>)
         \/ f.op = "enter" /\ Do(<<y>> \o InnerEnter(n, e))
  BY DEF ExitOrEnter, Doing, Unchanged, tree, program, history, Enters, Closes, Settles, Rows
<1>2. n \in States /\ e \in Events \cup {None} /\ Fits(f, event, current, Begun)
  BY <1>1, FirstCall, FrameFields DEF OpNames
<1>3. f.op = "enter" => Due(event, Begun)
  BY <1>2 DEF Fits, FitsTransition
<1>4. f.op = "enter" /\ n = "loading" => Begun["on"] = "maintenance" /\ AsksAfter(todo, 1)
  BY <1>1, FirstPriced DEF Upkeep
<1>5. x \in Frame /\ y \in Frame
  BY <1>2, CallFrame
<1>6. Idle(x) /\ ~Asks(y) /\ ~Enters(y) /\ ~Trade(y) /\ (Upkeep(y) => n = "loading")
  BY HandlerKinds DEF Idle
<1> HIDE DEF x, y
<1>7. ASSUME NEW ops \in Seq(Frame), Do(ops),
             \A g \in ToSet(ops) : ~Asks(g) /\ ~Enters(g) /\ ~Trade(g)
                                   /\ (Upkeep(g) => f.op = "enter" /\ n = "loading")
      PROVE  PriceInv'
  <2>1. \A j \in DOMAIN ops : ops[j] \in ToSet(ops)
    BY DEF ToSet
  <2>2. \A j \in DOMAIN ops :
            /\ Upkeep(ops[j]) => Begun["on"] = "maintenance" /\ (AsksAfter(todo, 1) \/ AsksAfter(ops, j))
            /\ ~Trade(ops[j]) /\ ~Asks(ops[j]) /\ ~Enters(ops[j])
    BY <1>4, <1>7, <2>1
  <2>3. QED
    BY <1>1, <1>7, <2>2, PriceDo DEF Unchanged
<1>8. CASE Do(InnerExit(n, e) \o <<x>>)
  <2> DEFINE inner == InnerExit(n, e)
             last == <<x>>
  <2>1. inner \in Seq(Frame) /\ \A g \in ToSet(inner) : g.op = "exit"
    BY <1>2, InnerExitFacts, InnerExitOps
  <2>2. last \in Seq(Frame) /\ ToSet(last) = {x}
    BY <1>5, ToSetOne
  <2> HIDE DEF inner, last
  <2>3. inner \o last \in Seq(Frame) /\ ToSet(inner \o last) = ToSet(inner) \cup ToSet(last)
    BY ONLY <2>1, <2>2, ConcatFacts
  <2>4. \A g : g.op = "exit" => Idle(g)
    BY DEF Idle, Upkeep, Trade, Sells, Asks, Enters
  <2>5. \A g \in ToSet(inner \o last) : Idle(g)
    BY <1>6, <2>1, <2>2, <2>3, <2>4
  <2>6. Do(inner \o last)
    BY <1>8 DEF inner, last
  <2>7. QED
    BY <1>7, <2>3, <2>5, <2>6 DEF Idle
<1>9. CASE f.op = "enter" /\ Do(<<y>> \o InnerEnter(n, e))
  <2> DEFINE inner == InnerEnter(n, e)
             one == <<y>>
  <2>1. inner \in Seq(Frame) /\ \A g \in ToSet(inner) : g \in Frame
    <3>1. inner \in Seq(Frame)
      BY <1>2, <1>3, <1>9, InnerEnterFacts
    <3>2. QED
      BY <3>1 DEF ToSet
  <2>2. one \in Seq(Frame) /\ ToSet(one) = {y}
    BY <1>5, ToSetOne
  <2>3. \A g \in ToSet(inner) : Idle(g)
    BY <1>2, InnerEnterIdle
  <2>4. Do(one \o inner)
    BY <1>9
  <2> HIDE DEF inner, one
  <2>5. one \o inner \in Seq(Frame) /\ ToSet(one \o inner) = ToSet(one) \cup ToSet(inner)
    BY ONLY <2>1, <2>2, ConcatFacts
  <2>6. QED
    BY <1>6, <1>7, <1>9, <2>2, <2>3, <2>4, <2>5 DEF Idle
<1>10. QED
  BY <1>1, <1>8, <1>9

\* `on` has history, and nothing around it is cleared.
LEMMA ClearSourcePrice ==
  ASSUME TypeOK, StackInv, PriceInv, ClearSource
  PROVE  PriceInv'
<1> DEFINE f == Head(todo)
           inside == IF f.of \in History THEN {} ELSE Below(f.of)
<1>1. /\ todo # <<>> /\ f.op = "clear" /\ start' = start /\ facts' = facts /\ Do(<<>>)
      /\ current' = [m \in Machines |-> IF m \in inside THEN Initial[m] ELSE current[m]]
  BY DEF ClearSource, Doing, program, history
<1>2. ~Enters(f) /\ ~Closes(f, res)
  BY <1>1 DEF Enters, Closes, Settles, Rows
<1>3. f.of # Root
  BY <1>1, FirstCall DEF Fits, FitsTransition
<1>4. "on" \notin inside
  <2>1. "on" \in Below(f.of) => f.of \in {"on", "vm"}
    BY VendTree DEF Below
  <2>2. QED
    BY <1>3, <2>1, VendTree
<1>5. current'["on"] = current["on"]
  BY <1>1, <1>4, VendTree
<1>6. QED
  BY <1>1, <1>2, <1>5, PriceNone

LEMMA CompleteTransitionPrice ==
  ASSUME TypeOK, StackInv, PriceInv, CompleteTransition
  PROVE  PriceInv'
<1> DEFINE f == Head(todo)
<1>1. /\ todo # <<>> /\ f.op = "set" /\ start' = start /\ facts' = facts /\ Do(<<>>)
      /\ current' = [current EXCEPT ![f.of] = f.to] /\ res' = "process"
  BY DEF CompleteTransition, Doing, program, Return
<1>2. f.of \in Machines /\ "on" \in DOMAIN current /\ todo \in Seq(Frame) /\ 1 \in DOMAIN todo
  <2>1. f \in Frame /\ todo \in Seq(Frame)
    BY <1>1, FirstCall
  <2>2. QED
    BY <1>1, <2>1, FrameFields, TailFacts, VendTree DEF TypeOK
<1>3. ~Closes(f, res)
  BY <1>1 DEF Closes, Settles, Rows
<1>4. CASE f.of # "on"
  BY <1>1, <1>2, <1>3, <1>4, PriceNone DEF Enters
<1>5. CASE f.of = "on"
  <2>1. current'["on"] = f.to /\ Enters(f)
    BY <1>1, <1>2, <1>5 DEF Enters
  <2>2. f.to \in {"maintenance", "serving", "out_of_service"}
    <3>1. Fits(f, event, current, Begun)
      BY <1>1, FirstCall
    <3>2. PICK r \in ToSet(Table["on"]) : r.to = f.to
      BY <1>1, <1>5, <3>1 DEF Fits, FitsTransition
    <3>3. PICK i \in DOMAIN Table["on"] : r = Table["on"][i]
      BY DEF ToSet
    <3>4. r.to \in Children("on")
      BY <1>2, <1>5, <3>3, TableAssumption
    <3>5. QED
      BY <3>2, <3>4, VendTree
  <2>3. \/ Priced(facts) \/ f.to = "maintenance"
        \/ IsEmpty(facts) /\ (f.to = "out_of_service" \/ SettlesNext(todo, 1))
    BY <1>1, <2>1, FirstPriced
  <2>4. <<>> \in Seq(Frame) /\ DOMAIN <<>> = {} /\ Len(<<>>) = 0
    OBVIOUS
  <2>5. Put(todo', <<>>, todo, 1) /\ todo' \in Seq(Frame)
    <3>1. Tail(todo) \in Seq(Frame)
      BY <1>1, <1>2, TailFacts
    <3>2. <<>> \o Tail(todo) \in Seq(Frame)
      BY <3>1
    <3>3. QED
      BY <1>1, <1>2, <2>4, <3>2, PutFirst DEF Do
  <2>6. InPlace(todo, Begun["on"]) /\ Allowed(todo, facts) /\ (Begun["on"] = "serving" => Priced(facts))
    BY DEF PriceInv, Begun
  <2>7. InPlace(todo', Begun["on"])
    BY <1>2, <2>4, <2>5, <2>6, InPlacePut
  <2>8. Allowed(todo', facts)
    BY <1>2, <2>4, <2>5, <2>6, AllowedPut
  <2>9. SettlesNext(todo, 1) => todo' # <<>> /\ Settles(Head(todo'))
    <3>1. SettlesNext(todo, 1) => SettlesThen(<<>>, todo, 0) /\ 0 \in 0..0
      BY <2>4 DEF SettlesThen
    <3>2. SettlesNext(todo, 1) => SettlesNext(todo', 0)
      BY <1>2, <2>4, <2>5, <3>1, SettlesPut
    <3>3. SettlesNext(todo', 0) => 1 \in DOMAIN todo' /\ Settles(todo'[1])
      BY DEF SettlesNext
    <3>4. 1 \in DOMAIN todo' => todo' # <<>> /\ Head(todo') = todo'[1]
      BY <2>5
    <3>5. QED
      BY <3>2, <3>3, <3>4
  <2>10. Tended(todo', res', current'["on"], facts)
    BY <1>1, <2>1, <2>2, <2>3, <2>9 DEF Tended, Closing, Closes
  <2>11. QED
    BY <1>1, <2>6, <2>7, <2>8, <2>10 DEF PriceInv, Begun
<1>6. QED
  BY <1>4, <1>5

-----------------------------------------------------------------------------
(* Prices: the handlers *)

\* Goods come in and prices change in maintenance; a sale changes no price.
LEMMA VendGoods ==
  ASSUME NEW h, NEW e, NEW d, DataOK(d)
  PROVE  LET after == VendHandler(h, e, d) IN
         /\ h \notin {<<"enter", "loading", 0>>, <<"internal", "maintenance", 1>>,
                      <<"action", "serving", 3>>}
              => after.goods = d.goods /\ after.unpriced = d.unpriced
         /\ h = <<"action", "serving", 3>> /\ Priced(d) => Priced(after)
<1> DEFINE after == VendHandler(h, e, d)
<1>1. CASE h = <<"enter", "active", 0>> /\ Kind(e) = "money"
  <2>1. after = EnterActive(d, e)
    BY <1>1 DEF VendHandler
  <2>2. EnterActive(d, e).goods = d.goods /\ EnterActive(d, e).unpriced = d.unpriced
    BY DEF EnterActive, DataOK
  <2>3. QED
    BY <1>1, <2>1, <2>2
<1>2. CASE h = <<"action", "serving", 3>>
  <2>1. after = DispenseProduct(d, e)
    BY <1>2 DEF VendHandler
  <2>2. /\ after.unpriced = d.unpriced /\ DOMAIN after.goods = DOMAIN d.goods
        /\ \A q \in DOMAIN d.goods : after.goods[q].price = d.goods[q].price
    BY <2>1, DispenseFacts
  <2> HIDE DEF after
  <2>3. Priced(d) => Priced(after)
    BY <2>2 DEF Priced, PricesCorrect
  <2>4. QED
    BY <1>2, <2>3 DEF after
<1>3. CASE /\ ~(h = <<"enter", "active", 0>> /\ Kind(e) = "money")
           /\ h \notin {<<"enter", "loading", 0>>, <<"internal", "maintenance", 1>>,
                        <<"action", "serving", 3>>}
  BY <1>3 DEF VendHandler
<1>4. QED
  BY <1>1, <1>2, <1>3

LEMMA SameGoods ==
  ASSUME NEW d, NEW a, a.goods = d.goods, a.unpriced = d.unpriced
  PROVE  (IsEmpty(a) <=> IsEmpty(d)) /\ (Priced(a) <=> Priced(d))
BY DEF IsEmpty, Priced, PricesCorrect

LEMMA SameGoodsPlace ==
  ASSUME NEW s, NEW r, NEW state, NEW d, NEW a, a.goods = d.goods,
         a.unpriced = d.unpriced
  PROVE  /\ Allowed(s, d) => Allowed(s, a)
         /\ Tended(s, r, state, d) => Tended(s, r, state, a)
BY SameGoods DEF Allowed, Tended

LEMMA RunHandlerPrice ==
  ASSUME Programmed, TypeOK, StackInv, SaleInv, PriceInv, RunHandler
  PROVE  PriceInv'
<1> DEFINE f == Head(todo)
           h == Handler(f)
           after == VendHandler(h, f.event, facts)
<1>1. /\ todo # <<>> /\ f.op = "call" /\ start' = start /\ current' = current /\ res' = res
      /\ facts' = after /\ Do(<<>>)
  BY DEF RunHandler, Doing, Programmed, VendEffects
<1>2. /\ todo \in Seq(Frame) /\ 1 \in DOMAIN todo /\ Head(todo) = todo[1]
      /\ Stacked(todo, event, current, Begun)
  BY <1>1, FirstCall, TailFacts
<1>3. /\ <<>> \in Seq(Frame) /\ DOMAIN <<>> = {} /\ Len(<<>>) = 0
      /\ Put(todo', <<>>, todo, 1) /\ todo' \in Seq(Frame)
  <2>1. <<>> \in Seq(Frame) /\ DOMAIN <<>> = {} /\ Len(<<>>) = 0
    OBVIOUS
  <2>2. Tail(todo) \in Seq(Frame)
    BY <1>1, <1>2, TailFacts
  <2>3. <<>> \o Tail(todo) \in Seq(Frame)
    BY <2>2
  <2>4. QED
    BY <1>1, <1>2, <2>1, <2>3, PutFirst DEF Do
<1>4. /\ InPlace(todo, Begun["on"]) /\ Allowed(todo, facts)
      /\ Tended(todo, res, current["on"], facts)
      /\ Begun["on"] = "serving" => Priced(facts)
      /\ DataOK(facts)
  BY DEF PriceInv, SaleInv, Begun
<1>5. InPlace(todo', Begun["on"])
  BY <1>2, <1>3, <1>4, InPlacePut
<1>6. Allowed(todo', facts)
  BY <1>2, <1>3, <1>4, AllowedPut
<1>7. ~Enters(f) /\ ~Closes(f, res)
  BY <1>1 DEF Enters, Closes, Settles, Rows
<1>8. Tended(todo', res, current["on"], facts)
  BY <1>2, <1>3, <1>4, <1>7, TendedPut
<1>9. SUFFICES /\ Allowed(todo', after) /\ Tended(todo', res, current["on"], after)
               /\ Begun["on"] = "serving" => Priced(after)
  BY <1>1, <1>5 DEF PriceInv, Begun
<1>10. CASE h \in {<<"enter", "loading", 0>>, <<"internal", "maintenance", 1>>}
  <2>1. Begun["on"] = "maintenance" /\ AsksAfter(todo, 1)
    BY <1>1, <1>10, FirstPriced DEF Upkeep
  <2>2. PICK k \in DOMAIN todo : k > 1 /\ Asks(todo[k])
    BY <2>1 DEF AsksAfter
  <2>3. /\ todo[k].op = "rows" /\ todo[k].of = "on" /\ todo[k].event # None
        /\ Fits(todo[k], event, current, Begun)
    BY <1>2, <2>2 DEF Asks, Stacked
  <2>4. Same({"on"}, current, Begun)
    BY <2>3 DEF Fits, FitsTransition
  <2>5. current["on"] = "maintenance"
    BY <2>1, <2>4, VendTree DEF Same
  <2>6. ASSUME NEW j \in DOMAIN todo', Enters(todo'[j])
        PROVE  FALSE
    <3>1. todo' = Tail(todo)
      <4>1. Tail(todo) \in Seq(Frame)
        BY <1>1, <1>2, TailFacts
      <4>2. <<>> \o Tail(todo) = Tail(todo)
        BY <4>1
      <4>3. QED
        BY <1>1, <4>2 DEF Do
    <3>2. PICK i \in DOMAIN todo : Enters(todo[i])
      <4>1. j + 1 \in DOMAIN todo /\ todo'[j] = todo[j + 1]
        BY <1>1, <1>2, <2>6, <3>1, TailFacts
      <4>2. QED
        BY <2>6, <4>1
    <3>3. todo[i].op = "set" /\ todo[i].of = "on"
      BY <3>2 DEF Enters
    <3>4. "on" \in Scope(todo[i]) /\ "on" \in Relies(todo[i])
      BY <3>3 DEF Scope, Relies
    <3>5. "on" \in Scope(todo[k]) /\ "on" \in Relies(todo[k])
      <4>1. "on" \in Below("on")
        BY VendTree, UpSelf
      <4>2. QED
        BY <2>3, <4>1 DEF Scope, Relies
    <3>6. i # k
      BY <2>3, <3>3
    <3>7. i < k \/ k < i
      BY <1>2, <3>6
    <3>8. Confined(todo)
      BY <1>2 DEF Stacked
    <3>9. QED
      BY <3>4, <3>5, <3>7, <3>8 DEF Confined
  <2>7. QED
    BY <2>1, <2>5, <2>6 DEF Allowed, Tended
<1>11. CASE h = <<"action", "serving", 3>>
  <2>1. Begun["on"] = "serving"
    BY <1>1, <1>11, FirstPriced DEF Trade, Sells
  <2>2. Priced(after)
    BY <1>4, <1>11, <2>1, VendGoods
  <2> HIDE DEF after
  <2>3. QED
    BY <2>2 DEF Allowed, Tended
<1>12. CASE h \notin {<<"enter", "loading", 0>>, <<"internal", "maintenance", 1>>,
                      <<"action", "serving", 3>>}
  <2>1. after.goods = facts.goods /\ after.unpriced = facts.unpriced
    BY <1>4, <1>12, VendGoods
  <2> HIDE DEF after
  <2>2. QED
    BY <1>4, <1>6, <1>8, <2>1, SameGoods, SameGoodsPlace
<1>13. QED
  BY <1>10, <1>11, <1>12

LEMMA ReceivePrice ==
  ASSUME PriceInv, NEW e, Receive(e)
  PROVE  PriceInv'
<1> DEFINE a == Op("dispatch", "vm", e)
<1>1. /\ todo = <<>> /\ todo' = <<a>> /\ start' = Now /\ current' = current /\ facts' = facts
      /\ res' = res
  BY VendTree DEF Receive, Resting, tree
<1>2. Idle(a)
  BY CallKinds DEF Idle
<1> HIDE DEF a
<1>3. InPlace(<<a>>, current["on"]) /\ Allowed(<<a>>, facts)
  BY <1>2 DEF Idle, InPlace, Allowed
<1>4. ~Closing(<<>>, res)
  BY DEF Closing
<1>5. Tended(<<>>, res, current["on"], facts)
  BY <1>1 DEF PriceInv
<1>6. current["on"] = "serving" => Priced(facts)
  BY <1>4, <1>5 DEF Tended
<1>7. Tended(<<a>>, res, current["on"], facts)
  BY <1>4, <1>5 DEF Tended
<1>8. start'.current["on"] = current["on"]
  BY <1>1 DEF Now
<1>9. QED
  BY <1>1, <1>3, <1>6, <1>7, <1>8 DEF PriceInv

LEMMA InitPrice ==
  ASSUME Init
  PROVE  PriceInv
<1>1. PICK stock \in Stocks :
        facts = Data(stock, 0, 0, 0, 0, FALSE, \E p \in DOMAIN stock : stock[p].price <= 0)
  BY MachineAssumption DEF Init, VendFacts, Data
<1>2. \A p \in DOMAIN stock : stock[p].price \in Int
  BY VendingAssumption DEF AreGoods
<1>3. /\ facts.goods = stock
      /\ facts.unpriced = (\E p \in DOMAIN stock : stock[p].price <= 0)
  BY <1>1 DEF Data
<1>4. Priced(facts)
  BY <1>2, <1>3 DEF Priced, PricesCorrect
<1>5. todo = <<>>
  BY DEF Init
<1>6. QED
  BY <1>4, <1>5 DEF PriceInv, InPlace, Allowed, Tended

LEMMA NextPrice ==
  ASSUME Programmed, TypeOK, StackInv, SaleInv, PriceInv, [VendNext]_vars
  PROVE  PriceInv'
<1>1. Throwing = {} /\ ~throwing
  BY MachineAssumption DEF NeverThrows, SaleInv
<1>2. ~HandlerThrows /\ ~GuardThrows /\ ~Escape /\ ~Catch
  BY <1>1 DEF HandlerThrows, GuardThrows, Escape, Catch
<1>3. CASE \E e \in Events : Receive(e)
  BY <1>3, ReceivePrice
<1>4. CASE GiveAnswer \/ LeaveTry
  BY <1>4, ReturnPrice
<1>5. CASE UNCHANGED vars
  BY <1>5 DEF vars, tree, program, control, history, PriceInv
<1>6. QED
  BY <1>2, <1>3, <1>4, <1>5, DispatchPrice, NextRegionPrice, NoMoreRowsPrice, TestRowPrice,
     TestInternalRowPrice, SettlePrice, CheckDefaultPrice, ExitOrEnterPrice, ClearSourcePrice,
     CompleteTransitionPrice, RunHandlerPrice
  DEF VendNext, Step, Stuck

-----------------------------------------------------------------------------
(* Default transitions: what a call puts in its place *)

\* The call that tells, as a witness.
LEMMA ToldBy ==
  ASSUME NEW s, NEW i, NEW k, NEW now \in BOOLEAN, NEW j \in i..(k - 1),
         (j = i /\ now) \/ (j > i /\ Tells(s[j])),
         \A h \in (j + 1)..(k - 1) : ~Overrides(s[h])
  PROVE  ToldBefore(s, i, k, now)
BY DEF ToldBefore

\* What is told before a call is still told when the first call is replaced: by the
\* calls after it, by those in its place, or by both together.
LEMMA ToldPut ==
  ASSUME NEW s \in Seq(Frame), 1 \in DOMAIN s, NEW ops \in Seq(Frame), NEW r, Put(r, ops, s, 1),
         NEW b \in BOOLEAN, NEW b2 \in BOOLEAN, NEW i0 \in 0..Len(ops)
  PROVE  /\ \A i, k \in DOMAIN s : i > 1 /\ ToldBefore(s, i, k, b) =>
               ToldBefore(r, Len(ops) + (i - 1), Len(ops) + (k - 1), b)
         /\ \A k \in DOMAIN ops : ToldBefore(ops, i0, k, b) => ToldBefore(r, i0, k, b)
         /\ \A k \in DOMAIN s : k > 1 /\ ToldBefore(s, 1, k, FALSE) => ToldBefore(r, i0, Len(ops) + (k - 1), b)
         /\ \A k \in DOMAIN s :
               k > 1 /\ ToldBefore(s, 1, k, b2) /\ ToldBefore(ops, i0, Len(ops) + 1, b) =>
                   ToldBefore(r, i0, Len(ops) + (k - 1), b)
<1> DEFINE n == Len(ops)
<1>1. /\ n \in Nat /\ DOMAIN ops = 1..n /\ Len(s) \in Nat /\ DOMAIN s = 1..Len(s)
      /\ \A j \in DOMAIN ops : j \in DOMAIN r /\ r[j] = ops[j]
      /\ \A i \in DOMAIN s : i > 1 => n + (i - 1) \in DOMAIN r /\ r[n + (i - 1)] = s[i]
  <2>1. Len(s) \in Nat /\ Len(ops) \in Nat
    OBVIOUS
  <2>2. QED
    BY <2>1, PutCalls
<1> HIDE DEF n
<1>2. i0 \in 0..n
  BY DEF n
<1>3. \A h \in Nat : h > n /\ (h - n) + 1 \in DOMAIN s => r[h] = s[(h - n) + 1]
  <2>1. \A h \in Nat : h > n => (h - n) + 1 > 1 /\ n + (((h - n) + 1) - 1) = h
    BY <1>1
  <2>2. QED
    BY <1>1, <2>1
<1>4. ASSUME NEW i \in DOMAIN s, NEW k \in DOMAIN s, NEW j \in i..(k - 1), j > 1,
             \A h \in (j + 1)..(k - 1) : ~Overrides(s[h])
      PROVE  \A h \in ((n + (j - 1)) + 1)..((n + (k - 1)) - 1) : ~Overrides(r[h])
  <2> TAKE h \in ((n + (j - 1)) + 1)..((n + (k - 1)) - 1)
  <2>1. h \in Nat /\ h > n /\ (h - n) + 1 \in (j + 1)..(k - 1) /\ (h - n) + 1 \in DOMAIN s
    BY <1>1, <1>4
  <2>2. QED
    BY <1>3, <1>4, <2>1
<1>5. ASSUME NEW i \in DOMAIN s, NEW k \in DOMAIN s, i > 1, ToldBefore(s, i, k, b)
      PROVE  ToldBefore(r, n + (i - 1), n + (k - 1), b)
  <2>1. PICK j \in i..(k - 1) :
            /\ (j = i /\ b) \/ (j > i /\ Tells(s[j]))
            /\ \A h \in (j + 1)..(k - 1) : ~Overrides(s[h])
    BY <1>5 DEF ToldBefore
  <2>2. j \in DOMAIN s /\ j > 1
    BY <1>1, <1>5
  <2>3. /\ n + (j - 1) \in (n + (i - 1))..((n + (k - 1)) - 1)
        /\ j = i => n + (j - 1) = n + (i - 1)
        /\ j > i => n + (j - 1) > n + (i - 1)
    BY <1>1, <2>2
  <2>4. r[n + (j - 1)] = s[j]
    BY <1>1, <2>2
  <2>5. \A h \in ((n + (j - 1)) + 1)..((n + (k - 1)) - 1) : ~Overrides(r[h])
    BY <1>4, <2>1, <2>2
  <2> DEFINE p == n + (j - 1)
             p0 == n + (i - 1)
             p1 == n + (k - 1)
  <2>6. (p = p0 /\ b) \/ (p > p0 /\ Tells(r[p]))
    BY <2>1, <2>3, <2>4
  <2>7. p \in p0..(p1 - 1) /\ \A h \in (p + 1)..(p1 - 1) : ~Overrides(r[h])
    BY <2>3, <2>5
  <2> HIDE DEF p, p0, p1
  <2>8. ToldBefore(r, p0, p1, b)
    BY <2>6, <2>7, ToldBy
  <2>9. QED
    BY <2>8 DEF p0, p1
<1>6. ASSUME NEW k \in DOMAIN ops, ToldBefore(ops, i0, k, b)
      PROVE  ToldBefore(r, i0, k, b)
  <2>1. PICK j \in i0..(k - 1) :
            /\ (j = i0 /\ b) \/ (j > i0 /\ Tells(ops[j]))
            /\ \A h \in (j + 1)..(k - 1) : ~Overrides(ops[h])
    BY <1>6 DEF ToldBefore
  <2>2. j > i0 => j \in DOMAIN ops
    BY <1>1, <1>2
  <2>3. \A h \in (j + 1)..(k - 1) : h \in DOMAIN ops
    BY <1>1, <1>2
  <2>4. QED
    BY <1>1, <2>1, <2>2, <2>3 DEF ToldBefore
<1>7. ASSUME NEW k \in DOMAIN s, k > 1, NEW j \in 2..(k - 1), Tells(s[j]),
             \A h \in (j + 1)..(k - 1) : ~Overrides(s[h])
      PROVE  ToldBefore(r, i0, n + (k - 1), b)
  <2>1. j \in DOMAIN s /\ j > 1 /\ j \in 1..(k - 1)
    BY <1>1, <1>7
  <2>2. n + (j - 1) \in i0..((n + (k - 1)) - 1) /\ n + (j - 1) > i0
    BY <1>1, <1>2, <2>1
  <2>3. r[n + (j - 1)] = s[j]
    BY <1>1, <2>1
  <2>4. \A h \in ((n + (j - 1)) + 1)..((n + (k - 1)) - 1) : ~Overrides(r[h])
    BY <1>4, <1>7, <2>1
  <2> DEFINE p == n + (j - 1)
             p1 == n + (k - 1)
  <2>5. p > i0 /\ Tells(r[p])
    BY <1>7, <2>2, <2>3
  <2>6. p \in i0..(p1 - 1) /\ \A h \in (p + 1)..(p1 - 1) : ~Overrides(r[h])
    BY <2>2, <2>4
  <2> HIDE DEF p, p1
  <2>7. ToldBefore(r, i0, p1, b)
    BY <2>5, <2>6, ToldBy
  <2>8. QED
    BY <2>7 DEF p1
<1>8. ASSUME NEW k \in DOMAIN s, k > 1, ToldBefore(s, 1, k, FALSE)
      PROVE  ToldBefore(r, i0, n + (k - 1), b)
  <2>1. PICK j \in 1..(k - 1) :
            /\ j > 1 /\ Tells(s[j])
            /\ \A h \in (j + 1)..(k - 1) : ~Overrides(s[h])
    BY <1>8 DEF ToldBefore
  <2>2. j \in 2..(k - 1)
    BY <1>1, <2>1
  <2>3. QED
    BY <1>7, <1>8, <2>1, <2>2
<1>9. ASSUME NEW k \in DOMAIN s, k > 1, ToldBefore(s, 1, k, b2), ToldBefore(ops, i0, n + 1, b)
      PROVE  ToldBefore(r, i0, n + (k - 1), b)
  <2>1. PICK j \in 1..(k - 1) :
            /\ j = 1 \/ (j > 1 /\ Tells(s[j]))
            /\ \A h \in (j + 1)..(k - 1) : ~Overrides(s[h])
    BY <1>9 DEF ToldBefore
  <2>2. CASE j > 1
    <3>1. j \in 2..(k - 1)
      BY <1>1, <2>1, <2>2
    <3>2. QED
      BY <1>7, <1>9, <2>1, <2>2, <3>1
  <2>3. CASE j = 1
    <3>1. PICK g \in i0..((n + 1) - 1) :
              /\ (g = i0 /\ b) \/ (g > i0 /\ Tells(ops[g]))
              /\ \A h \in (g + 1)..((n + 1) - 1) : ~Overrides(ops[h])
      BY <1>9 DEF ToldBefore
    <3>2. g \in i0..((n + (k - 1)) - 1) /\ g <= n /\ (g > i0 => g \in DOMAIN ops)
      BY <1>1, <1>2, <1>9, <3>1
    <3>3. g > i0 => r[g] = ops[g]
      BY <1>1, <3>2
    <3>4. ASSUME NEW h \in (g + 1)..((n + (k - 1)) - 1)
          PROVE  ~Overrides(r[h])
      <4>1. CASE h <= n
        <5>1. h \in (g + 1)..((n + 1) - 1) /\ h \in DOMAIN ops
          BY <1>1, <1>2, <3>2, <4>1
        <5>2. QED
          BY <1>1, <3>1, <5>1
      <4>2. CASE h > n
        <5>1. h \in Nat /\ (h - n) + 1 \in (j + 1)..(k - 1) /\ (h - n) + 1 \in DOMAIN s
          BY <1>1, <1>2, <2>3, <4>2
        <5>2. QED
          BY <1>3, <2>1, <4>2, <5>1
      <4>3. QED
        BY <1>1, <1>2, <4>1, <4>2
    <3>5. (g = i0 /\ b) \/ (g > i0 /\ Tells(r[g]))
      BY <3>1, <3>3
    <3> DEFINE p1 == n + (k - 1)
    <3>6. g \in i0..(p1 - 1) /\ \A h \in (g + 1)..(p1 - 1) : ~Overrides(r[h])
      BY <3>2, <3>4
    <3> HIDE DEF p1
    <3>7. ToldBefore(r, i0, p1, b)
      BY <3>5, <3>6, ToldBy
    <3>8. QED
      BY <3>7 DEF p1
  <2>4. QED
    BY <2>1, <2>2, <2>3
<1>10. QED
  BY <1>5, <1>6, <1>8, <1>9 DEF n

\* What will have been told was told by the first call, or by one after it.
LEMMA ToldFirst ==
  ASSUME NEW s \in Seq(Frame), NEW k \in DOMAIN s, k > 1, NEW now \in BOOLEAN, ToldBefore(s, 0, k, now)
  PROVE  \/ ToldBefore(s, 1, k, FALSE)
         \/ ToldBefore(s, 1, k, TRUE) /\ (Tells(s[1]) \/ (now /\ ~Overrides(s[1])))
<1>1. k \in Nat
  OBVIOUS
<1>2. PICK j \in 0..(k - 1) :
          /\ (j = 0 /\ now) \/ (j > 0 /\ Tells(s[j]))
          /\ \A h \in (j + 1)..(k - 1) : ~Overrides(s[h])
  BY DEF ToldBefore
<1>3. CASE j = 0
  <2>1. 1 \in (j + 1)..(k - 1) /\ 1 \in 1..(k - 1) /\ \A h \in (1 + 1)..(k - 1) : h \in (j + 1)..(k - 1)
    BY <1>1, <1>3
  <2>2. now /\ ~Overrides(s[1]) /\ \A h \in (1 + 1)..(k - 1) : ~Overrides(s[h])
    BY <1>2, <1>3, <2>1
  <2>3. ToldBefore(s, 1, k, TRUE)
    BY <2>1, <2>2, ToldBy
  <2>4. QED
    BY <2>2, <2>3
<1>4. CASE j = 1
  <2>1. 1 \in 1..(k - 1) /\ Tells(s[1]) /\ \A h \in (1 + 1)..(k - 1) : ~Overrides(s[h])
    BY <1>1, <1>2, <1>4
  <2>2. ToldBefore(s, 1, k, TRUE)
    BY <2>1, ToldBy
  <2>3. QED
    BY <2>1, <2>2
<1>5. CASE j > 1
  <2>1. j \in 1..(k - 1) /\ j > 1 /\ Tells(s[j])
    BY <1>1, <1>2, <1>5
  <2>2. QED
    BY <1>2, <2>1, ToldBy
<1>6. j = 0 \/ j = 1 \/ j > 1
  BY <1>1
<1>7. QED
  BY <1>3, <1>4, <1>5, <1>6

\* A default transition that is due goes on being on its way when the first call is
\* replaced: by what makes it, or looks for it; or a later call takes care of it.
Resumed(ops, d, r) ==
    \/ \E i \in DOMAIN ops : Mends(ops[i], d)
    \/ ops # <<>> /\ Looks(ops[1], r)

LEMMA AwaitedPut ==
  ASSUME NEW s \in Seq(Frame), 1 \in DOMAIN s, NEW ops \in Seq(Frame), NEW r \in Seq(Frame),
         Put(r, ops, s, 1), NEW d, NEW a, NEW b, NEW c, NEW c2, Awaited(s, a, c, d),
         c["vm"] = "off" /\ ~PowersOn(s[1]) =>
             Resumed(ops, d, b) \/ (c2["vm"] = "off" /\ \A i \in DOMAIN ops : ~PowersOn(ops[i])),
         Mends(s[1], d) \/ Looks(s[1], a) \/ (Settles(s[1]) /\ a = "process") => Resumed(ops, d, b),
         Tells(s[1]) \/ (a = "process" /\ ~Overrides(s[1])) =>
             ToldBefore(ops, 0, Len(ops) + 1, b = "process")
  PROVE  Awaited(r, b, c2, d)
<1> DEFINE n == Len(ops)
<1>1. /\ n \in Nat /\ DOMAIN ops = 1..n /\ DOMAIN s \subseteq Nat \ {0}
      /\ \A j \in DOMAIN ops : j \in DOMAIN r /\ r[j] = ops[j]
      /\ \A i \in DOMAIN s : i > 1 => n + (i - 1) \in DOMAIN r /\ r[n + (i - 1)] = s[i]
      /\ \A j \in DOMAIN r :
            \/ j \in DOMAIN ops /\ r[j] = ops[j]
            \/ \E i \in DOMAIN s : i > 1 /\ j = n + (i - 1) /\ r[j] = s[i]
  BY PutCalls
<1>2. ASSUME Resumed(ops, d, b)
      PROVE  Awaited(r, b, c2, d)
  <2>1. CASE \E i \in DOMAIN ops : Mends(ops[i], d)
    BY <1>1, <2>1 DEF Awaited
  <2>2. CASE ops # <<>> /\ Looks(ops[1], b)
    <3>1. 1 \in DOMAIN ops
      BY <2>2
    <3>2. r # <<>> /\ Head(r) = ops[1]
      BY <1>1, <3>1
    <3>3. QED
      BY <2>2, <3>2 DEF Awaited
  <2>3. QED
    BY <1>2, <2>1, <2>2 DEF Resumed
<1>3. CASE c["vm"] = "off" /\ \A j \in DOMAIN s : ~PowersOn(s[j])
  <2>1. CASE c2["vm"] = "off" /\ \A i \in DOMAIN ops : ~PowersOn(ops[i])
    <3>1. \A j \in DOMAIN r : ~PowersOn(r[j])
      BY <1>1, <1>3, <2>1
    <3>2. QED
      BY <2>1, <3>1 DEF Awaited
  <2>2. QED
    BY <1>2, <1>3, <2>1
<1>4. CASE \E j \in DOMAIN s : Mends(s[j], d)
  <2>1. PICK j \in DOMAIN s : Mends(s[j], d)
    BY <1>4
  <2>2. CASE j = 1
    BY <1>2, <2>1, <2>2
  <2>3. CASE j > 1
    BY <1>1, <2>1, <2>3 DEF Awaited
  <2>4. QED
    BY <1>1, <2>2, <2>3
<1>5. CASE s # <<>> /\ Looks(Head(s), a)
  <2>1. Head(s) = s[1]
    OBVIOUS
  <2>2. QED
    BY <1>2, <1>5, <2>1
<1>6. CASE \E k \in DOMAIN s : Settles(s[k]) /\ ToldBefore(s, 0, k, a = "process")
  <2>1. PICK k \in DOMAIN s : Settles(s[k]) /\ ToldBefore(s, 0, k, a = "process")
    BY <1>6
  <2>2. CASE k = 1
    <3>1. PICK j \in 0..(1 - 1) : (j = 0 /\ a = "process") \/ (j > 0 /\ Tells(s[j]))
      BY <2>1, <2>2 DEF ToldBefore
    <3>2. j = 0
      OBVIOUS
    <3>3. QED
      BY <1>2, <2>1, <2>2, <3>1, <3>2
  <2>3. CASE k > 1
    <3>1. (a = "process") \in BOOLEAN /\ (b = "process") \in BOOLEAN /\ 0 \in 0..n
      BY <1>1
    <3>2. \/ ToldBefore(s, 1, k, FALSE)
          \/ ToldBefore(s, 1, k, TRUE) /\ (Tells(s[1]) \/ (a = "process" /\ ~Overrides(s[1])))
      BY <2>1, <2>3, <3>1, ToldFirst
    <3>3. ToldBefore(r, 0, n + (k - 1), b = "process")
      BY <2>3, <3>1, <3>2, ToldPut
    <3>4. n + (k - 1) \in DOMAIN r /\ Settles(r[n + (k - 1)])
      BY <1>1, <2>1, <2>3
    <3> HIDE DEF n
    <3>5. QED
      BY <3>3, <3>4 DEF Awaited
  <2>4. QED
    BY <1>1, <2>2, <2>3
<1>7. QED
  BY <1>3, <1>4, <1>5, <1>6 DEF Awaited

\* What `on` enters it may keep, or it settles next.
LEMMA KeptPut ==
  ASSUME NEW s \in Seq(Frame), 1 \in DOMAIN s, NEW ops \in Seq(Frame), NEW r, Put(r, ops, s, 1),
         NEW d, Kept(s, d),
         \A i \in DOMAIN ops : Enters(ops[i]) => ~PendAt(ops[i].to, d) \/ SettlesThen(ops, s, i)
  PROVE  Kept(r, d)
<1>1. /\ Len(ops) \in Nat /\ DOMAIN ops = 1..Len(ops)
      /\ \A j \in DOMAIN r :
            \/ j \in DOMAIN ops /\ r[j] = ops[j]
            \/ \E i \in DOMAIN s : i > 1 /\ j = Len(ops) + (i - 1) /\ r[j] = s[i]
  BY PutCalls
<1>2. /\ \A i \in DOMAIN s : i > 1 /\ SettlesNext(s, i) => SettlesNext(r, Len(ops) + (i - 1))
      /\ \A j \in 0..Len(ops) : SettlesThen(ops, s, j) => SettlesNext(r, j)
  BY SettlesPut
<1>3. ASSUME NEW j \in DOMAIN r, Enters(r[j])
      PROVE  ~PendAt(r[j].to, d) \/ SettlesNext(r, j)
  <2>1. CASE j \in DOMAIN ops /\ r[j] = ops[j]
    <3>1. j \in 0..Len(ops)
      BY <1>1, <2>1
    <3>2. QED
      BY <1>2, <1>3, <2>1, <3>1
  <2>2. ASSUME NEW i \in DOMAIN s, i > 1, j = Len(ops) + (i - 1), r[j] = s[i]
        PROVE  ~PendAt(r[j].to, d) \/ SettlesNext(r, j)
    BY <1>2, <1>3, <2>2 DEF Kept
  <2>3. QED
    BY <1>1, <2>1, <2>2
<1>4. QED
  BY <1>3 DEF Kept

\* Only a call that may sell is replaced by one, and the next answer is then `process`.
LEMMA SoldPut ==
  ASSUME NEW s \in Seq(Frame), 1 \in DOMAIN s, NEW ops \in Seq(Frame), NEW r, Put(r, ops, s, 1),
         \A i \in DOMAIN s : Trade(s[i]) => Sold(s, i),
         \A i \in DOMAIN ops : Trade(ops[i]) =>
             Sold(ops, i) \/ (Trade(s[1]) /\ ToldBefore(ops, i, Len(ops) + 1, ~Sells(ops[i])))
  PROVE  \A j \in DOMAIN r : Trade(r[j]) => Sold(r, j)
<1> DEFINE n == Len(ops)
<1>1. /\ n \in Nat /\ DOMAIN ops = 1..n /\ DOMAIN s \subseteq Nat \ {0}
      /\ \A j \in DOMAIN ops : j \in DOMAIN r /\ r[j] = ops[j]
      /\ \A i \in DOMAIN s : i > 1 => n + (i - 1) \in DOMAIN r /\ r[n + (i - 1)] = s[i]
      /\ \A j \in DOMAIN r :
            \/ j \in DOMAIN ops /\ r[j] = ops[j]
            \/ \E i \in DOMAIN s : i > 1 /\ j = n + (i - 1) /\ r[j] = s[i]
  BY PutCalls
<1>2. ASSUME NEW j \in DOMAIN ops, Trade(ops[j])
      PROVE  Sold(r, j)
  <2>1. j \in 0..n /\ (~Sells(ops[j])) \in BOOLEAN /\ r[j] = ops[j]
    BY <1>1
  <2>2. CASE Sold(ops, j)
    <3>1. PICK k \in DOMAIN ops : k > j /\ Asks(ops[k]) /\ ToldBefore(ops, j, k, ~Sells(ops[j]))
      BY <2>2 DEF Sold
    <3>2. ToldBefore(r, j, k, ~Sells(ops[j]))
      BY <2>1, <3>1, ToldPut
    <3>3. k \in DOMAIN r /\ r[k] = ops[k]
      BY <1>1
    <3>4. QED
      BY <2>1, <3>1, <3>2, <3>3 DEF Sold
  <2>3. CASE Trade(s[1]) /\ ToldBefore(ops, j, n + 1, ~Sells(ops[j]))
    <3>1. PICK k \in DOMAIN s : k > 1 /\ Asks(s[k]) /\ ToldBefore(s, 1, k, ~Sells(s[1]))
      BY <2>3 DEF Sold
    <3>2. (~Sells(s[1])) \in BOOLEAN
      OBVIOUS
    <3>3. ToldBefore(r, j, n + (k - 1), ~Sells(ops[j]))
      BY <2>1, <2>3, <3>1, <3>2, ToldPut
    <3>4. n + (k - 1) \in DOMAIN r /\ r[n + (k - 1)] = s[k] /\ n + (k - 1) > j
      BY <1>1, <2>1, <3>1
    <3> HIDE DEF n
    <3>5. QED
      BY <2>1, <3>1, <3>3, <3>4 DEF Sold
  <2>4. QED
    BY <1>2, <2>2, <2>3
<1>3. ASSUME NEW i \in DOMAIN s, i > 1, Trade(s[i])
      PROVE  Sold(r, n + (i - 1))
  <2>1. PICK k \in DOMAIN s : k > i /\ Asks(s[k]) /\ ToldBefore(s, i, k, ~Sells(s[i]))
    BY <1>3 DEF Sold
  <2>2. (~Sells(s[i])) \in BOOLEAN /\ 0 \in 0..n /\ k > 1
    BY <1>1, <1>3, <2>1
  <2>3. ToldBefore(r, n + (i - 1), n + (k - 1), ~Sells(s[i]))
    BY <1>3, <2>1, <2>2, ToldPut
  <2>4. /\ n + (k - 1) \in DOMAIN r /\ r[n + (k - 1)] = s[k] /\ n + (k - 1) > n + (i - 1)
        /\ r[n + (i - 1)] = s[i]
    BY <1>1, <1>3, <2>1, <2>2
  <2> HIDE DEF n
  <2>5. QED
    BY <2>1, <2>3, <2>4 DEF Sold
<1>4. QED
  BY <1>1, <1>2, <1>3

\* An action that replaces the first call, and leaves alone what is due.
LEMMA PendDo ==
  ASSUME TypeOK, StackInv, PendInv, todo # <<>>,
         NEW ops \in Seq(Frame), Do(ops), current'["on"] = current["on"], facts' = facts,
         PendAt(current["on"], facts) =>
             /\ current["vm"] = "off" /\ ~PowersOn(Head(todo)) =>
                    \/ Resumed(ops, facts, res')
                    \/ current'["vm"] = "off" /\ \A i \in DOMAIN ops : ~PowersOn(ops[i])
             /\ \/ Mends(Head(todo), facts) \/ Looks(Head(todo), res)
                \/ Settles(Head(todo)) /\ res = "process"
                => Resumed(ops, facts, res')
             /\ Tells(Head(todo)) \/ (res = "process" /\ ~Overrides(Head(todo))) =>
                    ToldBefore(ops, 0, Len(ops) + 1, res' = "process"),
         \A i \in DOMAIN ops :
             /\ Enters(ops[i]) => ~PendAt(ops[i].to, facts) \/ SettlesThen(ops, todo, i)
             /\ Trade(ops[i]) =>
                   \/ Sold(ops, i)
                   \/ Trade(Head(todo)) /\ ToldBefore(ops, i, Len(ops) + 1, ~Sells(ops[i]))
  PROVE  PendInv'
<1>1. /\ todo \in Seq(Frame) /\ Kept(todo, facts) /\ \A i \in DOMAIN todo : Trade(todo[i]) => Sold(todo, i)
      /\ PendAt(current["on"], facts) => Awaited(todo, res, current, facts)
  BY FirstCall DEF PendInv
<1>2. /\ Put(todo', ops, todo, 1) /\ 1 \in DOMAIN todo /\ Head(todo) = todo[1]
      /\ todo' \in Seq(Frame)
  <2>1. Tail(todo) \in Seq(Frame)
    BY <1>1, TailFacts
  <2>2. ops \o Tail(todo) \in Seq(Frame)
    BY <2>1
  <2>3. QED
    BY <1>1, <2>2, PutFirst DEF Do
<1>3. PendAt(current["on"], facts) => Awaited(todo', res', current', facts)
  BY <1>1, <1>2, AwaitedPut
<1>4. Kept(todo', facts)
  BY <1>1, <1>2, KeptPut
<1>5. \A j \in DOMAIN todo' : Trade(todo'[j]) => Sold(todo', j)
  BY <1>1, <1>2, SoldPut
<1>6. QED
  BY <1>3, <1>4, <1>5 DEF PendInv

-----------------------------------------------------------------------------
(* Default transitions: the actions *)

\* The rows of `on` that lead to where it may not stay, and what only `vm` has.
LEMMA ClosingRows ==
  /\ Table["on"][1].event = None /\ Table["on"][2].event = None
  /\ Table["on"][1].from = "serving" /\ Table["on"][1].to = "out_of_service"
  /\ Table["on"][2].from = "out_of_service" /\ Table["on"][2].to = "serving"
  /\ Table["on"][1].guard = "is_empty" /\ Table["on"][2].guard = "not_empty"
<1>1. Table["on"] = OnRows
  BY MachineAssumption DEF VendTable
<1> DEFINE a == tr("serving", None, "out_of_service", "is_empty")
           b == tr("out_of_service", None, "serving", "not_empty")
           c == tr("serving", "start_maintenance", "maintenance", "check_secret")
           d == tr("out_of_service", "start_maintenance", "maintenance", "check_secret")
           f == tr("maintenance", "end_maintenance", "serving", "may_leave")
<1>2. OnRows = <<a, b, c, d, f>>
  BY DEF OnRows
<1> HIDE DEF a, b, c, d, f
<1>3. OnRows[1] = a /\ OnRows[2] = b
  BY <1>2
<1>4. QED
  BY <1>1, <1>3 DEF a, b, tr

\* While a default transition is due, `on` that looks for one finds it.
LEMMA LooksFinds ==
  ASSUME NEW f, Looks(f, res), PendAt(current["on"], facts)
  PROVE  \E i \in {1, 2} :
            /\ i \in Candidates(f) /\ Candidates(f) \subseteq 1..5
            /\ \A j \in Candidates(f) \cap {1, 2} : j = i
            /\ ~PendAt(Table["on"][i].to, facts)
            /\ \A e : Holds(Table["on"][i].guard, e, facts)
<1>1. f.op = "rows" /\ f.of = "on" /\ f.event = None /\ f.row = 1 /\ res = "refuse" /\ Kind(f.event) = None
  BY DEF Looks, Rows, Kind
<1>2. Candidates(f) = {i \in 1..5 : Table["on"][i].event = None /\ Table["on"][i].from = current["on"]}
  BY <1>1, VendRows DEF Candidates
<1>3. CASE current["on"] = "serving"
  <2>1. IsEmpty(facts)
    BY <1>3 DEF PendAt
  <2>2. 1 \in Candidates(f) /\ 2 \notin Candidates(f)
    BY <1>2, <1>3, ClosingRows
  <2>3. ~PendAt("out_of_service", facts)
    BY <2>1 DEF PendAt
  <2>4. \A e : Holds("is_empty", e, facts)
    BY <2>1 DEF Holds
  <2>5. Candidates(f) \subseteq 1..5
    BY <1>2
  <2>6. QED
    BY <2>2, <2>3, <2>4, <2>5, ClosingRows
<1>4. CASE current["on"] = "out_of_service"
  <2>1. ~IsEmpty(facts)
    BY <1>4 DEF PendAt
  <2>2. 2 \in Candidates(f) /\ 1 \notin Candidates(f)
    BY <1>2, <1>4, ClosingRows
  <2>3. ~PendAt("serving", facts)
    BY <2>1 DEF PendAt
  <2>4. \A e : Holds("not_empty", e, facts)
    BY <2>1 DEF Holds
  <2>5. Candidates(f) \subseteq 1..5
    BY <1>2
  <2>6. QED
    BY <2>2, <2>3, <2>4, <2>5, ClosingRows
<1>5. QED
  BY <1>3, <1>4 DEF PendAt

\* The one of them that is tried.
LEMMA LooksTakes ==
  ASSUME NEW f, Looks(f, res), PendAt(current["on"], facts), NEW e
  PROVE  LET i == First(Candidates(f)) IN
         ~PendAt(Table["on"][i].to, facts) /\ Holds(Table["on"][i].guard, e, facts)
<1>1. PICK i \in {1, 2} :
          /\ i \in Candidates(f) /\ Candidates(f) \subseteq 1..5
          /\ \A j \in Candidates(f) \cap {1, 2} : j = i
          /\ ~PendAt(Table["on"][i].to, facts)
          /\ \A g : Holds(Table["on"][i].guard, g, facts)
  BY LooksFinds
<1>2. Candidates(f) \in SUBSET Nat /\ Candidates(f) # {}
  BY <1>1
<1>3. First(Candidates(f)) \in Candidates(f) /\ First(Candidates(f)) <= i
  BY <1>1, <1>2, FirstOf
<1>4. First(Candidates(f)) \in {1, 2}
  BY <1>1, <1>3
<1>5. First(Candidates(f)) = i
  BY <1>1, <1>3, <1>4
<1>6. QED
  BY <1>1, <1>5

\* Calls by what they have to do with default transitions.
Aside(f) == ~Enters(f) /\ ~PowersOn(f) /\ ~Trade(f)

LEMMA AsideKinds ==
  ASSUME NEW n, NEW e, NEW i, NEW kind
  PROVE  /\ \A name \in {"settle", "default", "exit", "clear", "enter"} : Aside(Op(name, n, e))
         /\ Aside(InternalRows(n, i)) /\ Aside(Answer(n))
         /\ \A name \in {"settle", "exit", "clear"} : ~Overrides(Op(name, n, e))
         /\ ~Overrides(InternalRows(n, i)) /\ ~Overrides(Rows(n, e, i))
         /\ ~Overrides(Call(kind, n, i, e)) /\ ~Overrides(SetCurrent(n, e))
         /\ (Overrides(Answer(n)) <=> n # "process") /\ (Tells(Answer(n)) <=> n = "process")
         /\ ~Enters(Rows(n, e, i)) /\ ~PowersOn(Rows(n, e, i))
         /\ Tells(SetCurrent(n, e)) /\ (PowersOn(SetCurrent(n, e)) <=> n = "vm" /\ e = "on")
         /\ ~Enters(Op("dispatch", n, e)) /\ ~PowersOn(Op("dispatch", n, e))
         /\ ~Sells(Op("dispatch", n, e)) /\ ~Sells(Rows(n, e, i))
         /\ ~Enters(Call(kind, n, i, e)) /\ ~PowersOn(Call(kind, n, i, e))
<1> USE DEF Aside, Enters, PowersOn, Trade, Sells, Overrides, Tells
<1>1. /\ \A name \in {"settle", "default", "exit", "clear", "enter"} : Aside(Op(name, n, e))
      /\ \A name \in {"settle", "exit", "clear"} : ~Overrides(Op(name, n, e))
      /\ ~Enters(Op("dispatch", n, e)) /\ ~PowersOn(Op("dispatch", n, e)) /\ ~Sells(Op("dispatch", n, e))
  BY DEF Op
<1>2. Aside(InternalRows(n, i)) /\ ~Overrides(InternalRows(n, i))
  BY DEF InternalRows
<1>3. Aside(Answer(n)) /\ (Overrides(Answer(n)) <=> n # "process") /\ (Tells(Answer(n)) <=> n = "process")
  BY DEF Answer
<1>4. /\ ~Overrides(Rows(n, e, i)) /\ ~Enters(Rows(n, e, i)) /\ ~PowersOn(Rows(n, e, i))
      /\ ~Sells(Rows(n, e, i))
  BY DEF Rows
<1>5. ~Overrides(Call(kind, n, i, e)) /\ ~Enters(Call(kind, n, i, e)) /\ ~PowersOn(Call(kind, n, i, e))
  BY DEF Call
<1>6. /\ ~Overrides(SetCurrent(n, e)) /\ Tells(SetCurrent(n, e))
      /\ (PowersOn(SetCurrent(n, e)) <=> n = "vm" /\ e = "on")
  BY DEF SetCurrent
<1>7. QED
  BY <1>1, <1>2, <1>3, <1>4, <1>5, <1>6

\* An action that leaves alone what `vm` and `on` are in, and the goods.
Steady == current'["on"] = current["on"] /\ current'["vm"] = current["vm"] /\ facts' = facts

\* The first call has nothing to do with default transitions, and neither do those
\* in its place.
LEMMA AsideDo ==
  ASSUME TypeOK, StackInv, PendInv, todo # <<>>, Steady,
         NEW ops \in Seq(Frame), Do(ops), \A i \in DOMAIN ops : Aside(ops[i]),
         \/ Mends(Head(todo), facts)
         \/ PendAt(current["on"], facts) /\ Looks(Head(todo), res)
         \/ Settles(Head(todo)) /\ res = "process"
         => Resumed(ops, facts, res'),
         Tells(Head(todo)) \/ (res = "process" /\ ~Overrides(Head(todo))) =>
             ToldBefore(ops, 0, Len(ops) + 1, res' = "process")
  PROVE  PendInv'
BY PendDo DEF Aside, Steady

\* A call that returns.
LEMMA PendNone ==
  ASSUME TypeOK, StackInv, PendInv, todo # <<>>, Steady, Do(<<>>),
         ~Mends(Head(todo), facts), ~(PendAt(current["on"], facts) /\ Looks(Head(todo), res)),
         ~(Settles(Head(todo)) /\ res = "process"),
         Tells(Head(todo)) \/ (res = "process" /\ ~Overrides(Head(todo))) => res' = "process"
  PROVE  PendInv'
<1>1. <<>> \in Seq(Frame) /\ DOMAIN <<>> = {} /\ Len(<<>>) = 0
  OBVIOUS
<1>2. res' = "process" => ToldBefore(<<>>, 0, 0 + 1, res' = "process")
  BY DEF ToldBefore
<1>3. Tells(Head(todo)) \/ (res = "process" /\ ~Overrides(Head(todo))) =>
          ToldBefore(<<>>, 0, Len(<<>>) + 1, res' = "process")
  BY <1>1, <1>2
<1>4. QED
  BY ONLY <1>1, <1>3, TypeOK, StackInv, PendInv, todo # <<>>, Steady, Do(<<>>),
     ~Mends(Head(todo), facts), ~(PendAt(current["on"], facts) /\ Looks(Head(todo), res)),
     ~(Settles(Head(todo)) /\ res = "process"), AsideDo

\* What takes the place of the first call overrides nothing, and the answer stays.
LEMMA ToldQuiet ==
  ASSUME NEW ops \in Seq(Frame), NEW now \in BOOLEAN, now, \A i \in DOMAIN ops : ~Overrides(ops[i])
  PROVE  ToldBefore(ops, 0, Len(ops) + 1, now)
<1>1. Len(ops) \in Nat /\ DOMAIN ops = 1..Len(ops)
  OBVIOUS
<1>2. 0 \in 0..((Len(ops) + 1) - 1) /\ \A h \in (0 + 1)..((Len(ops) + 1) - 1) : h \in DOMAIN ops
  BY <1>1
<1>3. QED
  BY <1>2, ToldBy

\* The rows of `on` that are for no event are the only ones in the machine.
LEMMA DefaultRows ==
  ASSUME NEW m \in Machines, NEW i \in DOMAIN Table[m], Table[m][i].event = None
  PROVE  m = "on" /\ i \in {1, 2}
<1>1. ASSUME NEW t \in {"power_on", "power_off", "end_maintenance", "load_done"}
      PROVE  t # None
  <2> DEFINE e == [type |-> t]
  <2>1. e \in Signals
    BY DEF Signals
  <2>2. e \in VendEvents
    BY <2>1 DEF VendEvents
  <2>3. VendTypeOf[e] = t
    BY <2>2 DEF VendTypeOf
  <2>4. e \in DOMAIN TypeOf /\ TypeOf[e] = t
    BY <2>2, <2>3, MachineAssumption DEF VendTypeOf
  <2>5. t \in Range(TypeOf)
    BY <2>4 DEF Range
  <2>6. QED
    BY <2>5, TableAssumption
<1>2. /\ "power_on" # None /\ "power_off" # None /\ "end_maintenance" # None /\ "load_done" # None
      /\ "start_maintenance" # None /\ "load_goods" # None /\ "money" # None /\ "select_item" # None
  BY <1>1, MachineAssumption
<1>3. m \in {"vm", "on", "maintenance", "serving"}
  BY VendTree
<1>4. CASE m = "vm"
  <2> DEFINE a == tr("off", "power_on", "on", "none")
             b == tr("on", "power_off", "off", "none")
  <2>1. Table[m] = <<a, b>>
    BY <1>4, MachineAssumption DEF VendTable, MachineRows
  <2>2. a.event # None /\ b.event # None
    BY <1>2 DEF tr
  <2> HIDE DEF a, b
  <2>3. QED
    BY <2>1, <2>2
<1>5. CASE m = "maintenance"
  <2> DEFINE a == tr("m_idle", "load_goods", "loading", "check_amount")
             b == tr("loading", "load_done", "m_idle", "none")
  <2>1. Table[m] = <<a, b>>
    BY <1>5, MachineAssumption DEF VendTable, MaintenanceRows
  <2>2. a.event # None /\ b.event # None
    BY <1>2 DEF tr
  <2> HIDE DEF a, b
  <2>3. QED
    BY <2>1, <2>2
<1>6. CASE m = "serving"
  <2> DEFINE a == tr("s_idle", "money", "active", "none")
             b == tr("active", "money", "active", "none")
             c == tr("active", "select_item", "s_idle", "can_sell")
  <2>1. Table[m] = <<a, b, c>>
    BY <1>6, MachineAssumption DEF VendTable, ServingRows
  <2>2. a.event # None /\ b.event # None /\ c.event # None
    BY <1>2 DEF tr
  <2> HIDE DEF a, b, c
  <2>3. QED
    BY <2>1, <2>2
<1>7. CASE m = "on"
  <2> DEFINE a == tr("serving", None, "out_of_service", "is_empty")
             b == tr("out_of_service", None, "serving", "not_empty")
             c == tr("serving", "start_maintenance", "maintenance", "check_secret")
             d == tr("out_of_service", "start_maintenance", "maintenance", "check_secret")
             f == tr("maintenance", "end_maintenance", "serving", "may_leave")
  <2>1. Table[m] = <<a, b, c, d, f>>
    BY <1>7, MachineAssumption DEF VendTable, OnRows
  <2>2. c.event # None /\ d.event # None /\ f.event # None
    BY <1>2 DEF tr
  <2> HIDE DEF a, b, c, d, f
  <2>3. i \in 1..5 /\ i \notin {3, 4, 5}
    BY <2>1, <2>2
  <2>4. QED
    BY <1>7, <2>3
<1>8. QED
  BY <1>3, <1>4, <1>5, <1>6, <1>7

LEMMA DispatchPend ==
  ASSUME TypeOK, StackInv, PendInv, Dispatch
  PROVE  PendInv'
<1> DEFINE f == Head(todo)
           n == f.of
<1>1. /\ todo # <<>> /\ f.op = "dispatch" /\ Steady /\ DispatchTo(n)
      /\ ~Mends(f, facts) /\ ~Looks(f, res) /\ ~Settles(f) /\ ~Tells(f) /\ Overrides(f)
  BY DEF Dispatch, Doing, Steady, tree, program, Mends, Looks, Settles, Tells, Overrides, Enters, Rows
<1>2. f \in Frame /\ event \in Events /\ event # None
  BY <1>1, FirstCall
<1>3. n \in States
  BY <1>1, <1>2, FrameFields DEF OpNames
<1>4. CASE Do(<<>>)
  BY <1>1, <1>4, PendNone
<1>5. CASE n \in Machines /\ Do(MachineDispatch(n))
  <2> DEFINE a == Op("dispatch", current[n], event)
             b == Rows(n, event, 1)
             c == Op("settle", n, None)
             d == InternalRows(n, 1)
             ops == MachineDispatch(n)
  <2>1. /\ ops \in Seq(Frame) /\ DOMAIN ops = {1, 2, 3, 4} /\ Len(ops) = 4
        /\ ops[1] = a /\ ops[2] = b /\ ops[3] = c /\ ops[4] = d
    <3>1. ops \in Seq(Frame) /\ DOMAIN ops = {1, 2, 3, 4}
      BY <1>2, <1>5, MachineCalls
    <3>2. ops = <<a, b, c, d>>
      BY DEF MachineDispatch
    <3> HIDE DEF a, b, c, d, ops
    <3>3. QED
      BY <3>1, <3>2
  <2>2. /\ Aside(c) /\ Aside(d) /\ ~Overrides(c) /\ ~Overrides(d)
        /\ ~Enters(a) /\ ~PowersOn(a) /\ ~Enters(b) /\ ~PowersOn(b) /\ ~Sells(a) /\ ~Sells(b)
    BY AsideKinds
  <2>3. Trade(a) => n = "on"
    <3>1. current[n] \in Children(n)
      BY <1>5 DEF TypeOK
    <3>2. Trade(a) <=> current[n] = "serving"
      BY CallKinds
    <3>3. current[n] = "serving" => n = "on"
      BY <3>1, VendTree
    <3> HIDE DEF a
    <3>4. QED
      BY <3>2, <3>3
  <2>4. (Trade(b) => Trade(f)) /\ (n = "on" => Asks(b))
    <3>1. (Trade(b) => n = "serving") /\ (Asks(b) <=> n = "on")
      BY <1>2, CallKinds
    <3>2. n = "serving" => Trade(f)
      BY <1>1 DEF Trade
    <3> HIDE DEF b
    <3>3. QED
      BY <3>1, <3>2
  <2> HIDE DEF a, b, c, d, ops
  <2>5. Trade(a) => Sold(ops, 1)
    <3>1. 1 \in 1..(2 - 1) /\ \A h \in (1 + 1)..(2 - 1) : FALSE
      OBVIOUS
    <3>2. ToldBefore(ops, 1, 2, ~Sells(ops[1]))
      BY <2>1, <2>2, <3>1 DEF ToldBefore
    <3>3. QED
      BY <2>1, <2>3, <2>4, <3>2 DEF Sold
  <2>6. ToldBefore(ops, 2, 4 + 1, ~Sells(ops[2]))
    <3>1. 2 \in 2..((4 + 1) - 1) /\ \A h \in (2 + 1)..((4 + 1) - 1) : h = 3 \/ h = 4
      OBVIOUS
    <3>2. \A h \in (2 + 1)..((4 + 1) - 1) : ~Overrides(ops[h])
      BY <2>1, <2>2, <3>1
    <3>3. QED
      BY <2>1, <2>2, <3>1, <3>2 DEF ToldBefore
  <2>7. ASSUME NEW i \in DOMAIN ops
        PROVE  /\ ~Enters(ops[i]) /\ ~PowersOn(ops[i])
               /\ Trade(ops[i]) =>
                     Sold(ops, i) \/ (Trade(f) /\ ToldBefore(ops, i, Len(ops) + 1, ~Sells(ops[i])))
    <3>1. CASE i = 1
      BY <2>1, <2>2, <2>5, <3>1
    <3>2. CASE i = 2
      BY <2>1, <2>2, <2>4, <2>6, <3>2
    <3>3. CASE i \in {3, 4}
      BY <2>1, <2>2, <3>3 DEF Aside
    <3>4. QED
      BY <2>1, <3>1, <3>2, <3>3
  <2>8. Do(ops)
    BY <1>5 DEF ops
  <2> HIDE DEF f
  <2>9. QED
    BY <1>1, <2>1, <2>7, <2>8, PendDo DEF Steady, f
<1>6. CASE n \notin Machines /\ Do(StateDispatch(n))
  <2> DEFINE g == InternalRows(n, 1)
  <2>1. g \in Frame /\ Aside(g)
    BY <1>3, InternalFrame, AsideKinds
  <2>2. StateDispatch(n) = <<g>>
    BY DEF StateDispatch
  <2> HIDE DEF g
  <2>3. <<g>> \in Seq(Frame) /\ \A i \in DOMAIN <<g>> : Aside(<<g>>[i])
    BY <2>1, OneCall
  <2>4. Do(<<g>>)
    BY <1>6, <2>2
  <2>5. QED
    BY <1>1, <2>3, <2>4, AsideDo
<1>7. QED
  <2>1. n \notin Orthogonal
    BY VendTree
  <2>2. \/ Do(<<>>)
        \/ Do(CASE n \in Machines -> MachineDispatch(n) [] OTHER -> StateDispatch(n))
    BY <1>1, <2>1 DEF DispatchTo, Return
  <2>3. CASE n \in Machines
    BY <1>4, <1>5, <2>2, <2>3
  <2>4. CASE n \notin Machines
    BY <1>4, <1>6, <2>2, <2>4
  <2>5. QED
    BY <2>3, <2>4

LEMMA NoMoreRowsPend ==
  ASSUME TypeOK, StackInv, PendInv, NoMoreRows
  PROVE  PendInv'
<1> DEFINE f == Head(todo)
<1>1. /\ todo # <<>> /\ Steady /\ Do(<<>>) /\ res' = res
      /\ \/ f.op = "rows" /\ Candidates(f) = {}
         \/ f.op = "internal"
      /\ ~Mends(f, facts) /\ ~Settles(f) /\ ~Tells(f)
  BY DEF NoMoreRows, Doing, Steady, tree, program, Mends, Settles, Tells, Enters
<1>2. ~(PendAt(current["on"], facts) /\ Looks(f, res))
  <2>1. Looks(f, res) => f.op = "rows"
    BY DEF Looks, Rows
  <2> HIDE DEF f
  <2>2. QED
    BY <1>1, <2>1, LooksFinds
<1>3. QED
  BY <1>1, <1>2, PendNone

LEMMA SettlePend ==
  ASSUME TypeOK, StackInv, PendInv, Settle
  PROVE  PendInv'
<1> DEFINE f == Head(todo)
           a == Op("default", f.of, None)
           b == Answer("process")
<1>1. /\ todo # <<>> /\ f.op = "settle" /\ Steady /\ res' = res
      /\ Do(IF res = "process" THEN <<a, b>> ELSE <<>>)
      /\ ~Mends(f, facts) /\ ~Looks(f, res) /\ ~Tells(f)
      /\ Settles(f) => f.of = "on"
  BY DEF Settle, Doing, Steady, tree, program, Mends, Looks, Settles, Tells, Enters, Rows
<1>2. f \in Frame /\ f.of \in States
  BY <1>1, FirstCall, FrameFields DEF OpNames
<1>3. a \in Frame /\ b \in Frame
  BY <1>2, OpFrame, AnswerFrame DEF OpNames, Answers
<1>4. Aside(a) /\ Aside(b) /\ Tells(b) /\ (f.of = "on" => Mends(a, facts))
  <2>1. Aside(a) /\ Aside(b) /\ Tells(b)
    BY AsideKinds
  <2>2. f.of = "on" => Mends(a, facts)
    BY DEF Op, Mends
  <2>3. QED
    BY <2>1, <2>2
<1> HIDE DEF a, b, f
<1>5. /\ <<a, b>> \in Seq(Frame) /\ DOMAIN <<a, b>> = {1, 2} /\ <<a, b>>[1] = a /\ <<a, b>>[2] = b
      /\ <<a, b>> # <<>> /\ Len(<<a, b>>) = 2
  BY <1>3
<1>6. CASE res = "process"
  <2>1. Settles(f) => Resumed(<<a, b>>, facts, res')
    BY <1>1, <1>4, <1>5 DEF Resumed
  <2>2. ToldBefore(<<a, b>>, 0, 2 + 1, res' = "process")
    <3>1. 2 \in 0..((2 + 1) - 1) /\ 2 > 0 /\ \A h \in (2 + 1)..((2 + 1) - 1) : FALSE
      OBVIOUS
    <3>2. QED
      BY <1>4, <1>5, <3>1 DEF ToldBefore
  <2>3. Do(<<a, b>>)
    BY <1>1, <1>6
  <2>4. \A i \in DOMAIN <<a, b>> : Aside(<<a, b>>[i])
    BY <1>4, <1>5
  <2>5. QED
    BY <1>1, <1>5, <2>1, <2>2, <2>3, <2>4, AsideDo DEF f
<1>7. CASE res # "process"
  BY <1>1, <1>7, PendNone DEF f
<1>8. QED
  BY <1>6, <1>7

LEMMA CheckDefaultPend ==
  ASSUME TypeOK, StackInv, PendInv, CheckDefault
  PROVE  PendInv'
<1> DEFINE f == Head(todo)
           a == Rows(f.of, None, 1)
<1>1. /\ todo # <<>> /\ f.op = "default" /\ Steady /\ res' = "refuse" /\ Do(<<a>>)
      /\ ~Looks(f, res) /\ ~Settles(f) /\ ~Tells(f) /\ Overrides(f)
      /\ Mends(f, facts) => f.of = "on"
  BY DEF CheckDefault, Doing, Steady, tree, program, Mends, Looks, Settles, Tells, Enters, Rows, Overrides
<1>2. f.of \in Machines
  BY <1>1, FirstCall DEF Fits, FitsTransition
<1>3. a \in Frame
  BY <1>2, RowsFrame
<1>4. Aside(a)
  <2>1. ~Trade(a)
    BY CallKinds
  <2>2. ~Enters(a) /\ ~PowersOn(a)
    BY AsideKinds
  <2>3. QED
    BY <2>1, <2>2 DEF Aside
<1>5. f.of = "on" => Looks(a, res')
  BY <1>1 DEF Looks
<1> HIDE DEF a
<1>6. <<a>> \in Seq(Frame) /\ DOMAIN <<a>> = {1} /\ <<a>>[1] = a /\ <<a>> # <<>>
  BY <1>3
<1>7. Mends(f, facts) => Resumed(<<a>>, facts, res')
  BY <1>1, <1>5, <1>6 DEF Resumed
<1>8. QED
  BY <1>1, <1>4, <1>6, <1>7, AsideDo

LEMMA ReturnPend ==
  ASSUME TypeOK, StackInv, PendInv, GiveAnswer \/ LeaveTry
  PROVE  PendInv'
<1> DEFINE f == Head(todo)
<1>1. /\ todo # <<>> /\ f.op \in {"answer", "try"} /\ Steady /\ Do(<<>>)
      /\ f.op = "answer" => res' = f.of
      /\ f.op = "try" => res' = res
  BY DEF GiveAnswer, LeaveTry, Doing, Return, Steady, tree, program
<1>2. /\ ~Mends(f, facts) /\ ~Looks(f, res) /\ ~Settles(f)
      /\ Tells(f) \/ ~Overrides(f) => f.op = "try" \/ f.of = "process"
      /\ Tells(f) => f.op = "answer"
  BY <1>1 DEF Mends, Looks, Settles, Tells, Enters, Rows, Overrides
<1>3. Tells(f) \/ (res = "process" /\ ~Overrides(f)) => res' = "process"
  BY <1>1, <1>2
<1>4. QED
  BY <1>1, <1>2, <1>3, PendNone

LEMMA TestInternalRowPend ==
  ASSUME TypeOK, StackInv, PendInv, TestInternalRow
  PROVE  PendInv'
<1> DEFINE f == Head(todo)
           i == First(InternalCandidates(f))
           a == Call("internal", f.of, i, event)
           b == Answer("in_state")
           again == InternalRows(f.of, i + 1)
<1>1. /\ todo # <<>> /\ f.op = "internal" /\ Steady
      /\ ~Mends(f, facts) /\ ~Looks(f, res) /\ ~Settles(f) /\ ~Tells(f)
      /\ InternalCandidates(f) # {}
      /\ \E v : Do(IF v THEN <<a, b>> ELSE <<again>>)
  BY DEF TestInternalRow, Doing, Steady, tree, program, Mends, Looks, Settles, Tells, Enters, Rows
<1>2. f \in Frame /\ f.row >= 1 /\ f.of \in States /\ event \in Events
  BY <1>1, FirstCall, FrameFields DEF Fits, FitsDispatch
<1>3. i \in Nat /\ i + 1 \in Nat
  BY <1>1, <1>2, FirstInternalCandidate
<1>4. a \in Frame /\ b \in Frame /\ again \in Frame
  BY <1>2, <1>3, CallFrame, AnswerFrame, InternalFrame DEF Answers
<1>5. res # "process"
  BY <1>1 DEF InternalCandidates
<1>6. Aside(a) /\ Aside(b) /\ Aside(again)
  <2>1. ~Trade(a)
    BY HandlerKinds
  <2>2. ~Enters(a) /\ ~PowersOn(a) /\ Aside(b) /\ Aside(again)
    BY AsideKinds
  <2>3. QED
    BY <2>1, <2>2 DEF Aside
<1> HIDE DEF a, b, again, i, f
<1>7. CASE Do(<<a, b>>)
  <2>1. <<a, b>> \in Seq(Frame) /\ DOMAIN <<a, b>> = {1, 2} /\ <<a, b>>[1] = a /\ <<a, b>>[2] = b
    BY <1>4
  <2>2. \A j \in DOMAIN <<a, b>> : Aside(<<a, b>>[j])
    BY <1>6, <2>1
  <2>3. QED
    BY <1>1, <1>5, <1>7, <2>1, <2>2, AsideDo DEF f
<1>8. CASE Do(<<again>>)
  <2>1. <<again>> \in Seq(Frame) /\ DOMAIN <<again>> = {1} /\ <<again>>[1] = again
    BY <1>4
  <2>2. \A j \in DOMAIN <<again>> : Aside(<<again>>[j])
    BY <1>6, <2>1
  <2>3. QED
    BY <1>1, <1>5, <1>8, <2>1, <2>2, AsideDo DEF f
<1>9. QED
  BY <1>1, <1>7, <1>8

\* The guards of `on` have looked at what is left.
LEMMA TestRowPend ==
  ASSUME Programmed, TypeOK, StackInv, PriceInv, PendInv, TestRow
  PROVE  PendInv'
<1> DEFINE f == Head(todo)
           m == f.of
           i == First(Candidates(f))
           r == Table[m][i]
           v == Holds(r.guard, f.event, facts)
           ops == Transition(m, f.event, i)
           again == Rows(m, f.event, i + 1)
<1>1. /\ todo # <<>> /\ f.op = "rows" /\ Steady /\ Candidates(f) # {}
      /\ ~Mends(f, facts) /\ ~Settles(f) /\ ~Tells(f)
      /\ Do(IF v THEN ops ELSE <<again>>)
  BY DEF TestRow, Doing, Steady, tree, program, Enters, Programmed, VendVerdicts, Mends, Settles, Tells
<1>2. f \in Frame /\ f.row >= 1 /\ m \in Machines /\ f.event \in Events \cup {None} /\ f.row \in Nat
  BY <1>1, FirstCall, FrameFields DEF Fits, FitsDispatch
<1>3. /\ i \in DOMAIN Table[m] /\ i \in Nat /\ i + 1 \in Nat
      /\ r.event = Kind(f.event) /\ r.to \in States
  <2>1. i \in DOMAIN Table[m] /\ i \in Nat /\ i + 1 \in Nat /\ r.event = Kind(f.event)
    BY <1>1, <1>2, FirstCandidate
  <2>2. r.to \in Children(m)
    BY <1>2, <2>1, TableAssumption
  <2>3. r.to \in States
    BY <2>2, ParentInTree DEF Children
  <2>4. QED
    BY <2>1, <2>3
<1>4. (r.event # None => f.event # None) /\ res # "process"
  BY <1>1, <1>3 DEF Kind, Candidates
<1>5. /\ m = "serving" /\ f.event # None => Trade(f)
      /\ m = "on" /\ f.event # None => SettlesNext(todo, 1)
  BY <1>1, FirstPriced DEF Trade, Asks
<1>6. PendAt(current["on"], facts) /\ Looks(f, res) => m = "on" /\ v /\ ~PendAt(r.to, facts)
  <2>1. Looks(f, res) => m = "on"
    BY DEF Looks, Rows
  <2>2. ASSUME PendAt(current["on"], facts), Looks(f, res)
        PROVE  /\ ~PendAt(Table["on"][i].to, facts)
               /\ Holds(Table["on"][i].guard, f.event, facts)
    <3> HIDE DEF f
    <3>1. QED
      BY <2>2, LooksTakes
  <2>3. QED
    BY <2>1, <2>2
<1>7. CASE ~v
  <2>1. again \in Frame
    <3>1. \A k \in Nat : Rows(m, f.event, k) \in Frame
      BY <1>2, RowsFrame
    <3>2. QED
      BY <1>3, <3>1
  <2>2. /\ Trade(again) => m = "serving" /\ f.event # None
        /\ ~Enters(again) /\ ~PowersOn(again) /\ ~Sells(again)
    BY CallKinds, AsideKinds
  <2> HIDE DEF again
  <2>3. <<again>> \in Seq(Frame) /\ DOMAIN <<again>> = {1} /\ <<again>>[1] = again /\ Len(<<again>>) = 1
    BY <2>1
  <2>4. Do(<<again>>)
    BY <1>1, <1>7
  <2>5. ~(PendAt(current["on"], facts) /\ Looks(f, res))
    BY <1>6, <1>7
  <2>6. ToldBefore(<<again>>, 1, 1 + 1, ~Sells(<<again>>[1]))
    <3>1. 1 \in 1..((1 + 1) - 1) /\ \A h \in (1 + 1)..((1 + 1) - 1) : FALSE
      OBVIOUS
    <3>2. QED
      BY <2>2, <2>3, <3>1 DEF ToldBefore
  <2> HIDE DEF v, i, f
  <2>7. \A j \in DOMAIN <<again>> :
            /\ ~Enters(<<again>>[j]) /\ ~PowersOn(<<again>>[j])
            /\ Trade(<<again>>[j]) =>
                  Trade(f) /\ ToldBefore(<<again>>, j, Len(<<again>>) + 1, ~Sells(<<again>>[j]))
    BY <1>5, <2>2, <2>3, <2>6
  <2>8. QED
    BY <1>1, <1>4, <2>3, <2>4, <2>5, <2>7, PendDo DEF Steady, f
<1>8. CASE v
  <2> DEFINE a == Op("exit", r.from, f.event)
             b == Call("action", m, i, f.event)
             c == Op("enter", r.to, f.event)
             d == Op("clear", r.from, f.event)
             g == SetCurrent(m, r.to)
  <2>1. Guarantee[m] = "basic"
    BY <1>2, VendTree
  <2>2. ops = <<a, b, c, d, g>> \o <<>>
    BY <2>1 DEF Transition, Tried
  <2>3. ops \in Seq(Frame)
    BY <1>2, <1>3, TransitionCalls
  <2>4. Aside(a) /\ Aside(c) /\ Aside(d) /\ (r.to = "on" => Mends(c, facts))
    <3>1. Aside(a) /\ Aside(c) /\ Aside(d)
      BY AsideKinds
    <3>2. r.to = "on" => Mends(c, facts)
      BY DEF Op, Mends
    <3>3. QED
      BY <3>1, <3>2
  <2>5. ~Enters(b) /\ ~PowersOn(b) /\ (Trade(b) => m = "serving" /\ i = 3 /\ Sells(b))
    <3>1. Trade(b) => m = "serving" /\ i = 3
      BY HandlerKinds
    <3>2. Trade(b) => Sells(b)
      BY DEF Call, Trade
    <3>3. ~Enters(b) /\ ~PowersOn(b)
      BY AsideKinds
    <3>4. QED
      BY <3>1, <3>2, <3>3
  <2>6. (Enters(g) <=> m = "on") /\ ~Trade(g) /\ Tells(g) /\ (PowersOn(g) <=> m = "vm" /\ r.to = "on")
    BY CallKinds, AsideKinds
  <2>7. g.to = r.to
    BY DEF SetCurrent
  <2> HIDE DEF a, b, c, d, g, ops
  <2>8. /\ ops = <<a, b, c, d, g>> /\ DOMAIN ops = {1, 2, 3, 4, 5} /\ Len(ops) = 5 /\ ops # <<>>
        /\ ops[1] = a /\ ops[2] = b /\ ops[3] = c /\ ops[4] = d /\ ops[5] = g
    BY <2>2
  <2>9. Trade(b) => Trade(f)
    BY <1>4, <1>5, <2>5, VendRows
  <2>10. m = "on" => ~PendAt(r.to, facts) \/ SettlesNext(todo, 1)
    <3>1. SUFFICES ASSUME m = "on"
                   PROVE  ~PendAt(r.to, facts) \/ SettlesNext(todo, 1)
      OBVIOUS
    <3>2. i \in 1..5
      BY <1>3, <3>1, VendRows
    <3>3. CASE i = 1
      <4>1. r.guard = "is_empty" /\ r.to = "out_of_service"
        BY <3>1, <3>3, ClosingRows
      <4>2. IsEmpty(facts)
        BY <1>8, <4>1 DEF Holds
      <4>3. QED
        BY <4>1, <4>2 DEF PendAt
    <3>4. CASE i = 2
      <4>1. r.guard = "not_empty" /\ r.to = "serving"
        BY <3>1, <3>4, ClosingRows
      <4>2. ~IsEmpty(facts)
        BY <1>8, <4>1 DEF Holds
      <4>3. QED
        BY <4>1, <4>2 DEF PendAt
    <3>5. CASE i \in {3, 4}
      <4>1. r.to = "maintenance"
        BY <3>1, <3>5, VendRows
      <4>2. QED
        BY <4>1 DEF PendAt
    <3>6. CASE i = 5
      <4>1. r.event # None
        BY <3>1, <3>6, VendRows
      <4>2. QED
        BY <1>4, <1>5, <3>1, <4>1
    <3>7. QED
      BY <3>2, <3>3, <3>4, <3>5, <3>6
  <2>11. Do(ops)
    BY <1>1, <1>8
  <2>12. ToldBefore(ops, 2, 5 + 1, ~Sells(ops[2]))
    <3>1. 5 \in 2..((5 + 1) - 1) /\ 5 > 2 /\ \A h \in (5 + 1)..((5 + 1) - 1) : FALSE
      OBVIOUS
    <3>2. QED
      BY <2>6, <2>8, <3>1 DEF ToldBefore
  <2>13. PendAt(current["on"], facts) /\ Looks(f, res) => Resumed(ops, facts, res')
    <3>1. PendAt(current["on"], facts) /\ Looks(f, res) => Mends(g, facts)
      BY <1>6, <2>6, <2>7 DEF Mends
    <3>2. QED
      BY <2>8, <3>1 DEF Resumed
  <2>14. Resumed(ops, facts, res') \/ \A j \in DOMAIN ops : ~PowersOn(ops[j])
    <3>1. CASE r.to = "on"
      BY <2>4, <2>8, <3>1 DEF Resumed
    <3>2. CASE r.to # "on"
      BY <2>4, <2>5, <2>6, <2>8, <3>2 DEF Aside
    <3>3. QED
      BY <3>1, <3>2
  <2> HIDE DEF v, i, f
  <2>15. ASSUME NEW j \in DOMAIN ops
         PROVE  /\ Enters(ops[j]) => ~PendAt(ops[j].to, facts) \/ SettlesThen(ops, todo, j)
                /\ Trade(ops[j]) => Trade(f) /\ ToldBefore(ops, j, Len(ops) + 1, ~Sells(ops[j]))
    <3>1. CASE j \in {1, 3, 4}
      BY <2>4, <2>8, <3>1 DEF Aside
    <3>2. CASE j = 2
      BY <2>5, <2>8, <2>9, <2>12, <3>2
    <3>3. CASE j = 5
      BY <2>6, <2>7, <2>8, <2>10, <3>3 DEF SettlesThen
    <3>4. QED
      BY <2>8, <3>1, <3>2, <3>3
  <2>16. QED
    BY <1>1, <1>4, <2>3, <2>11, <2>13, <2>14, <2>15, PendDo DEF Steady, f
<1>9. QED
  BY <1>7, <1>8

\* Entering a machine looks for a default transition of it; leaving one does not
\* change the answer.
LEMMA ExitOrEnterPend ==
  ASSUME TypeOK, StackInv, PendInv, ExitOrEnter
  PROVE  PendInv'
<1> DEFINE f == Head(todo)
           n == f.of
           e == f.event
           x == Call("exit", n, 0, e)
           y == Call("enter", n, 0, e)
<1>1. /\ todo # <<>> /\ f.op \in {"exit", "enter"} /\ Steady /\ res' = res
      /\ ~Looks(f, res) /\ ~Settles(f) /\ ~Tells(f)
      /\ Mends(f, facts) => f.op = "enter" /\ n = "on"
      /\ f.op = "enter" => Overrides(f)
      /\ \/ f.op = "exit" /\ Do(InnerExit(n, e) \o <<x>>)
         \/ f.op = "enter" /\ Do(<<y>> \o InnerEnter(n, e))
  BY DEF ExitOrEnter, Doing, Steady, tree, program, Mends, Looks, Settles, Tells, Enters, Rows, Overrides
<1>2. n \in States /\ e \in Events \cup {None} /\ Fits(f, event, current, Begun)
  BY <1>1, FirstCall, FrameFields DEF OpNames
<1>3. f.op = "enter" => Due(event, Begun)
  BY <1>2 DEF Fits, FitsTransition
<1>4. x \in Frame /\ y \in Frame
  BY <1>2, CallFrame
<1>5. Aside(x) /\ Aside(y) /\ ~Overrides(x)
  <2>1. ~Trade(x) /\ ~Trade(y)
    BY HandlerKinds
  <2>2. ~Enters(x) /\ ~Enters(y) /\ ~PowersOn(x) /\ ~PowersOn(y) /\ ~Overrides(x)
    BY AsideKinds
  <2>3. QED
    BY <2>1, <2>2 DEF Aside
<1> HIDE DEF x, y
<1>6. CASE f.op = "exit" /\ Do(InnerExit(n, e) \o <<x>>)
  <2> DEFINE inner == InnerExit(n, e)
             last == <<x>>
             ops == inner \o last
  <2>1. inner \in Seq(Frame) /\ \A g \in ToSet(inner) : g.op = "exit"
    BY <1>2, InnerExitFacts, InnerExitOps
  <2>2. last \in Seq(Frame) /\ ToSet(last) = {x}
    BY <1>4, ToSetOne
  <2>3. Do(ops)
    BY <1>6
  <2> HIDE DEF inner, last
  <2>4. ops \in Seq(Frame) /\ ToSet(ops) = ToSet(inner) \cup ToSet(last)
    BY ONLY <2>1, <2>2, ConcatFacts
  <2> HIDE DEF ops
  <2>5. \A g : g.op = "exit" => Aside(g) /\ ~Overrides(g)
    BY DEF Aside, Trade, Sells, Enters, PowersOn, Overrides
  <2>6. \A j \in DOMAIN ops : ops[j] \in ToSet(ops)
    BY DEF ToSet
  <2>7. \A j \in DOMAIN ops : Aside(ops[j]) /\ ~Overrides(ops[j])
    BY <1>5, <2>1, <2>2, <2>4, <2>5, <2>6
  <2>8. res = "process" => ToldBefore(ops, 0, Len(ops) + 1, res' = "process")
    <3>1. (res' = "process") \in BOOLEAN
      OBVIOUS
    <3>2. QED
      BY <1>1, <2>4, <2>7, <3>1, ToldQuiet
  <2>9. ~Mends(f, facts)
    BY <1>1, <1>6
  <2>10. QED
    BY <1>1, <2>3, <2>4, <2>7, <2>8, <2>9, AsideDo
<1>7. CASE f.op = "enter" /\ Do(<<y>> \o InnerEnter(n, e))
  <2> DEFINE inner == InnerEnter(n, e)
             one == <<y>>
             ops == one \o inner
  <2>1. inner \in Seq(Frame) /\ \A g \in ToSet(inner) : g \in Frame
    <3>1. inner \in Seq(Frame)
      BY <1>2, <1>3, <1>7, InnerEnterFacts
    <3>2. QED
      BY <3>1 DEF ToSet
  <2>2. one \in Seq(Frame) /\ ToSet(one) = {y}
    BY <1>4, ToSetOne
  <2>3. /\ \A g \in ToSet(inner) : Aside(g)
        /\ n = "on" => \E g \in ToSet(inner) : Mends(g, facts)
    <3>1. CASE n \in Machines
      <4> DEFINE b == Op("enter", Initial[n], e)
                 c == Op("default", n, None)
      <4>1. Aside(b) /\ Aside(c)
        BY AsideKinds
      <4>2. n = "on" => Mends(c, facts)
        BY DEF Op, Mends
      <4>3. inner = <<b, c>>
        BY <3>1, TreeAssumption DEF InnerEnter
      <4> HIDE DEF b, c, inner
      <4>4. ToSet(inner) = {b, c}
        BY <4>3 DEF ToSet
      <4>5. QED
        BY <4>1, <4>2, <4>4
    <3>2. CASE n \notin Machines
      <4>1. inner = <<>>
        BY <3>2, VendTree DEF InnerEnter
      <4>2. n # "on"
        BY <3>2, VendTree
      <4>3. QED
        BY <4>1, <4>2 DEF ToSet
    <3>3. QED
      BY <3>1, <3>2
  <2>4. Do(ops)
    BY <1>7
  <2> HIDE DEF inner, one
  <2>5. ops \in Seq(Frame) /\ ToSet(ops) = ToSet(one) \cup ToSet(inner)
    BY ONLY <2>1, <2>2, ConcatFacts
  <2> HIDE DEF ops
  <2>6. \A j \in DOMAIN ops : ops[j] \in ToSet(ops)
    BY DEF ToSet
  <2>7. \A j \in DOMAIN ops : Aside(ops[j])
    BY <1>5, <2>2, <2>3, <2>5, <2>6
  <2>8. Mends(f, facts) => Resumed(ops, facts, res')
    <3>1. SUFFICES ASSUME n = "on"
                   PROVE  \E j \in DOMAIN ops : Mends(ops[j], facts)
      BY <1>1 DEF Resumed
    <3>2. PICK g \in ToSet(ops) : Mends(g, facts)
      BY <2>3, <2>5, <3>1
    <3>3. QED
      BY <3>2 DEF ToSet
  <2>9. QED
    BY <1>1, <1>7, <2>4, <2>5, <2>7, <2>8, AsideDo
<1>8. QED
  BY <1>1, <1>6, <1>7

LEMMA ClearSourcePend ==
  ASSUME TypeOK, StackInv, PendInv, ClearSource
  PROVE  PendInv'
<1> DEFINE f == Head(todo)
           inside == IF f.of \in History THEN {} ELSE Below(f.of)
<1>1. /\ todo # <<>> /\ f.op = "clear" /\ facts' = facts /\ Do(<<>>) /\ res' = res
      /\ current' = [m \in Machines |-> IF m \in inside THEN Initial[m] ELSE current[m]]
  BY DEF ClearSource, Doing, program
<1>2. ~Mends(f, facts) /\ ~Looks(f, res) /\ ~Settles(f) /\ ~Tells(f)
  BY <1>1 DEF Mends, Looks, Settles, Tells, Enters, Rows
<1>3. f.of # Root
  BY <1>1, FirstCall DEF Fits, FitsTransition
<1>4. "on" \notin inside /\ "vm" \notin inside
  <2>1. "on" \in Below(f.of) => f.of \in {"on", "vm"}
    BY VendTree DEF Below
  <2>2. "vm" \in Below(f.of) => f.of = "vm"
    BY VendTree, UpRoot DEF Below
  <2>3. QED
    BY <1>3, <2>1, <2>2, VendTree
<1>5. Steady
  BY <1>1, <1>4, VendTree DEF Steady
<1>6. QED
  BY <1>1, <1>2, <1>5, PendNone

\* A machine has one change of its current state to make at a time.
LEMMA OneSet ==
  ASSUME TypeOK, StackInv, NEW i \in DOMAIN todo, NEW k \in DOMAIN todo, i # k,
         todo[i].op = "set", todo[k].op \in {"set", "rows"}, todo[i].of = todo[k].of
  PROVE  FALSE
<1> DEFINE m == todo[i].of
<1>1. todo # <<>> /\ DOMAIN todo \subseteq Nat
  <2>1. todo \in Seq(Frame)
    BY DEF TypeOK
  <2>2. QED
    BY <2>1
<1>2. todo \in Seq(Frame) /\ Confined(todo)
  BY <1>1, FirstCall DEF Stacked
<1>3. m \in Scope(todo[i]) /\ m \in Relies(todo[i])
  BY DEF Scope, Relies
<1>4. m \in States
  <2>1. todo[i] \in Frame
    BY <1>2
  <2>2. todo[i].of \in Machines
    BY <2>1, FrameFields
  <2>3. QED
    BY <2>2, TreeAssumption
<1>5. m \in Scope(todo[k]) /\ m \in Relies(todo[k])
  <2>1. m \in Below(m)
    BY <1>4, UpSelf
  <2>2. QED
    BY <2>1 DEF Scope, Relies
<1>6. i < k \/ k < i
  BY <1>1
<1>7. QED
  BY <1>2, <1>3, <1>5, <1>6 DEF Confined

\* `on` is where it has to stay, or it settles next.
LEMMA CompleteTransitionPend ==
  ASSUME TypeOK, StackInv, PendInv, CompleteTransition
  PROVE  PendInv'
<1> DEFINE f == Head(todo)
<1>1. /\ todo # <<>> /\ f.op = "set" /\ facts' = facts /\ Do(<<>>)
      /\ current' = [current EXCEPT ![f.of] = f.to] /\ res' = "process"
  BY DEF CompleteTransition, Doing, program, Return
<1>2. f.of \in Machines /\ todo \in Seq(Frame) /\ 1 \in DOMAIN todo /\ f = todo[1]
      /\ "on" \in DOMAIN current /\ "vm" \in DOMAIN current
  <2>1. f \in Frame /\ todo \in Seq(Frame)
    BY <1>1, FirstCall
  <2>2. QED
    BY <1>1, <2>1, FrameFields, TailFacts, VendTree DEF TypeOK
<1>3. /\ <<>> \in Seq(Frame) /\ DOMAIN <<>> = {} /\ Len(<<>>) = 0
      /\ Put(todo', <<>>, todo, 1) /\ todo' \in Seq(Frame) /\ todo' = Tail(todo)
  <2>1. <<>> \in Seq(Frame) /\ DOMAIN <<>> = {} /\ Len(<<>>) = 0
    OBVIOUS
  <2>2. Tail(todo) \in Seq(Frame)
    BY <1>1, <1>2, TailFacts
  <2>3. <<>> \o Tail(todo) = Tail(todo)
    BY <2>2
  <2>4. QED
    BY <1>1, <1>2, <2>1, <2>2, <2>3, PutFirst DEF Do
<1>4. /\ Kept(todo, facts) /\ \A i \in DOMAIN todo : Trade(todo[i]) => Sold(todo, i)
      /\ PendAt(current["on"], facts) => Awaited(todo, res, current, facts)
  BY DEF PendInv
<1>5. Kept(todo', facts)
  BY <1>2, <1>3, <1>4, KeptPut
<1>6. \A j \in DOMAIN todo' : Trade(todo'[j]) => Sold(todo', j)
  BY <1>2, <1>3, <1>4, SoldPut
<1>7. CASE f.of = "on"
  <2>1. current'["on"] = f.to /\ Enters(f)
    BY <1>1, <1>2, <1>7 DEF Enters
  <2>2. ~PendAt(f.to, facts) \/ SettlesNext(todo, 1)
    BY <1>2, <1>4, <2>1 DEF Kept
  <2>3. SettlesNext(todo, 1) => 1 \in DOMAIN todo' /\ Settles(todo'[1])
    <3>1. SettlesNext(todo, 1) => SettlesThen(<<>>, todo, 0) /\ 0 \in 0..0
      BY <1>3 DEF SettlesThen
    <3>2. SettlesNext(todo, 1) => SettlesNext(todo', 0)
      BY <1>2, <1>3, <3>1, SettlesPut
    <3>3. SettlesNext(todo', 0) => 1 \in DOMAIN todo' /\ Settles(todo'[1])
      BY DEF SettlesNext
    <3>4. QED
      BY <3>2, <3>3
  <2>4. ToldBefore(todo', 0, 1, TRUE)
    <3>1. 0 \in 0..(1 - 1) /\ \A h \in (0 + 1)..(1 - 1) : FALSE
      OBVIOUS
    <3>2. QED
      BY <3>1 DEF ToldBefore
  <2>5. SettlesNext(todo, 1) => Awaited(todo', res', current', facts)
    BY <1>1, <2>3, <2>4 DEF Awaited
  <2>6. PendAt(current'["on"], facts) => Awaited(todo', res', current', facts)
    BY <2>1, <2>2, <2>5
  <2>7. QED
    BY <1>1, <1>5, <1>6, <2>6 DEF PendInv
<1>8. CASE f.of # "on"
  <2>1. current'["on"] = current["on"]
    BY <1>1, <1>2, <1>8
  <2>2. /\ ~Mends(f, facts) /\ ~Looks(f, res) /\ ~Settles(f)
    BY <1>1, <1>8 DEF Mends, Looks, Settles, Enters, Rows
  <2>3. ToldBefore(<<>>, 0, 0 + 1, TRUE)
    <3>1. 0 \in 0..((0 + 1) - 1) /\ \A h \in (0 + 1)..((0 + 1) - 1) : FALSE
      OBVIOUS
    <3>2. QED
      BY <3>1 DEF ToldBefore
  <2>4. CASE f.of = "vm" /\ f.to = "off"
    <3>1. current'["vm"] = "off"
      BY <1>1, <1>2, <2>4
    <3>2. ASSUME NEW j \in DOMAIN todo', PowersOn(todo'[j])
          PROVE  FALSE
      <4>1. j + 1 \in DOMAIN todo /\ todo'[j] = todo[j + 1] /\ j + 1 # 1
        BY <1>1, <1>2, <1>3, <3>2, TailFacts
      <4>2. QED
        BY <1>1, <1>2, <2>4, <3>2, <4>1, OneSet DEF PowersOn
    <3>3. Awaited(todo', res', current', facts)
      BY <3>1, <3>2 DEF Awaited
    <3>4. QED
      BY <1>1, <1>5, <1>6, <3>3 DEF PendInv
  <2>5. CASE ~(f.of = "vm" /\ f.to = "off")
    <3>1. current["vm"] = "off" /\ ~PowersOn(f) => current'["vm"] = "off"
      <4>1. f.of # "vm" => current'["vm"] = current["vm"]
        BY <1>1, <1>2
      <4>2. f.of = "vm" => PowersOn(f)
        <5>1. SUFFICES ASSUME f.of = "vm"
                       PROVE  f.to = "on"
          BY <1>1 DEF PowersOn
        <5>2. Fits(f, event, current, Begun)
          BY <1>1, FirstCall
        <5>3. PICK r \in ToSet(Table["vm"]) : r.to = f.to
          BY <1>1, <5>1, <5>2 DEF Fits, FitsTransition
        <5>4. Table["vm"] = <<tr("off", "power_on", "on", "none"), tr("on", "power_off", "off", "none")>>
          BY MachineAssumption DEF VendTable, MachineRows
        <5>5. r.to \in {"on", "off"}
          BY <5>3, <5>4 DEF ToSet, tr
        <5>6. QED
          BY <2>5, <5>1, <5>3, <5>5
      <4>3. QED
        BY <4>1, <4>2
    <3>2. ToldBefore(<<>>, 0, Len(<<>>) + 1, res' = "process")
      BY <1>1, <1>3, <2>3
    <3>3. current["vm"] = "off" /\ ~PowersOn(f) =>
              \/ Resumed(<<>>, facts, res')
              \/ current'["vm"] = "off" /\ \A i \in DOMAIN <<>> : ~PowersOn(<<>>[i])
      BY <1>3, <3>1
    <3>4. ~(Mends(f, facts) \/ Looks(f, res) \/ (Settles(f) /\ res = "process"))
      BY <2>2
    <3> HIDE DEF f
    <3>5. PendAt(current["on"], facts) => Awaited(todo', res', current', facts)
      BY ONLY <1>2, <1>3, <1>4, <3>2, <3>3, <3>4, AwaitedPut
    <3>6. QED
      BY <1>1, <1>5, <1>6, <2>1, <3>5 DEF PendInv
  <2>6. QED
    BY <2>4, <2>5
<1>9. QED
  BY <1>7, <1>8

-----------------------------------------------------------------------------
(* Default transitions: the handlers *)

\* While `on` has an event to ask its rows for, it has no transition to complete.
LEMMA AsksAlone ==
  ASSUME TypeOK, StackInv, NEW k \in DOMAIN todo, Asks(todo[k]), NEW j \in DOMAIN todo
  PROVE  ~Enters(todo[j])
<1>1. todo[k].op = "rows" /\ todo[k].of = "on"
  BY DEF Asks
<1>2. SUFFICES ASSUME todo[j].op = "set", todo[j].of = "on"
               PROVE  FALSE
  BY DEF Enters
<1>3. j # k
  BY <1>1, <1>2
<1>4. QED
  BY <1>1, <1>2, <1>3, OneSet

\* What handlers do not change.
LEMMA SameGoodsPend ==
  ASSUME NEW s, NEW r, NEW c, NEW d, NEW a, a.goods = d.goods
  PROVE  /\ \A state : PendAt(state, a) <=> PendAt(state, d)
         /\ Kept(s, d) => Kept(s, a)
         /\ Awaited(s, r, c, d) => Awaited(s, r, c, a)
<1>1. \A state : PendAt(state, a) <=> PendAt(state, d)
  BY DEF PendAt, IsEmpty
<1>2. Kept(s, d) => Kept(s, a)
  BY <1>1 DEF Kept
<1>3. \A f : Mends(f, d) => Mends(f, a)
  BY <1>1 DEF Mends
<1>4. Awaited(s, r, c, d) => Awaited(s, r, c, a)
  BY <1>3 DEF Awaited
<1>5. QED
  BY <1>1, <1>2, <1>4

\* Goods come in where no default transition leads away from; after a sale `on`
\* will look for one.
LEMMA RunHandlerPend ==
  ASSUME Programmed, TypeOK, StackInv, SaleInv, PriceInv, PendInv, RunHandler
  PROVE  PendInv'
<1> DEFINE f == Head(todo)
           h == Handler(f)
           after == VendHandler(h, f.event, facts)
<1>1. /\ todo # <<>> /\ f.op = "call" /\ current' = current /\ res' = res
      /\ facts' = after /\ Do(<<>>)
  BY DEF RunHandler, Doing, Programmed, VendEffects
<1>2. /\ todo \in Seq(Frame) /\ 1 \in DOMAIN todo /\ Head(todo) = todo[1]
      /\ Stacked(todo, event, current, Begun) /\ DOMAIN todo \subseteq Nat \ {0}
  BY <1>1, FirstCall, TailFacts
<1>3. /\ <<>> \in Seq(Frame) /\ DOMAIN <<>> = {} /\ Len(<<>>) = 0
      /\ Put(todo', <<>>, todo, 1) /\ todo' \in Seq(Frame) /\ todo' = Tail(todo)
  <2>1. <<>> \in Seq(Frame) /\ DOMAIN <<>> = {} /\ Len(<<>>) = 0
    OBVIOUS
  <2>2. Tail(todo) \in Seq(Frame)
    BY <1>1, <1>2, TailFacts
  <2>3. <<>> \o Tail(todo) = Tail(todo)
    BY <2>2
  <2>4. QED
    BY <1>1, <1>2, <2>1, <2>2, <2>3, PutFirst DEF Do
<1>4. /\ Kept(todo, facts) /\ \A i \in DOMAIN todo : Trade(todo[i]) => Sold(todo, i)
      /\ PendAt(current["on"], facts) => Awaited(todo, res, current, facts)
      /\ DataOK(facts) /\ InPlace(todo, Begun["on"])
  BY DEF PendInv, SaleInv, PriceInv, Begun
<1>5. \A j \in DOMAIN todo' : Trade(todo'[j]) => Sold(todo', j)
  BY <1>2, <1>3, <1>4, SoldPut
<1>6. SUFFICES /\ Kept(todo', after)
               /\ PendAt(current["on"], after) => Awaited(todo', res, current, after)
  BY <1>1, <1>5 DEF PendInv
<1>7. ASSUME NEW k \in DOMAIN todo, Asks(todo[k])
      PROVE  Kept(todo', after)
  <2>1. ASSUME NEW j \in DOMAIN todo'
        PROVE  ~Enters(todo'[j])
    <3>1. j + 1 \in DOMAIN todo /\ todo'[j] = todo[j + 1]
      BY <1>1, <1>2, <1>3, TailFacts
    <3>2. QED
      BY <1>7, <3>1, AsksAlone
  <2>2. QED
    BY <2>1 DEF Kept
<1>8. CASE h \in {<<"enter", "loading", 0>>, <<"internal", "maintenance", 1>>}
  <2>1. Begun["on"] = "maintenance" /\ AsksAfter(todo, 1)
    BY <1>1, <1>8, FirstPriced DEF Upkeep
  <2>2. PICK k \in DOMAIN todo : k > 1 /\ Asks(todo[k])
    BY <2>1 DEF AsksAfter
  <2>3. /\ todo[k].op = "rows" /\ todo[k].of = "on" /\ todo[k].event # None
        /\ Fits(todo[k], event, current, Begun)
    BY <1>2, <2>2 DEF Asks, Stacked
  <2>4. Same({"on"}, current, Begun)
    BY <2>3 DEF Fits, FitsTransition
  <2>5. current["on"] = "maintenance"
    BY <2>1, <2>4, VendTree DEF Same
  <2>6. ~PendAt(current["on"], after)
    BY <2>5 DEF PendAt
  <2>7. QED
    BY <1>7, <2>2, <2>6
<1>9. CASE h = <<"action", "serving", 3>>
  <2>1. Sells(todo[1]) /\ Trade(todo[1])
    BY <1>1, <1>2, <1>9 DEF Sells, Trade
  <2>2. PICK k \in DOMAIN todo : k > 1 /\ Asks(todo[k]) /\ ToldBefore(todo, 1, k, ~Sells(todo[1]))
    BY <1>2, <1>4, <2>1 DEF Sold
  <2>3. ToldBefore(todo, 1, k, FALSE)
    BY <2>1, <2>2
  <2>4. (res = "process") \in BOOLEAN /\ 0 \in 0..Len(<<>>) /\ Len(<<>>) + (k - 1) = k - 1
    BY <1>2, <1>3
  <2>5. ToldBefore(todo', 0, k - 1, res = "process")
    <3>1. ToldBefore(todo', 0, Len(<<>>) + (k - 1), res = "process")
      BY <1>2, <1>3, <2>2, <2>3, <2>4, ToldPut
    <3>2. QED
      BY <2>4, <3>1
  <2>6. k - 1 \in DOMAIN todo' /\ todo'[k - 1] = todo[k]
    BY <1>2, <1>3, <2>2, PutCalls, <2>4
  <2>7. k \in DOMAIN todo' /\ Settles(todo'[k])
    <3>1. SettlesNext(todo, k)
      BY <1>4, <2>2 DEF InPlace
    <3>2. SettlesNext(todo', Len(<<>>) + (k - 1))
      BY <1>2, <1>3, <2>2, <3>1, SettlesPut
    <3>3. (Len(<<>>) + (k - 1)) + 1 = k
      BY <1>2, <1>3
    <3>4. QED
      BY <3>2, <3>3 DEF SettlesNext
  <2>8. ToldBefore(todo', 0, k, res = "process")
    <3>1. PICK j \in 0..((k - 1) - 1) :
              /\ (j = 0 /\ res = "process") \/ (j > 0 /\ Tells(todo'[j]))
              /\ \A g \in (j + 1)..((k - 1) - 1) : ~Overrides(todo'[g])
      BY <2>5 DEF ToldBefore
    <3>2. ~Overrides(todo'[k - 1])
      BY <2>2, <2>6 DEF Asks, Overrides
    <3>3. j \in 0..(k - 1) /\ \A g \in (j + 1)..(k - 1) : g = k - 1 \/ g \in (j + 1)..((k - 1) - 1)
      BY <1>2
    <3>4. \A g \in (j + 1)..(k - 1) : ~Overrides(todo'[g])
      BY <3>1, <3>2, <3>3
    <3>5. QED
      BY <2>4, <3>1, <3>3, <3>4, ToldBy
  <2>9. Awaited(todo', res, current, after)
    BY <2>7, <2>8 DEF Awaited
  <2>10. QED
    BY <1>7, <2>2, <2>9
<1>10. CASE h \notin {<<"enter", "loading", 0>>, <<"internal", "maintenance", 1>>,
                      <<"action", "serving", 3>>}
  <2>1. after.goods = facts.goods
    BY <1>4, <1>10, VendGoods
  <2>2. /\ ~Mends(f, facts) /\ ~Looks(f, res) /\ ~Settles(f) /\ ~Tells(f)
    BY <1>1 DEF Mends, Looks, Settles, Tells, Enters, Rows
  <2>3. res = "process" => ToldBefore(<<>>, 0, Len(<<>>) + 1, res = "process")
    <3>1. 0 \in 0..((0 + 1) - 1) /\ \A g \in (0 + 1)..((0 + 1) - 1) : FALSE
      OBVIOUS
    <3>2. QED
      BY <1>3, <3>1 DEF ToldBefore
  <2>4. Kept(todo', facts)
    BY <1>2, <1>3, <1>4, KeptPut
  <2> HIDE DEF f, h, after
  <2>5. PendAt(current["on"], facts) => Awaited(todo', res, current, facts)
    <3>1. /\ ~(Mends(todo[1], facts) \/ Looks(todo[1], res) \/ (Settles(todo[1]) /\ res = "process"))
          /\ Tells(todo[1]) \/ (res = "process" /\ ~Overrides(todo[1])) =>
                 ToldBefore(<<>>, 0, Len(<<>>) + 1, res = "process")
      BY <1>2, <2>2, <2>3 DEF f
    <3>2. current["vm"] = "off" /\ ~PowersOn(todo[1]) =>
              \/ Resumed(<<>>, facts, res)
              \/ current["vm"] = "off" /\ \A i \in DOMAIN <<>> : ~PowersOn(<<>>[i])
      BY <1>3
    <3>3. QED
      BY ONLY <1>2, <1>3, <1>4, <3>1, <3>2, AwaitedPut
  <2>6. QED
    BY <2>1, <2>4, <2>5, SameGoodsPend
<1>11. QED
  BY <1>8, <1>9, <1>10

LEMMA ReceivePend ==
  ASSUME PendInv, NEW e, Receive(e)
  PROVE  PendInv'
<1> DEFINE a == Op("dispatch", "vm", e)
<1>1. todo = <<>> /\ todo' = <<a>> /\ current' = current /\ facts' = facts
  BY VendTree DEF Receive, Resting, tree
<1>2. ~Enters(a) /\ ~PowersOn(a) /\ ~Trade(a)
  <2>1. ~Trade(a)
    BY CallKinds
  <2>2. QED
    BY <2>1, AsideKinds
<1> HIDE DEF a
<1>3. DOMAIN <<a>> = {1} /\ <<a>>[1] = a /\ DOMAIN <<>> = {}
  OBVIOUS
<1>4. Awaited(<<>>, res, current, facts) => current["vm"] = "off"
  BY <1>3 DEF Awaited
<1>5. Awaited(<<>>, res, current, facts) => Awaited(<<a>>, res', current, facts)
  BY <1>2, <1>3, <1>4 DEF Awaited
<1>6. Kept(<<a>>, facts) /\ \A i \in DOMAIN <<a>> : ~Trade(<<a>>[i])
  BY <1>2, <1>3 DEF Kept
<1>7. QED
  BY <1>1, <1>5, <1>6 DEF PendInv

LEMMA InitPend ==
  ASSUME Init
  PROVE  PendInv
<1>1. todo = <<>> /\ current = Initial
  BY DEF Init
<1>2. Initial["vm"] = "off"
  BY MachineAssumption DEF VendInitial
<1>3. DOMAIN <<>> = {}
  OBVIOUS
<1>4. QED
  BY <1>1, <1>2, <1>3 DEF PendInv, Awaited, Kept

LEMMA NextPend ==
  ASSUME Programmed, TypeOK, StackInv, SaleInv, PriceInv, PendInv, [VendNext]_vars
  PROVE  PendInv'
<1>1. Throwing = {} /\ ~throwing
  BY MachineAssumption DEF NeverThrows, SaleInv
<1>2. ~HandlerThrows /\ ~GuardThrows /\ ~Escape /\ ~Catch
  BY <1>1 DEF HandlerThrows, GuardThrows, Escape, Catch
<1>3. CASE \E e \in Events : Receive(e)
  BY <1>3, ReceivePend
<1>4. CASE GiveAnswer \/ LeaveTry
  BY <1>4, ReturnPend
<1>5. CASE UNCHANGED vars
  BY <1>5 DEF vars, tree, program, control, history, PendInv
<1>6. QED
  BY <1>2, <1>3, <1>4, <1>5, DispatchPend, NextRegionPrice, NoMoreRowsPend, TestRowPend,
     TestInternalRowPend, SettlePend, CheckDefaultPend, ExitOrEnterPend, ClearSourcePend,
     CompleteTransitionPend, RunHandlerPend
  DEF VendNext, Step, Stuck

-----------------------------------------------------------------------------
(* Coins *)

LEMMA QuietCoin ==
  ASSUME TypeOK, StackInv, SaleInv, CoinInv,
         \/ Dispatch \/ NextRegion \/ NoMoreRows \/ Settle \/ CheckDefault \/ GiveAnswer
         \/ LeaveTry \/ TestInternalRow \/ ExitOrEnter
  PROVE  CoinInv'
<1>1. facts' = facts /\ current' = current /\ Head(todo).op # "set"
  BY DEF Dispatch, NextRegion, NoMoreRows, Settle, CheckDefault, GiveAnswer, LeaveTry,
     TestInternalRow, ExitOrEnter, Doing, tree, program
<1>2. NoSale
  BY QuietSale, TestInternalRowSale, ExitOrEnterSale
<1>3. QED
  BY <1>1, <1>2 DEF CoinInv, NoSale

LEMMA ReceiveCoin ==
  ASSUME CoinInv, NEW e, Receive(e)
  PROVE  CoinInv'
<1> DEFINE a == Op("dispatch", Root, e)
<1>1. todo = <<>> /\ todo' = <<a>> /\ facts' = facts /\ current' = current
  BY DEF Receive, Resting, tree
<1>2. a.op = "dispatch"
  BY DEF Op
<1> HIDE DEF a
<1>3. Funded(<<a>>, facts)
  BY <1>2 DEF Funded, Sells, Moves
<1>4. Spends(<<a>>, current["serving"], facts)
  BY <1>1 DEF CoinInv, Spends
<1>5. QED
  BY <1>1, <1>3, <1>4 DEF CoinInv

\* A coin moves `serving` to `active`, and a sale back.
LEMMA TestRowCoin ==
  ASSUME Programmed, TypeOK, StackInv, SaleInv, CoinInv, TestRow
  PROVE  CoinInv'
<1> DEFINE f == Head(todo)
           m == f.of
           i == First(Candidates(f))
           r == Table[m][i]
           ops == Transition(m, f.event, i)
           again == Rows(m, f.event, i + 1)
<1>1. /\ todo # <<>> /\ f.op = "rows" /\ ~Leaves(f) /\ ~Pays(f) /\ ~Moves(f, "s_idle")
      /\ SameFacts /\ current' = current /\ Candidates(f) # {}
      /\ Do(ops) \/ Do(<<again>>)
  BY DEF TestRow, Doing, SameFacts, SaleInv, Leaves, Pays, Moves, program, tree
<1>2. CASE Do(<<again>>)
  <2>1. again.op = "rows"
    BY DEF Rows
  <2>2. NoSale
    BY <1>1, <1>2, <2>1, OneDone
  <2>3. QED
    BY <1>1, <2>2 DEF CoinInv, NoSale, SameFacts
<1>3. CASE Do(ops)
  <2> DEFINE a == Op("exit", r.from, f.event)
             b == Call("action", m, i, f.event)
             c == Op("enter", r.to, f.event)
             d == Op("clear", r.from, f.event)
             g == SetCurrent(m, r.to)
  <2>1. f \in Frame /\ f.row >= 1 /\ m \in Machines /\ f.row \in Nat
    BY <1>1, FirstCall, FrameFields DEF Fits, FitsDispatch
  <2>2. i \in DOMAIN Table[m] /\ r.event = Kind(f.event) /\ r.from = current[m]
    BY <1>1, <2>1, FirstCandidate
  <2>3. Guarantee[m] = "basic"
    BY <2>1, VendTree
  <2>4. ops = <<a, b, c, d, g>> \o <<>>
    BY <2>3 DEF Transition, Tried
  <2>5. /\ a.op = "exit" /\ c.op = "enter" /\ c.of = r.to /\ c.event = f.event /\ d.op = "clear"
        /\ g.op = "set" /\ g.of = m /\ g.to = r.to
        /\ b.op = "call" /\ b.kind = "action" /\ b.of = m /\ b.row = i
    BY DEF Op, Call, SetCurrent
  <2>6. /\ m = "serving" => i \in 1..3
        /\ m = "serving" /\ i = 3 => r.from = "active" /\ r.to = "s_idle"
        /\ m = "serving" /\ i \in {1, 2} => r.event = "money"
    BY <2>2, MachineAssumption DEF VendTable, ServingRows, tr
  <2> HIDE DEF a, b, c, d, g, ops, r, i, m, f
  <2>7. /\ ops = <<a, b, c, d, g>> /\ ops \in Seq({a, b, c, d, g}) /\ DOMAIN ops = 1..5
        /\ ops[1] = a /\ ops[2] = b /\ ops[3] = c /\ ops[4] = d /\ ops[5] = g
    BY <2>4
  <2>8. todo \in Seq(Frame) /\ 1 \in DOMAIN todo /\ todo[1] = f
    BY <1>1 DEF TypeOK, f
  <2>9. Sells(b) => facts.paid /\ Moves(g, "s_idle")
    <3>1. SUFFICES ASSUME Sells(b)
                   PROVE  facts.paid /\ Moves(g, "s_idle")
      OBVIOUS
    <3>2. m = "serving" /\ i = 3
      BY <2>5, <3>1 DEF Sells, Handler
    <3>3. Moves(g, "s_idle")
      BY <2>5, <2>6, <3>2 DEF Moves
    <3>4. current["serving"] = "active"
      BY <2>2, <2>6, <3>2
    <3>5. ASSUME NEW k \in DOMAIN todo, Moves(todo[k], "s_idle")
          PROVE  FALSE
      <4>1. todo[k].op = "set" /\ todo[k].of = "serving"
        BY <3>5 DEF Moves
      <4>2. todo[1].op = "rows" /\ todo[1].of = "serving" /\ k # 1
        BY <1>1, <2>8, <3>2, <4>1 DEF f, m
      <4>3. QED
        BY <2>8, <4>1, <4>2, OneSet
    <3>6. QED
      BY <3>3, <3>4, <3>5 DEF CoinInv, Spends
  <2>10. Moves(g, "active") => Pays(c)
    <3>1. SUFFICES ASSUME m = "serving", r.to = "active"
                   PROVE  Kind(f.event) = "money"
      BY <2>5 DEF Moves, Pays
    <3>2. i \in {1, 2}
      BY <2>6, <3>1
    <3>3. QED
      BY <2>2, <2>6, <3>1, <3>2
  <2>11. Funded(ops, facts)
    <3>1. ~Sells(a) /\ ~Sells(c) /\ ~Sells(d) /\ ~Sells(g)
      BY <2>5 DEF Sells
    <3>2. /\ ~Moves(a, "active") /\ ~Moves(b, "active") /\ ~Moves(c, "active") /\ ~Moves(d, "active")
      BY <2>5 DEF Moves
    <3>3. \A j \in DOMAIN ops : Sells(ops[j]) => j = 2
      BY <2>7, <3>1
    <3>4. \A j \in DOMAIN ops : Moves(ops[j], "active") => j = 5
      BY <2>7, <3>2
    <3>5. 5 \in DOMAIN ops /\ 5 > 2 /\ 3 \in 1..(5 - 1)
      BY <2>7
    <3>6. QED
      BY <2>7, <2>9, <2>10, <3>3, <3>4, <3>5 DEF Funded
  <2>12. Funded(todo', facts) /\ Spends(todo', current["serving"], facts)
    <3>1. Do(ops) /\ ~Pays(Head(todo)) /\ ~Moves(Head(todo), "s_idle")
      BY <1>1, <1>3 DEF f
    <3>2. QED
      BY <1>1, <2>7, <2>8, <2>11, <3>1, CoinDo, SpendsDo DEF CoinInv, Do
  <2>13. QED
    BY <1>1, <2>12 DEF CoinInv, SameFacts
<1>4. QED
  BY <1>1, <1>2, <1>3

LEMMA ClearSourceCoin ==
  ASSUME TypeOK, SaleInv, CoinInv, ClearSource
  PROVE  CoinInv'
<1>1. NoSale
  BY QuietSale
<1>2. facts' = facts /\ Head(todo).op = "clear"
  BY DEF ClearSource, Doing, program
<1>3. "serving" \in Machines /\ Initial["serving"] = "s_idle"
  BY VendTree, MachineAssumption DEF VendInitial
<1>4. current'["serving"] \in {current["serving"], "s_idle"}
  BY <1>3 DEF ClearSource
<1>5. QED
  BY <1>1, <1>2, <1>4 DEF CoinInv, NoSale, Spends

LEMMA CompleteTransitionCoin ==
  ASSUME TypeOK, SaleInv, CoinInv, CompleteTransition
  PROVE  CoinInv'
<1> DEFINE f == Head(todo)
<1>1. /\ todo # <<>> /\ f.op = "set" /\ facts' = facts /\ Do(<<>>)
      /\ current' = [current EXCEPT ![f.of] = f.to]
  BY DEF CompleteTransition, Doing, program, Return
<1>2. Funded(todo', facts)
  BY QuietSale DEF NoSale, CoinInv
<1>3. todo \in Seq(Frame) /\ 1 \in DOMAIN todo /\ f = todo[1] /\ "serving" \in DOMAIN current
  BY <1>1, VendTree DEF TypeOK
<1>4. CASE f.of = "serving"
  <2>1. current'["serving"] = f.to
    BY <1>1, <1>3, <1>4
  <2>2. f.to = "active" => facts.paid
    <3>1. f.to = "active" => Moves(todo[1], "active")
      BY <1>1, <1>3, <1>4 DEF Moves
    <3>2. 1..(1 - 1) = {}
      OBVIOUS
    <3>3. QED
      BY <1>3, <3>1, <3>2 DEF CoinInv, Funded
  <2>3. QED
    BY <1>1, <1>2, <2>1, <2>2 DEF CoinInv, Spends
<1>5. CASE f.of # "serving"
  <2>1. current'["serving"] = current["serving"] /\ ~Moves(f, "s_idle")
    BY <1>1, <1>3, <1>5 DEF Moves
  <2>2. <<>> \in Seq(Frame)
    OBVIOUS
  <2>3. Spends(<<>> \o Tail(todo), current["serving"], facts)
    BY <1>1, <1>3, <2>1, <2>2, SpendsDo DEF CoinInv
  <2>4. QED
    BY <1>1, <1>2, <2>1, <2>3 DEF CoinInv, Do
<1>6. QED
  BY <1>4, <1>5

LEMMA RunHandlerCoin ==
  ASSUME Programmed, TypeOK, StackInv, SaleInv, CoinInv, RunHandler
  PROVE  CoinInv'
<1> DEFINE f == Head(todo)
           h == Handler(f)
           after == VendHandler(h, f.event, facts)
<1>1. /\ todo # <<>> /\ f.op = "call" /\ facts' = after /\ current' = current /\ Do(<<>>)
  BY DEF RunHandler, Doing, Programmed, VendEffects
<1>2. /\ f \in Frame /\ f.event \in Events \cup {None} /\ todo \in Seq(Frame)
      /\ 1 \in DOMAIN todo /\ f = todo[1] /\ DOMAIN todo \subseteq Nat \ {0}
  BY <1>1, TailFacts, FrameFields DEF TypeOK
<1>3. Carried(todo) /\ Agreed(todo, facts) /\ DataOK(facts)
  BY DEF SaleInv
<1>4. h = <<"internal", "maintenance", 1>> => Kind(f.event) = "set_price"
  BY <1>1, <1>2, <1>3 DEF Carried, SetsPrice
<1>5. /\ h # <<"action", "serving", 3>> /\ facts.paid => after.paid
      /\ h = <<"enter", "active", 0>> /\ Kind(f.event) = "money" => after.paid
  BY <1>2, <1>3, <1>4, VendHandlerFacts
<1>6. Funded(todo, facts) /\ Spends(todo, current["serving"], facts)
  BY DEF CoinInv
<1> HIDE DEF after
<1>7. CASE h # <<"action", "serving", 3>>
  <2>1. Funded(todo, after) /\ Spends(todo, current["serving"], after)
    BY <1>5, <1>6, <1>7 DEF Funded, Spends
  <2>2. Pays(f) => after.paid
    BY <1>1, <1>5 DEF Pays
  <2>3. ~Moves(f, "s_idle")
    BY <1>1 DEF Moves
  <2>4. <<>> \in Seq(Frame) /\ Funded(<<>>, after)
    BY DEF Funded
  <2> HIDE DEF f
  <2>5. Funded(<<>> \o Tail(todo), after)
    BY <1>1, <1>2, <2>1, <2>2, <2>4, CoinDo DEF f
  <2>6. Spends(<<>> \o Tail(todo), current["serving"], after)
    BY <1>1, <1>2, <2>1, <2>3, <2>4, SpendsDo DEF f
  <2>7. QED
    BY <1>1, <2>5, <2>6 DEF CoinInv, Do
<1>8. CASE h = <<"action", "serving", 3>>
  <2>1. Sells(todo[1])
    BY <1>1, <1>2, <1>8 DEF Sells
  <2>2. PICK k \in DOMAIN todo : k > 1 /\ Moves(todo[k], "s_idle")
    BY <1>2, <1>6, <2>1 DEF Funded
  <2>3. ASSUME NEW j \in DOMAIN todo, Moves(todo[j], "active")
        PROVE  FALSE
    <3>1. /\ todo[j].op = "set" /\ todo[j].of = "serving" /\ todo[j].to = "active"
          /\ todo[k].op = "set" /\ todo[k].of = "serving" /\ todo[k].to = "s_idle"
      BY <2>2, <2>3 DEF Moves
    <3>2. j # k
      BY <3>1
    <3>3. QED
      BY <3>1, <3>2, OneSet
  <2>4. ASSUME NEW j \in DOMAIN todo, j # 1, Sells(todo[j])
        PROVE  FALSE
    <3>1. 1 \in 1..(j - 1)
      BY <1>2, <2>4
    <3>2. Leaves(todo[1])
      BY <1>3, <2>4, <3>1 DEF Agreed
    <3>3. todo[1].op = "call" /\ todo[1].kind = "action"
      BY <1>1, <1>2, <1>8 DEF Handler
    <3>4. QED
      BY <3>2, <3>3 DEF Leaves
  <2>5. todo' = Tail(todo)
    <3>1. Tail(todo) \in Seq(Frame)
      BY <1>1, <1>2, TailFacts
    <3>2. <<>> \o Tail(todo) = Tail(todo)
      BY <3>1
    <3>3. QED
      BY <1>1, <3>2 DEF Do
  <2>6. \A j \in DOMAIN todo' : j + 1 \in DOMAIN todo /\ j + 1 # 1 /\ todo'[j] = todo[j + 1]
    BY <1>1, <1>2, <2>5, TailFacts
  <2>7. Funded(todo', after)
    BY <2>3, <2>4, <2>6 DEF Funded
  <2>8. k - 1 \in DOMAIN todo' /\ todo'[k - 1] = todo[k]
    BY <1>1, <1>2, <2>2, <2>5
  <2>9. Spends(todo', current["serving"], after)
    BY <2>2, <2>8 DEF Spends
  <2>10. QED
    BY <1>1, <2>7, <2>9 DEF CoinInv
<1>9. QED
  BY <1>7, <1>8

LEMMA InitCoin ==
  ASSUME Init
  PROVE  CoinInv
<1>1. todo = <<>> /\ current["serving"] = "s_idle"
  BY MachineAssumption DEF Init, VendInitial
<1>2. QED
  BY <1>1 DEF CoinInv, Funded, Spends

LEMMA NextCoin ==
  ASSUME Programmed, TypeOK, StackInv, SaleInv, CoinInv, [VendNext]_vars
  PROVE  CoinInv'
<1>1. Throwing = {} /\ ~throwing
  BY MachineAssumption DEF NeverThrows, SaleInv
<1>2. ~HandlerThrows /\ ~GuardThrows /\ ~Escape /\ ~Catch
  BY <1>1 DEF HandlerThrows, GuardThrows, Escape, Catch
<1>3. CASE \E e \in Events : Receive(e)
  BY <1>3, ReceiveCoin
<1>4. CASE UNCHANGED vars
  BY <1>4 DEF vars, tree, program, control, CoinInv
<1>5. QED
  BY <1>2, <1>3, <1>4, QuietCoin, TestRowCoin, ClearSourceCoin, CompleteTransitionCoin, RunHandlerCoin
  DEF VendNext, Step, Stuck

-----------------------------------------------------------------------------
(* Theorems *)

\* From the guard of a sale to its action, the price and the customers' money
\* are those that the guard has compared, whatever is left in between.
THEOREM SaleInvariant ==
  ASSUME Programmed
  PROVE  VendSpec => []SaleInv
<1>1. Init => SaleInv
  BY InitSale
<1>2. TypeOK /\ StackInv /\ SaleInv /\ [VendNext]_vars => SaleInv'
  BY NextSale
<1>3. QED
  BY <1>1, <1>2, IsStateTree, StackInvariant, PTL DEF VendSpec

\* A coin that has been taken is the way into `active` and a sale the way out of
\* it, whatever else is left to do: this is inductive.
THEOREM CoinInvariant ==
  ASSUME Programmed
  PROVE  VendSpec => []CoinInv
<1>1. Init => CoinInv
  BY InitCoin
<1>2. TypeOK /\ StackInv /\ SaleInv /\ CoinInv /\ [VendNext]_vars => CoinInv'
  BY NextCoin
<1>3. QED
  BY <1>1, <1>2, IsStateTree, StackInvariant, SaleInvariant, PTL DEF VendSpec

\* For any products, prices, stocks and coins: an item comes out only if a coin
\* has gone in since the last one did, although nothing is ever taken off the
\* balance that the guard of a sale looks at.
THEOREM CoinBeforeEachItem ==
  ASSUME Programmed
  PROVE  VendSpec => CoinForEachItem
<1> DEFINE Paid == facts'.sold # facts.sold => facts.paid
<1>1. TypeOK /\ StackInv /\ SaleInv /\ CoinInv /\ [VendNext]_vars => [Paid]_vars
  <2>1. SUFFICES ASSUME TypeOK, StackInv, SaleInv, CoinInv, [VendNext]_vars, facts'.sold # facts.sold
                 PROVE  facts.paid
    OBVIOUS
  <2>2. RunHandler /\ Sells(Head(todo))
    BY <2>1, NextSale
  <2>3. todo # <<>> /\ todo \in Seq(Frame)
    BY <2>1, <2>2 DEF RunHandler, Doing, TypeOK
  <2>4. 1 \in DOMAIN todo /\ Head(todo) = todo[1]
    BY <2>3
  <2>5. QED
    BY <2>1, <2>2, <2>4 DEF CoinInv, Funded
<1>2. VendSpec => [][Paid]_vars
  BY <1>1, CoinInvariant, SaleInvariant, IsStateTree, StackInvariant, PTL DEF VendSpec
<1>3. QED
  BY <1>2 DEF CoinForEachItem

\* What the state `on`, its state `serving` and the balance in `active` were when
\* the machine was turned off, they are when it is turned on again.
THEOREM PowerCycleKeepsHistory == VendSpec => HistoryKept
<1>1. Throwing = {}
  BY MachineAssumption DEF NeverThrows
<1>2. QED
  BY <1>1, IsStateTree, HistoryIsKept

\* What `on` has left to do, and what the goods are like, keeps products without
\* a price from customers: this is inductive.
THEOREM PriceInvariant ==
  ASSUME Programmed
  PROVE  VendSpec => []PriceInv
<1>1. Init => PriceInv
  BY InitPrice
<1>2. TypeOK /\ StackInv /\ SaleInv /\ PriceInv /\ [VendNext]_vars => PriceInv'
  BY NextPrice
<1>3. QED
  BY <1>1, <1>2, IsStateTree, StackInvariant, SaleInvariant, PTL DEF VendSpec

\* In a machine that serves every product has a price, however it was opened, but
\* for goods that it was made with, until some are loaded or priced: goods come in
\* only in maintenance, which is left with prices on all of them or with nothing
\* to sell, and then the shop closes at once.
THEOREM PricesWhenServing ==
  ASSUME Programmed
  PROVE  VendSpec => []PricedWhenServing
<1>1. PriceInv => PricedWhenServing
  <2>1. SUFFICES ASSUME PriceInv, Resting, Serving, ~facts.unpriced
                 PROVE  PricesCorrect(facts)
    BY DEF PricedWhenServing, PricesCorrect
  <2>2. "serving" \in States /\ Parent["serving"] = "on" /\ "on" \in Machines /\ "serving" # Root
    BY MachineAssumption DEF VendStates, VendParent, Machines, VendInitial
  <2>3. "serving" \in Up["serving"]
    BY <2>2, UpSelf
  <2>4. current["on"] = "serving"
    BY <2>1, <2>2, <2>3 DEF Serving, Active
  <2>5. todo = <<>>
    BY <2>1 DEF Resting
  <2>6. ~Closing(todo, res)
    BY <2>5 DEF Closing
  <2>7. QED
    BY <2>1, <2>4, <2>6 DEF PriceInv, Tended, Priced
<1>2. QED
  BY <1>1, PriceInvariant, PTL

\* What `on` has left to do takes care of every default transition that is due:
\* this is inductive.
THEOREM PendInvariant ==
  ASSUME Programmed
  PROVE  VendSpec => []PendInv
<1>1. Init => PendInv
  BY InitPend
<1>2. TypeOK /\ StackInv /\ SaleInv /\ PriceInv /\ PendInv /\ [VendNext]_vars => PendInv'
  BY NextPend
<1>3. QED
  BY <1>1, <1>2, IsStateTree, StackInvariant, SaleInvariant, PriceInvariant, PTL DEF VendSpec

\* Whatever event it has had, the shop is closed when there is nothing to sell and
\* open when there is: no default transition is left to be made, although every
\* level makes one at the most for an event.
THEOREM ClosedWhenEmpty ==
  ASSUME Programmed
  PROVE  VendSpec => []NothingPending
<1>1. PendInv => NothingPending
  <2>1. SUFFICES ASSUME PendInv, Resting, NEW m \in Machines \cap Active(current),
                        NEW r \in ToSet(Table[m]), r.from = current[m], r.event = None
                 PROVE  FALSE \in Verdicts(r.guard, None, facts)
    BY DEF NothingPending
  <2>2. PICK i \in DOMAIN Table[m] : r = Table[m][i]
    BY DEF ToSet
  <2>3. m = "on" /\ i \in {1, 2}
    BY <2>1, <2>2, DefaultRows
  <2>4. ~PendAt(current["on"], facts)
    <3>1. todo = <<>>
      BY <2>1 DEF Resting
    <3>2. current["vm"] # "off"
      <4>1. "on" \in Up["on"] \ {Root} /\ Parent["on"] = "vm" /\ "vm" \in Machines
        BY VendTree, MachineAssumption DEF VendParent
      <4>2. QED
        BY <2>1, <2>3, <4>1 DEF Active
    <3>3. DOMAIN <<>> = {}
      OBVIOUS
    <3>4. QED
      BY <2>1, <3>1, <3>2, <3>3 DEF PendInv, Awaited
  <2>5. CASE i = 1
    <3>1. r.guard = "is_empty" /\ current["on"] = "serving"
      BY <2>1, <2>2, <2>3, <2>5, ClosingRows
    <3>2. ~IsEmpty(facts)
      BY <2>4, <3>1 DEF PendAt
    <3>3. Holds(r.guard, None, facts) = FALSE
      BY <3>1, <3>2 DEF Holds
    <3>4. Verdicts(r.guard, None, facts) = {Holds(r.guard, None, facts)}
      BY DEF Programmed, VendVerdicts
    <3>5. QED
      BY <3>3, <3>4
  <2>6. CASE i = 2
    <3>1. r.guard = "not_empty" /\ current["on"] = "out_of_service"
      BY <2>1, <2>2, <2>3, <2>6, ClosingRows
    <3>2. IsEmpty(facts)
      BY <2>4, <3>1 DEF PendAt
    <3>3. Holds(r.guard, None, facts) = FALSE
      BY <3>1, <3>2 DEF Holds
    <3>4. Verdicts(r.guard, None, facts) = {Holds(r.guard, None, facts)}
      BY DEF Programmed, VendVerdicts
    <3>5. QED
      BY <3>3, <3>4
  <2>7. QED
    BY <2>3, <2>5, <2>6
<1>2. QED
  BY <1>1, PendInvariant, PTL
=============================================================================
