-------------------------- MODULE EastReplicaProofs --------------------------
(***************************************************************************)
(* First, the branch: the stored blocks are those of one branch, whatever  *)
(* the node mines and undoes while the listener works, stops and starts    *)
(* again; so no id comes twice, and no INSERT is refused.  A line is a     *)
(* branch from its first block up.  The invariant names the line that the  *)
(* listener has reached, and the lines that each event on its way leads    *)
(* to, the last of which is the node's chain.                              *)
(*                                                                         *)
(* Then, the readers' view: the listener implements ChainReplica, and a    *)
(* close pays the vault of its request, where PostgreSQL aborts no         *)
(* transaction.  Between two handlers the tables of the transaction show   *)
(* what the contract holds between the two calls.  Cut at a height, the    *)
(* tables show what it held after the block of that height: so a rollback  *)
(* leaves what was shown before.                                           *)
(***************************************************************************)
EXTENDS EastListenerProofs

-----------------------------------------------------------------------------
(* Lines of a store.                                                       *)

Line(st, l) ==
    /\ l \in Seq(Nat \ {0})
    /\ \A h \in 1 .. Len(l) :
         /\ l[h] \in DOMAIN st /\ st[l[h]].height = h
         /\ st[l[h]].parent = IF h = 1 THEN 0 ELSE l[h - 1]

\* No id is called in two blocks of the line.
IdsDiffer(st, l) ==
    \A g, h \in 1 .. Len(l) :
      \A i \in DOMAIN st[l[g]].calls, j \in DOMAIN st[l[h]].calls :
        st[l[g]].calls[i].req.id = st[l[h]].calls[j].req.id => g = h

GoodLine(st, l) == Line(st, l) /\ IdsDiffer(st, l)

(* Nothing mined.                                                          *)
LEMMA EmptyLine == ASSUME NEW st PROVE GoodLine(st, <<>>)
BY DEF GoodLine, Line, IdsDiffer

(* Lines stay lines when blocks are mined.                                 *)
LEMMA LineGrows ==
  ASSUME NEW st, NEW su, NEW l, GoodLine(st, l),
         \A s \in DOMAIN st : s \in DOMAIN su /\ su[s] = st[s]
  PROVE  GoodLine(su, l)
<1>1. \A h \in 1 .. Len(l) : l[h] \in DOMAIN st /\ l[h] \in DOMAIN su
                             /\ su[l[h]] = st[l[h]]
  BY DEF GoodLine, Line
<1>2. Line(su, l)
  BY <1>1 DEF GoodLine, Line
<1>3. IdsDiffer(su, l)
  BY <1>1 DEF GoodLine, IdsDiffer
<1> QED  BY <1>2, <1>3 DEF GoodLine

(* Two lines that meet are the same below.                                 *)
LEMMA LinesMeet ==
  ASSUME NEW st, NEW k, NEW l, Line(st, k), Line(st, l),
         NEW n \in 1 .. Len(k), n <= Len(l), k[n] = l[n]
  PROVE  \A h \in 1 .. n : k[h] = l[h]
<1>1. Len(k) \in Nat /\ Len(l) \in Nat /\ n \in Nat /\ n >= 1
  BY DEF Line
<1> DEFINE D == {h \in 1 .. n : k[h] # l[h]}
<1>2. D = {}
  <2> SUFFICES ASSUME D # {} PROVE FALSE
    OBVIOUS
  <2>1. D \in SUBSET Nat /\ \A h \in D : h <= n
    BY <1>1
  <2>2. PICK h \in D : \A g \in D : g <= h
    <3> HIDE DEF D
    <3> QED  BY <1>1, <2>1, GreatestNatural
  <2>3. h \in 1 .. n /\ k[h] # l[h] /\ h # n
    OBVIOUS
  <2>4. h + 1 \in 1 .. n /\ h + 1 \in 1 .. Len(k) /\ h + 1 \in 1 .. Len(l)
        /\ h + 1 # 1 /\ (h + 1) - 1 = h /\ ~(h + 1 <= h)
    BY <1>1, <2>3
  <2>5. k[h + 1] = l[h + 1]
    BY <2>2, <2>4
  <2>6. st[k[h + 1]].parent = k[h] /\ st[l[h + 1]].parent = l[h]
    BY <2>4 DEF Line
  <2> QED  BY <2>3, <2>5, <2>6
<1> QED  BY <1>2

(* The lower part of a line is a line.                                     *)
LEMMA LinePrefix ==
  ASSUME NEW st, NEW l, GoodLine(st, l), NEW n \in 0 .. Len(l)
  PROVE  LET k == SubSeq(l, 1, n)
         IN  /\ GoodLine(st, k) /\ Len(k) = n
             /\ \A h \in 1 .. n : k[h] = l[h]
<1> DEFINE k == SubSeq(l, 1, n)
<1>1. Len(l) \in Nat /\ l \in Seq(Nat \ {0}) /\ n \in Nat /\ n <= Len(l)
  BY DEF GoodLine, Line
<1>2. k \in Seq(Nat \ {0}) /\ Len(k) = n /\ \A h \in 1 .. n : k[h] = l[h]
  BY <1>1
<1> HIDE DEF k
<1>3. \A h \in 1 .. n :
        /\ l[h] \in DOMAIN st /\ st[l[h]].height = h
        /\ st[l[h]].parent = IF h = 1 THEN 0 ELSE l[h - 1]
  BY <1>1 DEF GoodLine, Line
<1>4. \A h \in 1 .. n : h # 1 => h - 1 \in 1 .. n
  BY <1>1
<1>5. Line(st, k)
  BY <1>2, <1>3, <1>4 DEF Line
<1>6. \A h \in 1 .. n : h \in 1 .. Len(l)
  BY <1>1
<1>7. IdsDiffer(st, k)
  <2>1. \A h \in 1 .. n : h \in 1 .. Len(l) /\ k[h] = l[h]
    BY <1>2, <1>6
  <2>2. IdsDiffer(st, l)
    BY DEF GoodLine
  <2> SUFFICES ASSUME NEW g \in 1 .. n, NEW h \in 1 .. n,
                      NEW i \in DOMAIN st[k[g]].calls,
                      NEW j \in DOMAIN st[k[h]].calls,
                      st[k[g]].calls[i].req.id = st[k[h]].calls[j].req.id
               PROVE  g = h
    BY <1>2 DEF IdsDiffer
  <2>3. k[g] = l[g] /\ k[h] = l[h] /\ g \in 1 .. Len(l) /\ h \in 1 .. Len(l)
    BY <2>1
  <2>4. /\ i \in DOMAIN st[l[g]].calls /\ j \in DOMAIN st[l[h]].calls
        /\ st[l[g]].calls[i].req.id = st[l[h]].calls[j].req.id
    BY <2>3
  <2> QED  BY <2>2, <2>3, <2>4 DEF IdsDiffer
<1> QED  BY <1>2, <1>5, <1>7 DEF GoodLine, k

(* A block whose parent is the tip makes a line.                           *)
LEMMA LineExtended ==
  ASSUME NEW st, NEW l, GoodLine(st, l),
         NEW a \in DOMAIN st, a \in Nat \ {0}, st[a].height = Len(l) + 1,
         st[a].parent = IF l = <<>> THEN 0 ELSE l[Len(l)],
         \A h \in 1 .. Len(l) :
           \A i \in DOMAIN st[l[h]].calls, j \in DOMAIN st[a].calls :
             st[l[h]].calls[i].req.id # st[a].calls[j].req.id
  PROVE  LET k == Append(l, a)
         IN  /\ GoodLine(st, k) /\ Len(k) = Len(l) + 1 /\ k[Len(l) + 1] = a
             /\ \A h \in 1 .. Len(l) : k[h] = l[h]
<1> DEFINE k == Append(l, a)
<1>1. Len(l) \in Nat /\ l \in Seq(Nat \ {0})
  BY DEF GoodLine, Line
<1>2. k \in Seq(Nat \ {0}) /\ Len(k) = Len(l) + 1 /\ k[Len(l) + 1] = a
      /\ \A h \in 1 .. Len(l) : k[h] = l[h]
  BY <1>1
<1> HIDE DEF k
<1>3. ASSUME NEW h \in 1 .. Len(k)
      PROVE  /\ k[h] \in DOMAIN st /\ st[k[h]].height = h
             /\ st[k[h]].parent = IF h = 1 THEN 0 ELSE k[h - 1]
  <2>1. CASE h \in 1 .. Len(l)
    <3>1. /\ l[h] \in DOMAIN st /\ st[l[h]].height = h
          /\ st[l[h]].parent = IF h = 1 THEN 0 ELSE l[h - 1]
      BY <2>1 DEF GoodLine, Line
    <3>2. h # 1 => h - 1 \in 1 .. Len(l)
      BY <1>1, <2>1
    <3> QED  BY <2>1, <3>1, <3>2, <1>2
  <2>2. CASE h = Len(l) + 1
    <3>1. k[h] = a
      BY <2>2, <1>2
    <3>2. CASE l = <<>>
      <4>1. h = 1
        BY <2>2, <3>2
      <4> QED  BY <2>2, <3>1, <3>2, <4>1
    <3>3. CASE l # <<>>
      <4>1. Len(l) \in 1 .. Len(l) /\ h # 1 /\ h - 1 = Len(l)
        BY <2>2, <3>3, <1>1
      <4>2. k[h - 1] = l[Len(l)]
        BY <4>1, <1>2
      <4> QED  BY <2>2, <3>1, <3>3, <4>1, <4>2
    <3> QED  BY <3>2, <3>3
  <2> QED  BY <2>1, <2>2, <1>1, <1>2
<1>4. ASSUME NEW g \in 1 .. Len(k), NEW h \in 1 .. Len(k),
             NEW i \in DOMAIN st[k[g]].calls, NEW j \in DOMAIN st[k[h]].calls,
             st[k[g]].calls[i].req.id = st[k[h]].calls[j].req.id
      PROVE  g = h
  <2>1. /\ g \in 1 .. Len(l) \/ g = Len(l) + 1
        /\ h \in 1 .. Len(l) \/ h = Len(l) + 1
    BY <1>1, <1>2
  <2>2. CASE g \in 1 .. Len(l) /\ h \in 1 .. Len(l)
    <3>1. k[g] = l[g] /\ k[h] = l[h]
      BY <2>2, <1>2
    <3>2. /\ i \in DOMAIN st[l[g]].calls /\ j \in DOMAIN st[l[h]].calls
          /\ st[l[g]].calls[i].req.id = st[l[h]].calls[j].req.id
      BY <3>1, <1>4
    <3>3. IdsDiffer(st, l)
      BY DEF GoodLine
    <3> QED  BY <2>2, <3>2, <3>3 DEF IdsDiffer
  <2>3. CASE g \in 1 .. Len(l) /\ h = Len(l) + 1
    <3>1. k[g] = l[g] /\ k[h] = a
      BY <2>3, <1>2
    <3> QED  BY <2>3, <3>1, <1>4
  <2>4. CASE g = Len(l) + 1 /\ h \in 1 .. Len(l)
    <3>1. k[g] = a /\ k[h] = l[h]
      BY <2>4, <1>2
    <3>2. st[l[h]].calls[j].req.id # st[a].calls[i].req.id
      BY <2>4, <3>1, <1>4
    <3> QED  BY <3>1, <3>2, <1>4
  <2> QED  BY <2>1, <2>2, <2>3, <2>4
<1>5. Line(st, k)
  BY <1>2, <1>3 DEF Line
<1>6. IdsDiffer(st, k)
  BY <1>4 DEF IdsDiffer
<1> QED  BY <1>2, <1>5, <1>6 DEF GoodLine, k

-----------------------------------------------------------------------------
(* The way of the listener.                                                *)

(* Event e leads from line k to line l.                                    *)
Leads(st, k, e, l) ==
    IF e.kind = "block" THEN l = Append(k, e.sig)
    ELSE LET h == st[e.sig].height
         IN  /\ e.sig \in DOMAIN st /\ h \in 1 .. Len(k) /\ k[h] = e.sig
             /\ l = SubSeq(k, 1, h - 1)

(* The events of strm lead from the first line of w to the last, ch.       *)
Way(st, strm, w, ch) ==
    /\ DOMAIN w = 1 .. Len(strm) + 1
    /\ \A i \in 1 .. Len(strm) + 1 : GoodLine(st, w[i])
    /\ \A i \in 1 .. Len(strm) : Leads(st, w[i], strm[i], w[i + 1])
    /\ w[Len(strm) + 1] = ch

NoRateRefused == \A r \in Requests : r.value # "rejected"

(* The stored blocks are of line l, and so is the one being stored, its    *)
(* tip.  All of the line is stored if PostgreSQL aborts no transaction.    *)
Reached(st, d, x, l) ==
    /\ GoodLine(st, l)
    /\ \A b \in d.blocks : b.height \in 1 .. Len(l) /\ l[b.height] = b.sig
    /\ x.sig # 0 => l # <<>> /\ l[Len(l)] = x.sig
    /\ NoRateRefused =>
         /\ ~x.aborted
         /\ \A h \in 1 .. Len(l) : x.sig = 0 \/ h # Len(l) =>
              [height |-> h, sig |-> l[h]] \in d.blocks

OnWay(st, strm, ch, l) == \E w : Way(st, strm, w, ch) /\ w[1] = l

BranchOK ==
    /\ GoodLine(store, chain)
    /\ \E l : /\ Reached(store, db, trx, l)
              /\ mode = "streaming" => OnWay(store, stream, chain, l)

(* A line that is reached stays so when blocks are mined.                  *)
LEMMA ReachedGrows ==
  ASSUME NEW st, NEW su, NEW d, NEW x, NEW l, Reached(st, d, x, l),
         \A s \in DOMAIN st : s \in DOMAIN su /\ su[s] = st[s]
  PROVE  Reached(su, d, x, l)
BY LineGrows DEF Reached

(* So does a way.                                                          *)
LEMMA WayGrows ==
  ASSUME NEW st, NEW su, NEW strm, NEW ch, NEW l, OnWay(st, strm, ch, l),
         \A s \in DOMAIN st : s \in DOMAIN su /\ su[s] = st[s]
  PROVE  OnWay(su, strm, ch, l)
<1>1. PICK w : Way(st, strm, w, ch) /\ w[1] = l
  BY DEF OnWay
<1>2. \A i \in 1 .. Len(strm) + 1 : GoodLine(su, w[i])
  BY <1>1, LineGrows DEF Way
<1>3. \A i \in 1 .. Len(strm) : Leads(su, w[i], strm[i], w[i + 1])
  BY <1>1 DEF Way, Leads
<1>4. Way(su, strm, w, ch)
  BY <1>1, <1>2, <1>3 DEF Way
<1> QED  BY <1>1, <1>4 DEF OnWay

(* One more event, one more line.                                          *)
LEMMA WayExtended ==
  ASSUME NEW st, NEW strm \in Seq(Event), NEW ch, NEW l, OnWay(st, strm, ch, l),
         NEW e \in Event, NEW c, GoodLine(st, c), Leads(st, ch, e, c)
  PROVE  OnWay(st, Append(strm, e), c, l)
<1>1. PICK w : Way(st, strm, w, ch) /\ w[1] = l
  BY DEF OnWay
<1> DEFINE n == Len(strm)
           v == [i \in 1 .. n + 2 |-> IF i = n + 2 THEN c ELSE w[i]]
           s == Append(strm, e)
<1>2. n \in Nat /\ Len(s) = n + 1 /\ s[n + 1] = e
      /\ \A i \in 1 .. n : s[i] = strm[i]
  OBVIOUS
<1>3. \A i \in 1 .. n + 1 : i \in 1 .. n + 2 /\ i # n + 2
  BY <1>2
<1>4. DOMAIN v = 1 .. n + 2 /\ v[n + 2] = c /\ \A i \in 1 .. n + 1 : v[i] = w[i]
  BY <1>2, <1>3
<1> HIDE DEF v, s
<1>5. Len(s) + 1 = n + 2 /\ \A i \in 1 .. n + 2 : i \in 1 .. n + 1 \/ i = n + 2
  BY <1>2
<1>6. \A i \in 1 .. n + 2 : GoodLine(st, v[i])
  BY <1>1, <1>4, <1>5 DEF Way
<1>7. ASSUME NEW i \in 1 .. n + 1
      PROVE  Leads(st, v[i], s[i], v[i + 1])
  <2>1. CASE i \in 1 .. n
    <3>1. i + 1 \in 1 .. n + 1 /\ i \in 1 .. n + 1
      BY <1>2, <2>1
    <3>2. v[i] = w[i] /\ v[i + 1] = w[i + 1] /\ s[i] = strm[i]
      BY <1>2, <1>4, <2>1, <3>1
    <3> QED  BY <1>1, <2>1, <3>2 DEF Way
  <2>2. CASE i = n + 1
    <3>1. v[i] = w[n + 1] /\ v[i + 1] = c /\ s[i] = e /\ w[n + 1] = ch
      <4>1. i + 1 = n + 2
        BY <1>2, <2>2
      <4> QED  BY <1>1, <1>2, <1>4, <2>2, <4>1 DEF Way
    <3> QED  BY <3>1
  <2> QED  BY <1>2, <2>1, <2>2
<1>8. v[1] = l
  BY <1>1, <1>2, <1>4
<1>9. Way(st, s, v, c)
  <2>1. \A i \in 1 .. Len(s) : Leads(st, v[i], s[i], v[i + 1])
    BY <1>2, <1>7
  <2> QED  BY <1>4, <1>5, <1>6, <2>1 DEF Way
<1> QED  BY <1>8, <1>9 DEF OnWay, s

(* The listener takes the first event and goes one line on.                *)
LEMMA WayTaken ==
  ASSUME NEW st, NEW strm \in Seq(Event), strm # <<>>, NEW ch, NEW l,
         OnWay(st, strm, ch, l)
  PROVE  \E k : /\ OnWay(st, Tail(strm), ch, k) /\ GoodLine(st, k)
                /\ Leads(st, l, strm[1], k)
<1>1. PICK w : Way(st, strm, w, ch) /\ w[1] = l
  BY DEF OnWay
<1> DEFINE n == Len(strm)
           v == [i \in 1 .. n |-> w[i + 1]]
           s == Tail(strm)
<1>2. n \in Nat /\ n >= 1 /\ Len(s) = n - 1
      /\ \A i \in 1 .. n - 1 : s[i] = strm[i + 1]
  OBVIOUS
<1>3. DOMAIN v = 1 .. n /\ \A i \in 1 .. n : v[i] = w[i + 1]
  OBVIOUS
<1> HIDE DEF v, s
<1>4. /\ Len(s) + 1 = n /\ n \in 1 .. n
      /\ \A i \in 1 .. n : i + 1 \in 1 .. n + 1
      /\ \A i \in 1 .. n - 1 : i \in 1 .. n /\ i + 1 \in 1 .. n
  BY <1>2
<1>5. \A i \in 1 .. n : GoodLine(st, v[i])
  BY <1>1, <1>3, <1>4 DEF Way
<1>6. ASSUME NEW i \in 1 .. n - 1
      PROVE  Leads(st, v[i], s[i], v[i + 1])
  BY <1>1, <1>2, <1>3, <1>4 DEF Way
<1>7. v[n] = ch
  BY <1>1, <1>3, <1>4 DEF Way
<1>8. Way(st, s, v, ch)
  <2>1. \A i \in 1 .. Len(s) : Leads(st, v[i], s[i], v[i + 1])
    BY <1>2, <1>6
  <2> QED  BY <1>3, <1>4, <1>5, <1>7, <2>1 DEF Way
<1>9. Leads(st, l, strm[1], v[1]) /\ GoodLine(st, v[1])
  <2>1. 1 \in 1 .. n /\ v[1] = w[1 + 1]
    BY <1>2, <1>3
  <2> QED  BY <1>1, <1>5, <2>1 DEF Way
<1> QED  BY <1>8, <1>9 DEF OnWay, s

-----------------------------------------------------------------------------
(* The steps of the node.                                                  *)

(* A mined block holds no call that is on the chain already.               *)
LEMMA MineBranch == ASSUME IInv, BranchOK, Mine PROVE BranchOK'
<1>1. PICK body \in Bodies(NodeState, Offers, InitNeedsVault) :
        store' = Append(store,
                   [height |-> Len(chain) + 1, calls |-> body,
                    parent |-> IF chain = <<>> THEN 0 ELSE chain[Len(chain)]])
  BY DEF Mine
<1> DEFINE new == [height |-> Len(chain) + 1, calls |-> body,
                   parent |-> IF chain = <<>> THEN 0 ELSE chain[Len(chain)]]
           sig == Len(store) + 1
           ev  == [kind |-> "block", sig |-> sig]
<1>2. /\ chain' = Append(chain, sig)
      /\ stream' = IF mode = "streaming" THEN stream \o <<ev>> ELSE stream
      /\ UNCHANGED <<mode, db, trx>>
  BY DEF Mine, Notify
<1>3. /\ store \in Seq(Block) /\ chain \in Seq(Nat \ {0})
      /\ stream \in Seq(Event)
  BY DEF IInv, TypeOK
<1>4. body \in Seq(Call)
  <2>1. Offers \subseteq Request
    BY ListenerAssumption DEF Offers, IInv, TypeOK
  <2> QED  BY <2>1, BodiesTyped, NodeStateTyped DEF IInv
<1>5. /\ sig \in DOMAIN store' /\ sig \in Nat \ {0}
      /\ store'[sig] = new
      /\ \A s \in DOMAIN store : s \in DOMAIN store' /\ store'[s] = store[s]
  <2>1. store' \in Seq(Block)
    BY MineIInv DEF IInv, TypeOK
  <2> HIDE DEF new
  <2> QED  BY <1>1, <1>3, <2>1 DEF new
<1>6. /\ new.height = Len(chain) + 1 /\ new.calls = body
      /\ new.parent = IF chain = <<>> THEN 0 ELSE chain[Len(chain)]
  OBVIOUS
<1> HIDE DEF new
<1>7. GoodLine(store, chain) /\ GoodLine(store', chain)
  BY <1>5, LineGrows DEF BranchOK
<1>8. ASSUME NEW h \in 1 .. Len(chain), NEW i \in DOMAIN store'[chain[h]].calls,
             NEW j \in DOMAIN store'[sig].calls
      PROVE  store'[chain[h]].calls[i].req.id # store'[sig].calls[j].req.id
  <2>1. h \in DOMAIN chain /\ chain[h] \in DOMAIN store
    BY <1>3, <1>7 DEF GoodLine, Line
  <2>2. store'[chain[h]] = store[chain[h]]
    BY <2>1, <1>5
  <2>3. store[chain[h]].calls[i].req \in OnChain
    <3>1. i \in DOMAIN store[chain[h]].calls
      BY <2>2
    <3> QED  BY <2>1, <3>1 DEF OnChain, CallsOf
  <2>4. j \in DOMAIN body /\ body[j].req \in Offers
    BY <1>4, <1>5, <1>6, BodiesOffered
  <2> QED  BY <2>2, <2>3, <2>4, <1>5, <1>6 DEF Offers
<1>9. GoodLine(store', chain')
  BY <1>2, <1>5, <1>6, <1>7, <1>8, LineExtended
<1>10. PICK l : /\ Reached(store, db, trx, l)
                /\ mode = "streaming" => OnWay(store, stream, chain, l)
  BY DEF BranchOK
<1>11. Reached(store', db', trx', l)
  BY <1>2, <1>5, <1>10, ReachedGrows
<1>12. ASSUME mode = "streaming" PROVE OnWay(store', stream', chain', l)
  <2>1. ev \in Event /\ stream' = Append(stream, ev)
    <3>1. ev \in Event
      BY <1>5 DEF Event
    <3> QED  BY <3>1, <1>2, <1>3, <1>12
  <2>2. OnWay(store', stream, chain, l)
    BY <1>5, <1>10, <1>12, WayGrows
  <2>3. Leads(store', chain, ev, chain')
    BY <1>2 DEF Leads
  <2> HIDE DEF ev
  <2> QED  BY <2>1, <2>2, <2>3, <1>3, <1>9, WayExtended
<1> QED  BY <1>2, <1>9, <1>11, <1>12 DEF BranchOK

(* The node drops blocks and says from where it goes on.                   *)
LEMMA ForkBranch == ASSUME IInv, BranchOK, Fork PROVE BranchOK'
<1>1. PICK k \in 0 .. Len(chain) - 1 :
        /\ chain' = SubSeq(chain, 1, k)
        /\ \E from \in {k, k + 1} \ {0} :
             Notify(<<[kind |-> "rollback", sig |-> chain[from]]>>
                      \o Blocks(from, k))
        /\ UNCHANGED <<store, mode, db, trx>>
  BY DEF Fork
<1>2. PICK from \in {k, k + 1} \ {0} :
        Notify(<<[kind |-> "rollback", sig |-> chain[from]]>>
                 \o Blocks(from, k))
  BY <1>1
<1> DEFINE undo  == [kind |-> "rollback", sig |-> chain[from]]
           again == [kind |-> "block", sig |-> chain[from]]
           mid   == SubSeq(chain, 1, from - 1)
<1>3. /\ chain \in Seq(Nat \ {0}) /\ stream \in Seq(Event) /\ Len(chain) \in Nat
      /\ k \in Nat /\ from \in 1 .. Len(chain) /\ k \in 0 .. Len(chain)
      /\ from - 1 \in 0 .. Len(chain)
  BY <1>1 DEF IInv, TypeOK
<1>4. /\ GoodLine(store, chain) /\ GoodLine(store, chain')
      /\ GoodLine(store, mid)
  <2>1. GoodLine(store, chain)
    BY DEF BranchOK
  <2> QED  BY <1>1, <1>3, <2>1, LinePrefix
<1>5. chain[from] \in DOMAIN store /\ store[chain[from]].height = from
      /\ undo \in Event /\ again \in Event
  <2>1. chain[from] \in Nat \ {0}
    BY <1>3
  <2>2. undo \in Event /\ again \in Event
    BY <2>1 DEF Event
  <2> QED  BY <1>3, <1>4, <2>2 DEF GoodLine, Line
<1>6. ASSUME mode = "streaming"
      PROVE  \/ from = k + 1 /\ stream' = Append(stream, undo)
             \/ from = k /\ stream' = Append(Append(stream, undo), again)
  <2>1. stream' = stream \o (<<undo>> \o Blocks(from, k))
    BY <1>2, <1>6 DEF Notify
  <2>2. /\ Blocks(from, k) \in Seq(Event)
        /\ Len(Blocks(from, k)) = k - from + 1
        /\ \A i \in 1 .. k - from + 1 :
             Blocks(from, k)[i] = [kind |-> "block",
                                   sig  |-> chain[from + i - 1]]
    <3>1. k <= Len(chain) /\ from <= k + 1 /\ from \in Nat \ {0} /\ k \in Nat
      BY <1>1, <1>2, <1>3
    <3> QED  BY <3>1, BlocksTyped DEF IInv
  <2>3. CASE from = k + 1
    <3>1. Blocks(from, k) = <<>>
      BY <2>2, <2>3, <1>3
    <3>2. stream' = Append(stream, undo)
      BY <2>1, <3>1, <1>3, <1>5
    <3> QED  BY <2>3, <3>2
  <2>4. CASE from = k
    <3>1. Blocks(from, k) = <<again>>
      BY <2>2, <2>4, <1>3
    <3>2. stream' = Append(Append(stream, undo), again)
      <4>1. stream' = stream \o (<<undo>> \o <<again>>)
        BY <2>1, <3>1
      <4> HIDE DEF undo, again
      <4> QED  BY SMTT(30), <4>1, <1>3, <1>5
    <3> QED  BY <2>4, <3>2
  <2> QED  BY <2>3, <2>4
<1>7. PICK l : /\ Reached(store, db, trx, l)
               /\ mode = "streaming" => OnWay(store, stream, chain, l)
  BY DEF BranchOK
<1>8. ASSUME mode = "streaming" PROVE OnWay(store, stream', chain', l)
  <2>1. Leads(store, chain, undo, mid)
    BY <1>3, <1>5 DEF Leads
  <2>2. OnWay(store, Append(stream, undo), mid, l)
    <3> HIDE DEF undo, mid
    <3> QED  BY <1>3, <1>4, <1>5, <1>7, <1>8, <2>1, WayExtended
  <2>3. CASE from = k + 1 /\ stream' = Append(stream, undo)
    <3>1. mid = chain'
      BY <2>3, <1>1, <1>3
    <3> QED  BY <2>2, <2>3, <3>1
  <2>4. CASE from = k /\ stream' = Append(Append(stream, undo), again)
    <3>1. chain' = Append(mid, chain[from])
      BY <2>4, <1>1, <1>3
    <3>2. Leads(store, mid, again, chain')
      BY <3>1 DEF Leads
    <3>3. Append(stream, undo) \in Seq(Event)
      BY <1>3, <1>5
    <3> HIDE DEF undo, mid, again
    <3> QED  BY <1>4, <1>5, <2>2, <2>4, <3>2, <3>3, WayExtended
  <2> QED  BY <2>3, <2>4, <1>6, <1>8
<1> QED  BY <1>1, <1>4, <1>7, <1>8 DEF BranchOK

-----------------------------------------------------------------------------
(* The steps of the listener.                                              *)

(* What is deleted from the tables is cut off the line.                    *)
LEMMA ReachedBelow ==
  ASSUME NEW st, NEW d, NEW x, NEW l, Reached(st, d, x, l), x.sig = 0,
         NEW h \in 1 .. Len(l), NEW e, d.blocks \subseteq BlockRow,
         e.blocks = {b \in d.blocks : b.height < h}
  PROVE  Reached(st, e, x, SubSeq(l, 1, h - 1))
<1> DEFINE k == SubSeq(l, 1, h - 1)
<1>1. /\ GoodLine(st, l) /\ l \in Seq(Nat \ {0}) /\ Len(l) \in Nat
      /\ h \in Nat /\ h - 1 \in 0 .. Len(l)
  BY DEF Reached, GoodLine, Line
<1>2. GoodLine(st, k) /\ Len(k) = h - 1 /\ \A g \in 1 .. h - 1 : k[g] = l[g]
  BY <1>1, LinePrefix
<1> HIDE DEF k
<1>3. ASSUME NEW b \in e.blocks
      PROVE  b.height \in 1 .. Len(k) /\ k[b.height] = b.sig
  <2>1. b \in d.blocks /\ b.height < h /\ b.height \in Nat
    BY DEF BlockRow
  <2>2. b.height \in 1 .. Len(l) /\ l[b.height] = b.sig
    BY <2>1 DEF Reached
  <2> QED  BY <1>1, <1>2, <2>1, <2>2
<1>4. ASSUME NoRateRefused, NEW g \in 1 .. Len(k)
      PROVE  [height |-> g, sig |-> k[g]] \in e.blocks
  <2>1. g \in 1 .. Len(l) /\ k[g] = l[g] /\ g < h
    BY <1>1, <1>2
  <2>2. [height |-> g, sig |-> l[g]] \in d.blocks
    BY <1>4, <2>1 DEF Reached
  <2> QED  BY <2>1, <2>2
<1> QED  BY <1>2, <1>3, <1>4 DEF Reached, k

(* An open transaction holds the tip of the line, and its end takes it.    *)
LEMMA LeavesBranch == ASSUME IInv, TrxAbove, BranchOK, Leaves PROVE BranchOK'
<1>1. PICK l : Reached(store, db, trx, l)
  BY DEF BranchOK
<1>2. /\ UNCHANGED <<store, chain, db>> /\ trx' = NoTrx /\ mode' = "down"
      /\ NoTrx.sig = 0 /\ ~NoTrx.aborted
  BY DEF Leaves, Exit, NoTrx
<1>3. CASE ~InTrx
  <2>1. trx = NoTrx
    BY <1>3 DEF IInv, TrxOK
  <2>2. Reached(store', db', trx', l)
    BY <1>1, <1>2, <2>1
  <2> QED  BY <1>2, <2>2 DEF BranchOK
<1>4. CASE InTrx
  <2> DEFINE n == Len(l) - 1
             k == SubSeq(l, 1, n)
  <2>1. GoodLine(store, l) /\ l \in Seq(Nat \ {0}) /\ l # <<>>
        /\ l[Len(l)] = trx.sig
    BY <1>1, <1>4 DEF Reached, GoodLine, Line, InTrx
  <2>2. Len(l) \in 1 .. Len(l) /\ n \in 0 .. Len(l) /\ Len(l) \in Nat /\ n \in Nat
    BY <2>1
  <2>3. Height = Len(l)
    BY <2>1, <2>2 DEF Height, GoodLine, Line
  <2>4. GoodLine(store, k) /\ Len(k) = n /\ \A g \in 1 .. n : k[g] = l[g]
    BY <2>1, <2>2, LinePrefix
  <2> HIDE DEF k
  <2>5. ASSUME NEW b \in db.blocks
        PROVE  b.height \in 1 .. Len(k) /\ k[b.height] = b.sig
    <3>1. b.height \in 1 .. Len(l) /\ l[b.height] = b.sig
      BY <1>1 DEF Reached
    <3>2. b.height < Len(l)
      BY <1>4, <2>3 DEF TrxAbove, HeightsBelow
    <3> QED  BY <2>2, <2>4, <3>1, <3>2
  <2>6. ASSUME NoRateRefused, NEW g \in 1 .. Len(k)
        PROVE  [height |-> g, sig |-> k[g]] \in db.blocks
    <3>1. g \in 1 .. Len(l) /\ g # Len(l) /\ k[g] = l[g]
      BY <2>2, <2>4
    <3> QED  BY <2>6, <3>1, <1>1 DEF Reached
  <2>7. Reached(store', db', trx', k)
    BY <1>2, <2>4, <2>5, <2>6 DEF Reached
  <2> QED  BY <1>2, <2>7 DEF BranchOK
<1> QED  BY <1>3, <1>4

(* The last stored block is one of the node's: so are those below it.      *)
LEMMA ConnectBranch == ASSUME IInv, BranchOK, Connect PROVE BranchOK'
<1>1. /\ mode = "connecting" /\ mode' = "streaming"
      /\ UNCHANGED <<store, chain, db, trx>>
  BY DEF Connect, node
<1>2. ~InTrx /\ trx = NoTrx /\ trx.sig = 0 /\ ~trx.aborted
  BY <1>1 DEF IInv, TrxOK, InTrx, NoTrx
<1>3. /\ chain \in Seq(Nat \ {0}) /\ Len(chain) \in Nat
      /\ db.blocks \subseteq BlockRow /\ GoodLine(store, chain)
  BY TablesFields DEF IInv, TypeOK, BranchOK
<1>4. PICK from \in 1 .. Len(chain) + 1 :
        /\ stream' = Blocks(from, Len(chain))
        /\ Reached(store, db, trx, SubSeq(chain, 1, from - 1))
  <2>1. CASE db.blocks = {} /\ stream' = Blocks(1, Len(chain))
    <3>1. SubSeq(chain, 1, 1 - 1) = <<>> /\ 1 \in 1 .. Len(chain) + 1
      BY <1>3
    <3>2. Reached(store, db, trx, <<>>)
      BY <1>2, <2>1, EmptyLine DEF Reached
    <3> QED  BY <2>1, <3>1, <3>2
  <2>2. ASSUME NEW b \in LastBlock(db), NEW h \in DOMAIN chain,
               chain[h] = b.sig, stream' = Blocks(h + 1, Len(chain))
        PROVE  \E from \in 1 .. Len(chain) + 1 :
                 /\ stream' = Blocks(from, Len(chain))
                 /\ Reached(store, db, trx, SubSeq(chain, 1, from - 1))
    <3> DEFINE k == SubSeq(chain, 1, h)
    <3>1. b \in db.blocks /\ \A c \in db.blocks : c.height <= b.height
      BY DEF LastBlock
    <3>2. b.height = h
      BY <3>1, <2>2 DEF IInv, SigsOK, ChainOK, Visible
    <3>3. /\ h + 1 \in 1 .. Len(chain) + 1 /\ (h + 1) - 1 = h
          /\ h \in 1 .. Len(chain) /\ h \in 0 .. Len(chain) /\ h \in Nat
      BY <1>3
    <3>4. PICK l : Reached(store, db, trx, l)
      BY DEF BranchOK
    <3>5. h \in 1 .. Len(l) /\ l[h] = chain[h] /\ Line(store, l)
          /\ Len(l) \in Nat
      BY <2>2, <3>1, <3>2, <3>4 DEF Reached, GoodLine, Line
    <3>6. \A g \in 1 .. h : chain[g] = l[g]
      <4>1. Line(store, chain) /\ h \in 1 .. Len(chain) /\ h <= Len(l)
            /\ chain[h] = l[h] /\ Line(store, l)
        BY <1>3, <3>3, <3>5 DEF GoodLine
      <4> QED  BY <4>1, LinesMeet
    <3>7. GoodLine(store, k) /\ Len(k) = h /\ \A g \in 1 .. h : k[g] = l[g]
      BY <1>3, <3>3, <3>6, LinePrefix
    <3> HIDE DEF k
    <3>8. ASSUME NEW c \in db.blocks
          PROVE  c.height \in 1 .. Len(k) /\ k[c.height] = c.sig
      <4>1. c.height \in 1 .. Len(l) /\ l[c.height] = c.sig /\ c.height <= h
        BY <3>1, <3>2, <3>4 DEF Reached
      <4> QED  BY <3>3, <3>5, <3>7, <4>1
    <3>9. ASSUME NoRateRefused, NEW g \in 1 .. Len(k)
          PROVE  [height |-> g, sig |-> k[g]] \in db.blocks
      <4>1. g \in 1 .. Len(l) /\ k[g] = l[g]
        BY <3>3, <3>5, <3>7
      <4> QED  BY <1>2, <3>4, <3>9, <4>1 DEF Reached
    <3>10. Reached(store, db, trx, k)
      BY <1>2, <3>7, <3>8, <3>9 DEF Reached
    <3> QED  BY <2>2, <3>3, <3>10 DEF k
  <2> QED  BY <2>1, <2>2 DEF Connect
<1>5. /\ Len(stream') = Len(chain) - from + 1
      /\ \A i \in 1 .. Len(chain) - from + 1 :
           /\ from + i - 1 \in DOMAIN chain
           /\ stream'[i] = [kind |-> "block", sig |-> chain[from + i - 1]]
  <2>1. from \in Nat \ {0} /\ from <= Len(chain) + 1 /\ Len(chain) <= Len(chain)
    BY <1>3
  <2> QED  BY <2>1, <1>3, <1>4, BlocksTyped DEF IInv
<1> DEFINE n == Len(chain) - from + 1
           w == [i \in 1 .. n + 1 |-> SubSeq(chain, 1, from + i - 2)]
<1>6. n \in Nat /\ from \in Nat /\ Len(stream') = n /\ (from + (n + 1)) - 2 = Len(chain)
      /\ \A i \in 1 .. n + 1 : from + i - 2 \in 0 .. Len(chain)
  BY <1>3, <1>5
<1>7. /\ DOMAIN w = 1 .. n + 1
      /\ \A i \in 1 .. n + 1 : w[i] = SubSeq(chain, 1, from + i - 2)
  OBVIOUS
<1> HIDE DEF w
<1>8. ASSUME NEW i \in 1 .. n + 1 PROVE GoodLine(store, w[i])
  <2> DEFINE m == from + i - 2
  <2>1. m \in 0 .. Len(chain) /\ w[i] = SubSeq(chain, 1, m)
    BY <1>6, <1>7
  <2> HIDE DEF m
  <2> QED  BY <1>3, <2>1, LinePrefix
<1>9. ASSUME NEW i \in 1 .. n
      PROVE  Leads(store, w[i], stream'[i], w[i + 1])
  <2> DEFINE m == from + i - 2
  <2>1. /\ i \in 1 .. n + 1 /\ i + 1 \in 1 .. n + 1 /\ from + (i + 1) - 2 = m + 1
        /\ m \in Nat /\ m + 1 <= Len(chain) /\ from + i - 1 = m + 1
    BY <1>3, <1>6
  <2>2. w[i] = SubSeq(chain, 1, m) /\ w[i + 1] = SubSeq(chain, 1, m + 1)
    BY <1>7, <2>1
  <2>3. stream'[i] = [kind |-> "block", sig |-> chain[m + 1]]
    BY <1>5, <2>1
  <2> HIDE DEF m
  <2>4. SubSeq(chain, 1, m + 1) = Append(SubSeq(chain, 1, m), chain[m + 1])
    BY <1>3, <2>1
  <2>5. stream'[i].kind = "block" /\ stream'[i].sig = chain[m + 1]
    BY <2>3
  <2> QED  BY <2>2, <2>4, <2>5 DEF Leads
<1>10. w[n + 1] = chain
  <2>1. n + 1 \in 1 .. n + 1
    BY <1>6
  <2> HIDE DEF n
  <2>2. w[n + 1] = SubSeq(chain, 1, Len(chain))
    BY <1>6, <1>7, <2>1
  <2> QED  BY <1>3, <2>2
<1>11. w[1] = SubSeq(chain, 1, from - 1)
  <2>1. 1 \in 1 .. n + 1 /\ from + 1 - 2 = from - 1
    BY <1>6
  <2> QED  BY <1>7, <2>1
<1>12. Way(store', stream', w, chain')
  <2> HIDE DEF n
  <2> QED  BY <1>1, <1>6, <1>7, <1>8, <1>9, <1>10 DEF Way
<1>13. OnWay(store', stream', chain', SubSeq(chain, 1, from - 1))
  BY <1>11, <1>12 DEF OnWay
<1> QED  BY <1>1, <1>3, <1>4, <1>13 DEF BranchOK

(* A block that the node does not know is cut off.                         *)
LEMMA RollbackLastBlockBranch ==
  ASSUME IInv, SoundOK, BranchOK, RollbackLastBlock PROVE BranchOK'
<1>1. /\ mode = "connecting" /\ UNCHANGED <<store, chain, stream, mode, trx>>
      /\ db' = DeleteLastBlock(db)
  BY DEF RollbackLastBlock, node
<1>2. trx.sig = 0
  BY <1>1 DEF IInv, TrxOK, InTrx
<1>3. PICK l : Reached(store, db, trx, l)
  BY DEF BranchOK
<1> DEFINE b == The(LastBlock(db))
<1>4. b \in db.blocks
  <2>1. LastBlock(db) # {}
    BY DEF RollbackLastBlock
  <2> QED  BY <2>1, TheIsElement DEF LastBlock
<1> HIDE DEF b
<1>5. b.height \in 1 .. Len(l) /\ b.height \in Nat /\ db.blocks \subseteq BlockRow
  <2>1. db.blocks \subseteq BlockRow
    BY TablesFields DEF IInv, TypeOK
  <2> QED  BY <1>3, <1>4, <2>1 DEF Reached, BlockRow
<1>6. db' = DeleteFrom(db, b.height)
  BY <1>1, <1>4 DEF DeleteLastBlock, b
<1>7. db'.blocks = {c \in db.blocks : c.height < b.height}
  BY ZenonT(60), <1>5, <1>6, DeleteFromSound DEF SoundOK
<1>8. Reached(store, db', trx, SubSeq(l, 1, b.height - 1))
  BY <1>2, <1>3, <1>5, <1>7, ReachedBelow
<1> QED  BY <1>1, <1>8 DEF BranchOK

(* A rollback cuts the line where the event says.                          *)
LEMMA RollbackToBlockBranch ==
  ASSUME IInv, SoundOK, BranchOK, RollbackToBlockSignature PROVE BranchOK'
<1>1. /\ HeadIs("rollback") /\ stream' = Tail(stream)
      /\ UNCHANGED <<store, chain, mode, trx>>
  BY DEF RollbackToBlockSignature, node
<1>2. PICK b \in db.blocks : /\ b.sig = Head(stream).sig
                             /\ db' = DeleteFrom(db, b.height)
  BY DEF RollbackToBlockSignature
<1>3. /\ mode = "streaming" /\ trx.sig = 0 /\ stream # <<>>
      /\ Head(stream) = stream[1] /\ stream[1].kind = "rollback"
      /\ stream \in Seq(Event)
  <2>1. stream \in Seq(Event)
    BY DEF IInv, TypeOK
  <2> QED  BY <1>1, <2>1 DEF HeadIs, InTrx
<1>4. PICK l : Reached(store, db, trx, l) /\ OnWay(store, stream, chain, l)
  BY <1>3 DEF BranchOK
<1>5. PICK k : /\ OnWay(store, Tail(stream), chain, k)
               /\ Leads(store, l, stream[1], k)
  BY <1>3, <1>4, WayTaken
<1>6. /\ b.height \in 1 .. Len(l) /\ b.height \in Nat
      /\ db.blocks \subseteq BlockRow /\ store[b.sig].height = b.height
  <2>1. db.blocks \subseteq BlockRow
    BY TablesFields DEF IInv, TypeOK
  <2>2. store[b.sig].height = b.height
    BY DEF IInv, SigsOK, Visible
  <2> QED  BY <1>4, <2>1, <2>2 DEF Reached, BlockRow
<1>7. k = SubSeq(l, 1, b.height - 1)
  BY <1>2, <1>3, <1>5, <1>6 DEF Leads
<1>8. db'.blocks = {c \in db.blocks : c.height < b.height}
  BY ZenonT(60), <1>2, <1>6, DeleteFromSound DEF SoundOK
<1>9. Reached(store, db', trx, k)
  BY <1>3, <1>4, <1>6, <1>7, <1>8, ReachedBelow
<1> QED  BY <1>1, <1>5, <1>9 DEF BranchOK

(* The block that the transaction is for becomes the tip.                  *)
LEMMA BeginBlockBranch == ASSUME IInv, BranchOK, BeginBlock PROVE BranchOK'
<1> DEFINE sig == stream[1].sig
<1>1. /\ stream # <<>> /\ stream[1].kind = "block" /\ mode = "streaming"
      /\ stream' = Tail(stream) /\ trx.sig = 0 /\ sig \in Nat \ {0}
      /\ trx'.sig = sig /\ ~trx'.aborted
      /\ UNCHANGED <<store, chain, mode, db>>
  BY BeginFacts DEF InTrx
<1>2. stream \in Seq(Event)
  BY DEF IInv, TypeOK
<1>3. PICK l : Reached(store, db, trx, l) /\ OnWay(store, stream, chain, l)
  BY <1>1 DEF BranchOK
<1>4. PICK k : /\ OnWay(store, Tail(stream), chain, k) /\ GoodLine(store, k)
               /\ Leads(store, l, stream[1], k)
  BY <1>1, <1>2, <1>3, WayTaken
<1>5. k = Append(l, sig) /\ l \in Seq(Nat \ {0}) /\ Len(l) \in Nat
  BY <1>1, <1>3, <1>4 DEF Leads, Reached, GoodLine, Line
<1> HIDE DEF sig
<1>6. /\ Len(k) = Len(l) + 1 /\ k[Len(k)] = sig /\ k # <<>>
      /\ \A h \in 1 .. Len(l) : k[h] = l[h] /\ h \in 1 .. Len(k)
  BY <1>1, <1>5
<1>7. \A b \in db.blocks : b.height \in 1 .. Len(k) /\ k[b.height] = b.sig
  BY <1>3, <1>6 DEF Reached
<1>8. ASSUME NoRateRefused, NEW h \in 1 .. Len(k), h # Len(k)
      PROVE  [height |-> h, sig |-> k[h]] \in db.blocks
  <2>1. h \in 1 .. Len(l) /\ k[h] = l[h]
    BY <1>5, <1>6, <1>8
  <2> QED  BY <1>1, <1>3, <1>8, <2>1 DEF Reached
<1>9. Reached(store', db', trx', k)
  BY <1>1, <1>4, <1>6, <1>7, <1>8 DEF Reached
<1> QED  BY <1>1, <1>4, <1>9 DEF BranchOK

(* No statement fails where every rate is stored.                          *)
LEMMA NoAbort ==
  ASSUME IInv, SentOK, CallsOK, HandleCall, NoRateRefused, ~trx.aborted
  PROVE  ~trx'.aborted
<1>1. \A T, rows : Advance(T, rows) => ~trx'.aborted
  BY AdvanceFields
<1>2. CASE HandlerThrows
  BY <1>2 DEF HandlerThrows, Exit, NoTrx
<1>3. CASE SaveOracle
  <2>1. CallsLeft /\ CurrentReq.type = "oracle"
    BY <1>3 DEF SaveOracle
  <2>2. CurrentReq \in Requests
    BY <2>1, CurrentOffered DEF ServiceTypes
  <2>3. CurrentReq.value # "rejected"
    BY <2>2 DEF NoRateRefused
  <2>4. trx'.aborted = (trx.aborted \/ CurrentReq.value = "rejected")
    BY <1>3 DEF SaveOracle, IInv, TypeOK
  <2> QED  BY <2>3, <2>4
<1> QED  BY <1>1, <1>2, <1>3 DEF HandleCall, SkipCall, ReceiveTypicalTx, Close,
       Transfer, InitClose, ClaimDeclined, ClaimPaid, Liquidate

(* Handlers stay within their block.                                       *)
LEMMA HandleCallBranch ==
  ASSUME IInv, SentOK, CallsOK, BranchOK, HandleCall, LogsCall PROVE BranchOK'
<1>1. UNCHANGED <<store, chain, stream, mode, db>> /\ trx'.sig = trx.sig
  BY DEF LogsCall
<1>2. PICK l : /\ Reached(store, db, trx, l)
               /\ mode = "streaming" => OnWay(store, stream, chain, l)
  BY DEF BranchOK
<1>3. NoRateRefused => ~trx'.aborted
  BY <1>2, NoAbort DEF Reached
<1>4. Reached(store', db', trx', l)
  BY <1>1, <1>2, <1>3 DEF Reached
<1> QED  BY <1>1, <1>2, <1>4 DEF BranchOK

(* What is committed is the tip, or nothing.                               *)
LEMMA CommitBranch == ASSUME IInv, TrxAbove, BranchOK, Commit PROVE BranchOK'
<1>1. /\ InTrx /\ UNCHANGED <<store, chain, stream, mode>>
      /\ db' = IF trx.aborted THEN db ELSE trx.tables
      /\ trx' = NoTrx /\ NoTrx.sig = 0 /\ ~NoTrx.aborted
  BY DEF Commit, node, NoTrx
<1>2. PICK l : /\ Reached(store, db, trx, l)
               /\ mode = "streaming" => OnWay(store, stream, chain, l)
  BY DEF BranchOK
<1>3. GoodLine(store, l) /\ l \in Seq(Nat \ {0}) /\ l # <<>>
      /\ l[Len(l)] = trx.sig
  BY <1>1, <1>2 DEF Reached, GoodLine, Line, InTrx
<1>4. Len(l) \in 1 .. Len(l) /\ Height = Len(l)
  BY <1>3 DEF Height, GoodLine, Line
<1>5. trx.tables.blocks = db.blocks \cup {[height |-> Len(l), sig |-> l[Len(l)]]}
  BY <1>1, <1>3, <1>4 DEF TrxAbove
<1>6. \A b \in db'.blocks : b.height \in 1 .. Len(l) /\ l[b.height] = b.sig
  BY <1>1, <1>2, <1>4, <1>5 DEF Reached
<1>7. ASSUME NoRateRefused, NEW h \in 1 .. Len(l)
      PROVE  [height |-> h, sig |-> l[h]] \in db'.blocks
  BY <1>1, <1>2, <1>5, <1>7 DEF Reached
<1>8. Reached(store', db', trx', l)
  BY <1>1, <1>3, <1>6, <1>7 DEF Reached
<1> QED  BY <1>1, <1>2, <1>8 DEF BranchOK

(* Nothing is lost and nothing comes in between, whoever moves.            *)
LEMMA BranchOKNext ==
  ASSUME JournalInv, BranchOK, [Next]_vars PROVE BranchOK'
<1>1. IInv /\ SentOK /\ CallsOK /\ SoundOK /\ TrxAbove
  BY DEF JournalInv
<1>2. CASE Start \/ UNCHANGED vars
  BY <1>2 DEF Start, node, vars, BranchOK
<1>3. CASE ExitNoContract \/ RollbackThrows \/ Crash
  BY <1>1, <1>3, LeavesBranch DEF ExitNoContract, RollbackThrows, Crash, node,
     Leaves
<1>4. CASE HandleCall
  <2>1. CASE HandlerThrows
    BY <1>1, <2>1, LeavesBranch DEF HandlerThrows, node, Leaves
  <2> QED  BY <1>1, <1>4, <2>1, HandlerLogs, HandleCallBranch
<1> QED  BY <1>1, <1>2, <1>3, <1>4, MineBranch, ForkBranch, ConnectBranch,
            RollbackLastBlockBranch, RollbackToBlockBranch, BeginBlockBranch,
            CommitBranch DEF Next, Listen

-----------------------------------------------------------------------------
(* No id comes twice.                                                      *)

Keyed(t) == /\ \A x \in t.txs : RowShape(x)
            /\ \A p, q \in t.txs : SameKey(p, q) => p = q

KeysInv == Keyed(db) /\ Keyed(trx.tables)

(* The entries of a call are filed under its id.                           *)
LEMMA EntriesOrigin == \A r, h : \A e \in Entries(r, h) : e[1] = r.id
<1> SUFFICES ASSUME NEW r, NEW h, NEW e \in Entries(r, h) PROVE e[1] = r.id
  OBVIOUS
<1>1. CASE r.type \in VaultTypes \cup {"close", "liquidate"}
  BY <1>1 DEF Entries
<1>2. CASE r.type = "transfer"
  BY <1>2 DEF Entries, VaultTypes
<1>3. CASE r.type \in {"close_init", "claim_overpay_init"}
  BY <1>3 DEF Entries, VaultTypes
<1> QED  BY <1>1, <1>2, <1>3 DEF Entries

(* Every entry at hand is of a call before the current one on the line.    *)
LEMMA OriginIsEarlier ==
  ASSUME JournalInv, BranchOK, CallsLeft, ~trx.aborted, NEW y \in trx.tables.txs
  PROVE  Origin(y) # CurrentReq.id
<1> DEFINE C == CallsIn(store, db.blocks) \cup Done(store, trx)
<1>1. PICK l : Reached(store, db, trx, l)
  BY DEF BranchOK
<1>2. /\ InTrx /\ trx.sig \in DOMAIN store /\ trx.next \in Nat \ {0}
      /\ trx.next \in DOMAIN store[trx.sig].calls
  <2>1. InTrx /\ trx.sig \in DOMAIN store /\ trx.next \in Nat \ {0}
        /\ trx.next <= Len(store[trx.sig].calls) /\ store \in Seq(Block)
    BY DEF CallsLeft, JournalInv, IInv, TypeOK, TrxOK
  <2>2. store[trx.sig] \in Block
    BY <2>1
  <2>3. store[trx.sig].calls \in Seq(Call)
    BY <2>2 DEF Block
  <2> QED  BY <2>1, <2>3
<1>3. PICK c \in C : KeyOf(y) \in Entries(c[1], c[2])
  <2>1. KeyOf(y) \in Owed(C)
    BY <1>2 DEF JournalInv, MatchInv, Matches, Keys
  <2> HIDE DEF C
  <2> QED  BY <2>1 DEF Owed
<1>4. Origin(y) = c[1].id
  <2>1. KeyOf(y)[1] = Origin(y)
    BY DEF KeyOf
  <2> QED  BY <1>3, <2>1, EntriesOrigin
<1>5. CurrentReq = store[trx.sig].calls[trx.next].req
  BY DEF CurrentReq, Current
<1>6. CASE c \in CallsIn(store, db.blocks)
  <2>1. PICK b \in db.blocks : \E i \in DOMAIN store[b.sig].calls :
          c = <<store[b.sig].calls[i].req, b.height>>
    BY <1>6 DEF CallsIn
  <2> PICK i \in DOMAIN store[b.sig].calls :
        c = <<store[b.sig].calls[i].req, b.height>>
    BY <2>1
  <2>2. /\ b.height \in 1 .. Len(l) /\ l[b.height] = b.sig
        /\ GoodLine(store, l) /\ l # <<>> /\ l[Len(l)] = trx.sig
    BY <1>1, <1>2 DEF Reached, InTrx
  <2>3. Len(l) \in 1 .. Len(l) /\ Height = Len(l)
    BY <2>2 DEF Height, GoodLine, Line
  <2>4. b.height # Len(l)
    BY <1>2, <2>2, <2>3 DEF JournalInv, TrxAbove, HeightsBelow
  <2>5. store[b.sig].calls[i].req.id # store[trx.sig].calls[trx.next].req.id
    <3>1. /\ i \in DOMAIN store[l[b.height]].calls
          /\ trx.next \in DOMAIN store[l[Len(l)]].calls
      BY <1>2, <2>2
    <3>2. IdsDiffer(store, l)
      BY <2>2 DEF GoodLine
    <3>3. store[l[b.height]].calls[i].req.id
            # store[l[Len(l)]].calls[trx.next].req.id
      BY <2>2, <2>3, <2>4, <3>1, <3>2 DEF IdsDiffer
    <3> QED  BY <2>2, <3>3
  <2> QED  BY <1>4, <1>5, <2>5
<1>7. CASE c \in Done(store, trx)
  <2>1. PICK i \in DOMAIN store[trx.sig].calls :
          i < trx.next /\ c = <<store[trx.sig].calls[i].req, store[trx.sig].height>>
    BY <1>7 DEF Done
  <2>2. i # trx.next
    BY <1>2, <2>1
  <2>3. CallsFrom(store[trx.sig].calls, Requests \cup sent)
    BY <1>2 DEF JournalInv, CallsOK
  <2> QED  BY <1>2, <1>4, <1>5, <2>1, <2>2, <2>3 DEF CallsFrom
<1> QED  BY <1>3, <1>6, <1>7

(* Two entries of different calls are told apart by every key.             *)
LEMMA OriginsTellApart ==
  ASSUME NEW x, NEW y, RowShape(x), RowShape(y), Origin(x) # Origin(y),
         x.status = "init" => x.tx # y.tx \/ x.status # y.status, x.id # y.id,
         x.status \in {"init", "executed", "declined"}
  PROVE  ~SameKey(x, y) /\ ~SameKey(y, x)
BY DEF RowShape, Origin, SameKey

(* What a handler inserts clashes with nothing.                            *)
LEMMA LogsCallKeyed ==
  ASSUME JournalInv, BranchOK, KeysInv, [Next]_vars, LogsCall
  PROVE  Keyed(trx.tables)'
<1>1. CASE trx'.tables = trx.tables
  BY <1>1 DEF KeysInv, Keyed
<1>2. CASE ~trx.aborted /\ trx'.tables # trx.tables
  <2> DEFINE t == trx.tables
             r == CurrentReq
             h == Height
  <2>1. /\ CallsLeft /\ IInv /\ SentOK /\ CallsOK /\ SoundOK /\ SentInv
        /\ SoundOK'
    BY SoundOKNext DEF LogsCall, JournalInv
  <2>2. PICK tx, status :
          /\ Logs(t, db, Current, h, tx, status, trx'.tables)
          /\ r.type \in Inits =>
               \/ status = "declined" /\ tx = r.id
               \/ status = "init" /\ tx = AnswerId(r)
    BY <1>2 DEF LogsCall
  <2>3. Handled(t, Current, h) /\ db \in Tables
    BY <2>1, CurrentHandled DEF SoundOK
  <2>4. PICK N : trx'.tables.txs = t.txs \cup N /\ RowsOf(N, r, h, tx, status)
    BY <2>2, <2>3, LogsEffect DEF CurrentReq
  <2>5. \A x \in N : RowShape(x) /\ Origin(x) = r.id
    BY <2>4 DEF RowsOf
  <2>6. Keyed(t)
    BY DEF KeysInv
  <2>7. /\ \A p \in trx'.tables.txs : p \in TxRow
        /\ \A p, q \in trx'.tables.txs : p.id = q.id => p = q
    BY <2>1 DEF SoundOK, Sound, IdsUnique, Good, Tables
  <2>8. ASSUME NEW x \in N, x \notin t.txs, NEW y \in t.txs
        PROVE  ~SameKey(x, y) /\ ~SameKey(y, x)
    <3>1. Origin(y) # Origin(x)
      BY <1>2, <2>1, <2>5, OriginIsEarlier
    <3>2. RowShape(x) /\ RowShape(y)
      BY <2>5, <2>6 DEF Keyed
    <3>3. x.id # y.id
      BY <2>4, <2>7, <2>8
    <3>4. x.status \in {"init", "executed", "declined"}
      BY <2>4, <2>7 DEF TxRow
    <3>5. ASSUME x.status = "init", y.status = "init" PROVE x.tx # y.tx
      <4>1. r.type \in Inits /\ x.tx = tx /\ status = "init"
        BY <2>4, <3>5 DEF RowsOf, Inits
      <4>2. x.tx = AnswerId(r)
        BY <2>2, <4>1
      <4>3. PICK s \in sent : s.id = y.tx
        BY <2>1, <3>5 DEF SentInv, RowsSent
      <4>4. r \in Requests
        BY <2>1, <4>1, CurrentOffered DEF Inits, ServiceTypes
      <4> QED  BY <2>1, <4>2, <4>3, <4>4, AnswerIdFresh
    <3> HIDE DEF r, t, h
    <3> QED  BY <3>1, <3>2, <3>3, <3>4, <3>5, OriginsTellApart
  <2>9. \A x, y \in N : SameKey(x, y) => x = y
    BY <2>4 DEF RowsOf
  <2> HIDE DEF t, r, h
  <2>10. \A p, q \in trx'.tables.txs : SameKey(p, q) => p = q
    BY <2>4, <2>6, <2>8, <2>9 DEF Keyed
  <2>11. \A x \in trx'.tables.txs : RowShape(x)
    BY <2>4, <2>5, <2>6 DEF Keyed
  <2> QED  BY <2>10, <2>11 DEF Keyed
<1> QED  BY <1>1, <1>2 DEF LogsCall

LEMMA KeysInvNext ==
  ASSUME JournalInv, BranchOK, KeysInv, [Next]_vars PROVE KeysInv'
<1>1. IInv /\ SentOK /\ CallsOK /\ SoundOK
  BY DEF JournalInv
<1>2. CASE Quiet
  BY <1>2 DEF Quiet, KeysInv, Keyed
<1>3. Keyed(EmptyTables)
  BY DEF Keyed, EmptyTables
<1>4. CASE Leaves
  <2>1. db' = db /\ trx'.tables = EmptyTables
    BY <1>4 DEF Leaves, Exit, NoTrx
  <2> QED  BY <1>3, <2>1 DEF KeysInv, Keyed
<1>5. CASE Deletes
  <2>1. PICK h \in Nat : db' = DeleteFrom(db, h)
    BY <1>5 DEF Deletes
  <2>2. db'.txs \subseteq db.txs
    BY <1>1, <2>1, DeleteFromSound DEF SoundOK
  <2>3. trx' = trx
    BY <1>5 DEF Deletes
  <2> QED  BY <2>2, <2>3 DEF KeysInv, Keyed
<1>6. CASE BeginBlock
  <2>1. db' = db /\ trx'.tables.txs = db.txs
    <3>1. \E h, s : trx'.tables = SaveBlock(db, h, s) /\ db' = db
      BY <1>1, <1>6, BeginFacts
    <3> QED  BY <3>1 DEF SaveBlock, IInv, TypeOK, Tables
  <2> QED  BY <2>1 DEF KeysInv, Keyed
<1>7. CASE LogsCall
  <2>1. db' = db
    BY <1>7 DEF LogsCall
  <2> QED  BY <1>7, <2>1, LogsCallKeyed DEF KeysInv
<1>8. CASE Commit
  <2>1. /\ db' = IF trx.aborted THEN db ELSE trx.tables
        /\ trx'.tables = EmptyTables
    BY <1>8 DEF Commit, NoTrx
  <2> QED  BY <1>3, <2>1 DEF KeysInv, Keyed
<1> QED  BY <1>1, <1>2, <1>4, <1>5, <1>6, <1>7, <1>8, Shapes

-----------------------------------------------------------------------------
(* The inductive invariant of the branch, and what follows from it.        *)

BranchInv == JournalInv /\ BranchOK /\ KeysInv

LEMMA BranchInvInit == Init => BranchInv
<1> SUFFICES ASSUME Init PROVE BranchInv
  OBVIOUS
<1>1. JournalInv
  BY JournalInvInit
<1>2. /\ store = <<>> /\ chain = <<>> /\ mode = "down"
      /\ db = EmptyTables /\ trx = NoTrx
  BY DEF Init
<1>3. NoTrx.sig = 0 /\ ~NoTrx.aborted /\ NoTrx.tables = EmptyTables
      /\ EmptyTables.blocks = {} /\ EmptyTables.txs = {}
  BY DEF NoTrx, EmptyTables
<1>4. Reached(store, db, trx, <<>>)
  BY <1>2, <1>3, EmptyLine DEF Reached
<1>5. BranchOK
  BY <1>2, <1>4, EmptyLine DEF BranchOK
<1>6. KeysInv
  BY <1>2, <1>3 DEF KeysInv, Keyed
<1> QED  BY <1>1, <1>5, <1>6 DEF BranchInv

LEMMA BranchInvNext == BranchInv /\ [Next]_vars => BranchInv'
BY JournalInvNext, BranchOKNext, KeysInvNext DEF BranchInv

(* The listener is on one branch in every reachable state.                 *)
THEOREM BranchInvariance == Spec => []BranchInv
BY BranchInvInit, BranchInvNext, PTL DEF Spec

(* On one line, a height has one block and a block one height.             *)
LEMMA BlockKeys ==
  ASSUME BranchInv, NEW t \in Visible, NEW p \in t.blocks, NEW q \in t.blocks,
         p.height = q.height \/ p.sig = q.sig
  PROVE  p = q
<1>1. PICK l : Reached(store, db, trx, l)
  BY DEF BranchInv, BranchOK
<1>2. p.height = store[p.sig].height /\ q.height = store[q.sig].height
  BY DEF BranchInv, JournalInv, IInv, SigsOK
<1>3. p.height = q.height
  BY <1>2
<1>4. p \in BlockRow /\ q \in BlockRow
  BY TablesFields DEF BranchInv, JournalInv, IInv, TypeOK, Visible
<1>5. \A b \in db.blocks : l[b.height] = b.sig
  BY <1>1 DEF Reached
<1>6. CASE t = db
  <2>1. p.sig = q.sig
    BY <1>3, <1>5, <1>6
  <2> QED  BY <1>3, <1>4, <2>1 DEF BlockRow
<1>7. CASE t = trx.tables /\ InTrx
  <2>1. /\ t.blocks = db.blocks \cup {[height |-> Height, sig |-> trx.sig]}
        /\ l[Len(l)] = trx.sig /\ Len(l) \in 1 .. Len(l) /\ Line(store, l)
    BY <1>1, <1>7 DEF BranchInv, JournalInv, TrxAbove, Reached, GoodLine, Line,
       InTrx
  <2>2. Height = Len(l)
    BY <2>1 DEF Line, Height
  <2>3. l[p.height] = p.sig /\ l[q.height] = q.sig
    BY <1>5, <2>1, <2>2
  <2> QED  BY <1>3, <1>4, <2>3 DEF BlockRow
<1>8. CASE t = trx.tables /\ ~InTrx
  BY <1>8 DEF BranchInv, JournalInv, IInv, TrxOK, NoTrx, EmptyTables
<1> QED  BY <1>6, <1>7, <1>8 DEF Visible

(* No INSERT of a handler that goes on is refused by a primary key or a    *)
(* UNIQUE of the migration, whatever is replayed after a crash, a rollback *)
(* or a restart, and however often a request is answered.                  *)
THEOREM KeysAlwaysHold == Spec => []KeysHold
<1>1. BranchInv => KeysHold
  <2> SUFFICES ASSUME BranchInv, NEW t \in Visible
               PROVE  /\ \A p, q \in t.txs : SameKey(p, q) => p = q
                      /\ \A p, q \in t.vaults : p.id = q.id => p = q
                      /\ \A p, q \in t.balances : p.id = q.id => p = q
                      /\ \A p, q \in t.blocks :
                           p.height = q.height \/ p.sig = q.sig => p = q
    BY DEF KeysHold
  <2>1. Keyed(t) /\ IdsUnique(t)
    BY DEF BranchInv, KeysInv, JournalInv, SoundOK, Sound, Visible
  <2> QED  BY <2>1, BlockKeys DEF Keyed, IdsUnique
<1> QED  BY <1>1, BranchInvariance, PTL

(* With no rate that PostgreSQL refuses, the stored blocks have no gap and *)
(* each was mined on the one below it, whatever the order of deliveries,   *)
(* rollbacks, crashes and restarts.  (A refused rate loses its block.)     *)
THEOREM StoredBranch ==
  ASSUME NoRateRefused PROVE Spec => []StoredIsABranch
<1>1. BranchInv => StoredIsABranch
  <2> SUFFICES ASSUME BranchInv, NEW b \in db.blocks
               PROVE  /\ store[b.sig].height = b.height
                      /\ IF b.height = 1 THEN store[b.sig].parent = 0
                         ELSE \E p \in db.blocks :
                                /\ p.height = b.height - 1
                                /\ p.sig = store[b.sig].parent
    BY DEF StoredIsABranch
  <2>1. PICK l : Reached(store, db, trx, l)
    BY DEF BranchInv, BranchOK
  <2>2. /\ b.height \in 1 .. Len(l) /\ l[b.height] = b.sig /\ Line(store, l)
        /\ Len(l) \in Nat
    BY <2>1 DEF Reached, GoodLine, Line
  <2>3. /\ store[b.sig].height = b.height
        /\ store[b.sig].parent = IF b.height = 1 THEN 0 ELSE l[b.height - 1]
    BY <2>2 DEF Line
  <2>4. ASSUME b.height # 1
        PROVE  [height |-> b.height - 1, sig |-> l[b.height - 1]] \in db.blocks
    <3>1. b.height - 1 \in 1 .. Len(l) /\ b.height - 1 # Len(l)
      BY <2>2, <2>4
    <3> QED  BY <2>1, <3>1 DEF Reached
  <2> QED  BY <2>3, <2>4
<1> QED  BY <1>1, BranchInvariance, PTL

(* With no rate that PostgreSQL refuses, a listener that has taken every   *)
(* event holds the node's chain: no block that receiveTxs has accepted is  *)
(* missing and none is left of a branch undone.                            *)
THEOREM IdleInSync == ASSUME NoRateRefused PROVE Spec => []InSync
<1>1. BranchInv => InSync
  <2> SUFFICES ASSUME BranchInv, Idle
               PROVE  db.blocks = {[height |-> h, sig |-> chain[h]] :
                                     h \in DOMAIN chain}
    BY DEF InSync
  <2>1. PICK l : Reached(store, db, trx, l) /\ OnWay(store, stream, chain, l)
    BY DEF BranchInv, BranchOK, Idle
  <2>2. l = chain
    <3>1. PICK w : Way(store, stream, w, chain) /\ w[1] = l
      BY <2>1 DEF OnWay
    <3>2. Len(stream) + 1 = 1
      BY DEF Idle
    <3> QED  BY <3>1, <3>2 DEF Way
  <2>3. DOMAIN chain = 1 .. Len(chain) /\ db.blocks \subseteq BlockRow
    BY TablesFields DEF BranchInv, JournalInv, IInv, TypeOK
  <2>4. \A h \in 1 .. Len(chain) :
          [height |-> h, sig |-> chain[h]] \in db.blocks
    BY <2>1, <2>2 DEF Reached, Idle, InTrx
  <2>5. ASSUME NEW b \in db.blocks
        PROVE  \E h \in DOMAIN chain : b = [height |-> h, sig |-> chain[h]]
    <3>1. b.height \in DOMAIN chain /\ chain[b.height] = b.sig
      BY <2>1, <2>2, <2>3 DEF Reached
    <3>2. b = [height |-> b.height, sig |-> b.sig]
      BY <2>3 DEF BlockRow
    <3> QED  BY <3>1, <3>2
  <2> QED  BY <2>3, <2>4, <2>5
<1> QED  BY <1>1, BranchInvariance, PTL

-----------------------------------------------------------------------------
(* The contract.                                                           *)

\* The state in which call i of block sig is run.
StateAt(st, sig, i) ==
    IF i > 1 THEN st[sig].calls[i - 1].after
    ELSE IF st[sig].parent = 0 THEN GenesisState
                               ELSE Final(st[st[sig].parent])

Executed(s, c) == /\ s \in State /\ c \in Call
                  /\ c.after = After(s, c.req)
                  /\ Accepts(s, c.req, InitNeedsVault)

Shows(t, s) == \A a \in Addr : /\ VaultView(t, a) = s.vaults[a]
                               /\ EastOf(CurrentBalance(t, a)) = s.balances[a]

(* The keys that a call leaves alone.                                      *)
LEMMA KeysKept ==
  ASSUME NEW s, NEW c, Executed(s, c), NEW a \in Addr
  PROVE  /\ \/ a # c.req.address
            \/ c.req.type \notin VaultTypes \cup {"close", "liquidate"}
            => c.after.vaults[a] = s.vaults[a]
         /\ \/ c.req.type \notin {"mint", "reissue", "close", "transfer"}
            \/ a # c.req.address /\ (c.req.type = "transfer" => a # c.req.sender)
            => c.after.balances[a] = s.balances[a]
<1> DEFINE r == c.req
<1>1. /\ c.after.vaults[a] = IF a = r.address THEN VaultAfter(s.vaults[a], r)
                                              ELSE s.vaults[a]
      /\ c.after.balances[a] = BalanceAfter(s, r, a)
  BY DEF Executed, After
<1> HIDE DEF r
<1>2. r.type \notin VaultTypes \cup {"close", "liquidate"}
        => VaultAfter(s.vaults[a], r) = s.vaults[a]
  BY DEF VaultAfter, VaultTypes
<1>3. r.type \notin {"mint", "reissue", "close", "transfer"}
        => BalanceAfter(s, r, a) = s.balances[a]
  BY DEF BalanceAfter
<1>4. a # r.address /\ (r.type = "transfer" => a # r.sender)
        => BalanceAfter(s, r, a) = s.balances[a]
  BY DEF BalanceAfter
<1> QED  BY <1>1, <1>2, <1>3, <1>4 DEF r

(* What is filed of a vault is what the contract holds: the calls that     *)
(* change a vault need it to be active, or make it so.                     *)
LEMMA FiledIsHeld ==
  ASSUME NEW s, NEW c, Executed(s, c),
         c.req.type \in VaultTypes \cup {"close", "liquidate"}
  PROVE  FiledVault(c) = c.after.vaults[c.req.address]
<1> DEFINE r == c.req
           a == c.req.address
           v == s.vaults[a]
           w == c.after.vaults[a]
<1>1. r \in Request /\ a \in Addr /\ r.west \in Nat /\ r.rwa \in Nat
      /\ r.east \in Nat /\ v \in Vault /\ w \in Vault
  <2>1. r \in Request /\ a \in Addr /\ c.after \in State /\ s \in State
    BY DEF Executed, Call, Request
  <2> QED  BY <2>1 DEF State, Request
<1>2. w = VaultAfter(v, r)
  BY <1>1 DEF Executed, After
<1>3. r.type \in {"supply", "reissue", "claim_overpay"} => v.active = TRUE
  <2>1. v.active \in BOOLEAN
    BY <1>1 DEF Vault
  <2> QED  BY <2>1 DEF Executed, Accepts
<1> HIDE DEF v, w
<1>4. CASE r.type \in VaultTypes
  <2>1. w.active = TRUE
    <3>1. CASE r.type = "mint"
      BY <1>2, <3>1 DEF VaultAfter
    <3>2. CASE r.type = "supply"
      BY <1>1, <1>2, <1>3, <3>2 DEF VaultAfter, Vault
    <3>3. CASE r.type = "reissue"
      BY <1>1, <1>2, <1>3, <3>3 DEF VaultAfter, Vault
    <3>4. CASE r.type = "claim_overpay"
      BY <1>1, <1>2, <1>3, <3>4 DEF VaultAfter, Vault
    <3> QED  BY <1>4, <3>1, <3>2, <3>3, <3>4 DEF VaultTypes
  <2>2. FiledVault(c) = [w EXCEPT !.active = TRUE]
    BY <1>4 DEF FiledVault, VaultTypes, w
  <2>3. [w EXCEPT !.active = TRUE] = w
    BY <1>1, <2>1 DEF Vault
  <2>4. FiledVault(c) = w
    BY <2>2, <2>3
  <2> QED  BY <2>4 DEF w
<1>5. CASE r.type = "close"
  BY <1>2, <1>5 DEF FiledVault, VaultAfter, w
<1>6. CASE r.type = "liquidate"
  <2>1. w = [west |-> r.west, rwa |-> r.rwa, east |-> r.east, active |-> FALSE]
    BY <1>2, <1>6 DEF VaultAfter
  <2>2. FiledVault(c) = Deactivated([w EXCEPT !.active = TRUE])
    BY <1>6 DEF FiledVault, LiquidatedVault, w
  <2>3. [[w EXCEPT !.active = TRUE] EXCEPT !.active = FALSE] = w
    <3>1. w.active = FALSE /\ w \in Vault
      BY <1>1, <2>1
    <3>2. [w EXCEPT !.active = TRUE] \in Vault
      BY <3>1 DEF Vault
    <3> QED  BY <3>1, <3>2 DEF Vault
  <2>4. FiledVault(c) = w
    BY <2>2, <2>3 DEF Deactivated
  <2> QED  BY <2>4 DEF w
<1> QED  BY <1>4, <1>5, <1>6

-----------------------------------------------------------------------------
(* The last entries.                                                       *)

(* The entry with the highest id is the last one.                          *)
LEMMA NewestRow ==
  ASSUME NEW S, NEW row, row.id \in Nat,
         \A q \in S : q.id \in Nat /\ q.id < row.id
  PROVE  LastById(S \cup {row}) = {row} /\ The({row}) = row
BY DEF LastById, The

(* One more entry of vault_log is what is shown for its address.           *)
LEMMA VaultShown ==
  ASSUME NEW t, NEW u, NEW row, u.vaults = t.vaults \cup {row}, row.id \in Nat,
         \A q \in t.vaults : q.id \in Nat /\ q.id < row.id
  PROVE  /\ VaultView(u, row.address) = row.vault
         /\ \A a : a # row.address => VaultView(u, a) = VaultView(t, a)
<1> DEFINE of(x, a) == {r \in x.vaults : r.address = a}
<1>1. of(u, row.address) = of(t, row.address) \cup {row}
  OBVIOUS
<1>2. \A q \in of(t, row.address) : q.id \in Nat /\ q.id < row.id
  OBVIOUS
<1>3. \A a : a # row.address => of(u, a) = of(t, a)
  OBVIOUS
<1>4. \A x, a : CurrentVault(x, a) = LastById(of(x, a))
  BY DEF CurrentVault
<1> HIDE DEF of
<1>5. CurrentVault(u, row.address) = {row} /\ The({row}) = row
  BY <1>1, <1>2, <1>4, NewestRow
<1>6. \A a : a # row.address => CurrentVault(u, a) = CurrentVault(t, a)
  BY <1>3, <1>4
<1> QED  BY <1>5, <1>6 DEF VaultView

(* The same of balance_log.                                                *)
LEMMA BalanceShown ==
  ASSUME NEW t, NEW u, NEW row, u.balances = t.balances \cup {row},
         row.id \in Nat, \A q \in t.balances : q.id \in Nat /\ q.id < row.id
  PROVE  /\ EastOf(CurrentBalance(u, row.address)) = row.east
         /\ \A a : a # row.address =>
              CurrentBalance(u, a) = CurrentBalance(t, a)
<1> DEFINE of(x, a) == {r \in x.balances : r.address = a}
<1>1. of(u, row.address) = of(t, row.address) \cup {row}
  OBVIOUS
<1>2. \A q \in of(t, row.address) : q.id \in Nat /\ q.id < row.id
  OBVIOUS
<1>3. \A a : a # row.address => of(u, a) = of(t, a)
  OBVIOUS
<1>4. \A x, a : CurrentBalance(x, a) = LastById(of(x, a))
  BY DEF CurrentBalance
<1> HIDE DEF of
<1>5. CurrentBalance(u, row.address) = {row} /\ The({row}) = row
  BY <1>1, <1>2, <1>4, NewestRow
<1>6. \A a : a # row.address => CurrentBalance(u, a) = CurrentBalance(t, a)
  BY <1>3, <1>4
<1> QED  BY <1>5, <1>6 DEF EastOf

(* Only the journals are shown.                                            *)
LEMMA SameShown ==
  ASSUME NEW t, NEW u, u.vaults = t.vaults, u.balances = t.balances
  PROVE  /\ \A s : Shows(u, s) <=> Shows(t, s)
         /\ View(u) = View(t)
<1>1. \A a : /\ CurrentVault(u, a) = CurrentVault(t, a)
             /\ CurrentBalance(u, a) = CurrentBalance(t, a)
  BY DEF CurrentVault, CurrentBalance
<1>2. \A a : VaultView(u, a) = VaultView(t, a)
  BY <1>1 DEF VaultView
<1> QED  BY <1>1, <1>2 DEF Shows, View

-----------------------------------------------------------------------------
(* A handler brings the tables from one state of the contract to the next. *)

(* What is new in T is of height h and has ids that t has not drawn.       *)
Newer(t, T, h) ==
    /\ t.seq \in Nat /\ T.seq \in Nat /\ t.seq <= T.seq
    /\ t.txs \subseteq T.txs
    /\ \A x \in T.txs : x \in t.txs \/ x.height = h
    /\ t.vaults \subseteq T.vaults
    /\ \A v \in T.vaults : v \in t.vaults \/ (v.id \in Nat /\ v.id > t.seq)
    /\ t.balances \subseteq T.balances
    /\ \A b \in T.balances : b \in t.balances \/ (b.id \in Nat /\ b.id > t.seq)

LEMMA NewerComposes ==
  ASSUME NEW t, NEW u, NEW T, NEW h, Newer(t, u, h), Newer(u, T, h)
  PROVE  Newer(t, T, h)
BY DEF Newer

(* Calls that file a vault.                                                *)
LEMMA VaultCallShown ==
  ASSUME NEW t, NEW c, NEW h, Handled(t, c, h), NEW committed \in Tables,
         NEW s, Executed(s, c), Shows(t, s),
         NEW T, LogsVault(t, committed, c, h, T)
  PROVE  Shows(T, c.after) /\ Newer(t, T, h)
<1> DEFINE r == c.req
           a == r.address
           row == ExecutedRow(t, r, a, h)
           u == WithVault(t, c, h)
           east == c.after.balances[a]
<1>1. /\ r.type \in VaultTypes \cup {"close", "liquidate"}
      /\ r.type # "mint" => CurrentVault(t, a) # {}
      /\ T = IF r.type \in {"mint", "reissue", "close"}
               THEN AddBalance(u, committed, NextId(t), a, east) ELSE u
  BY DEF LogsVault
<1>2. /\ r \in Request /\ a \in Addr /\ c.after \in State /\ Sound(t)
      /\ east \in Nat
  <2>1. r \in Request /\ c.after \in State /\ Sound(t)
    BY DEF Handled, Call
  <2> QED  BY <2>1 DEF Request, State
<1>3. /\ Sound(u) /\ u.txs = t.txs \cup {row} /\ u.balances = t.balances
      /\ \E d \in [west : Int, rwa : Int, east : Int], i \in Id :
           u.vaults = t.vaults \cup
             {[id |-> row.id, address |-> a, vault |-> FiledVault(c),
               vaultId |-> i, diff |-> d]}
  BY <1>1, WithVaultSound
<1>4. row.id = t.seq + 1 /\ row.height = h
  <2>1. r.type \in JournalTypes
    BY <1>1 DEF JournalTypes
  <2> QED  BY <2>1, <1>2, ExecutedRowNewest DEF NextId
<1>5. /\ t.seq \in Nat /\ row.id \in Nat /\ row.id > t.seq
      /\ \A x \in t.txs \cup t.vaults \cup t.balances :
           x.id \in Nat /\ x.id <= t.seq /\ x.id < row.id
  <2>1. t.seq \in Nat /\ \A x \in t.txs \cup t.vaults \cup t.balances :
                           x.id \in Nat /\ x.id <= t.seq
    BY <1>2, IdsBelow DEF Sound
  <2> QED  BY <2>1, <1>4
<1> HIDE DEF u, row
<1>6. PICK v : /\ v.id = row.id /\ v.address = a
               /\ v.vault = c.after.vaults[a]
               /\ u.vaults = t.vaults \cup {v}
  BY <1>1, <1>3, FiledIsHeld
<1>7. /\ VaultView(u, a) = c.after.vaults[a]
      /\ \A b : b # a => VaultView(u, b) = VaultView(t, b)
  <2>1. v.id \in Nat /\ \A q \in t.vaults : q.id \in Nat /\ q.id < v.id
    BY <1>5, <1>6
  <2>2. u.vaults = t.vaults \cup {v}
    BY <1>6
  <2>3. /\ VaultView(u, v.address) = v.vault
        /\ \A b : b # v.address => VaultView(u, b) = VaultView(t, b)
    <3> HIDE DEF a, east, r
    <3> QED  BY <2>1, <2>2, VaultShown
  <2> QED  BY <1>6, <2>3
<1>8. \A b \in Addr : VaultView(u, b) = c.after.vaults[b]
  BY <1>7, KeysKept DEF Shows
<1>9. u.seq \in Nat /\ row.id <= u.seq
  BY <1>3, IdsBelow DEF Sound
<1>10. Newer(t, u, h)
  BY <1>3, <1>4, <1>5, <1>6, <1>9 DEF Newer
<1>11. CASE r.type \in {"mint", "reissue", "close"}
  <2>1. T = AddBalance(u, committed, row.id, a, east)
    BY <1>1, <1>4, <1>11 DEF NextId
  <2>2. row \in u.txs /\ \A b \in u.balances : b.id # row.id
    BY <1>3, <1>5
  <2>3. /\ T.txs = u.txs /\ T.vaults = u.vaults /\ T.seq = u.seq
        /\ \E d \in Int : T.balances = u.balances \cup
             {[id |-> row.id, address |-> a, east |-> east, diff |-> d]}
    <3>1. LET w == AddBalance(u, committed, row.id, a, east)
          IN  /\ w.txs = u.txs /\ w.vaults = u.vaults /\ w.seq = u.seq
              /\ \E d \in Int : w.balances = u.balances \cup
                   {[id |-> row.id, address |-> a, east |-> east, diff |-> d]}
      <4> HIDE DEF a, east, r
      <4> QED  BY <1>2, <1>3, <2>2, AddBalanceSound
    <3> QED  BY <2>1, <3>1
  <2>4. PICK b : /\ b.id = row.id /\ b.address = a /\ b.east = east
                 /\ T.balances = t.balances \cup {b}
    BY <1>3, <2>3
  <2>5. /\ EastOf(CurrentBalance(T, a)) = east
        /\ \A x : x # a => CurrentBalance(T, x) = CurrentBalance(t, x)
    <3>1. b.id \in Nat /\ \A q \in t.balances : q.id \in Nat /\ q.id < b.id
      BY <1>5, <2>4
    <3>2. /\ EastOf(CurrentBalance(T, b.address)) = b.east
          /\ \A x : x # b.address => CurrentBalance(T, x) = CurrentBalance(t, x)
      <4>1. T.balances = t.balances \cup {b}
        BY <2>4
      <4> HIDE DEF a, east, r
      <4> QED  BY <3>1, <4>1, BalanceShown
    <3> QED  BY <2>4, <3>2
  <2>6. \A x \in Addr : EastOf(CurrentBalance(T, x)) = c.after.balances[x]
    <3>1. r.type # "transfer"
      BY <1>11
    <3> QED  BY <2>5, <3>1, KeysKept DEF Shows
  <2>7. \A x : VaultView(T, x) = VaultView(u, x)
    BY <2>3 DEF VaultView, CurrentVault
  <2>8. Shows(T, c.after)
    BY <1>8, <2>6, <2>7 DEF Shows
  <2>9. Newer(t, T, h)
    BY <1>5, <1>10, <2>3, <2>4 DEF Newer
  <2> QED  BY <2>8, <2>9
<1>12. CASE r.type \notin {"mint", "reissue", "close"}
  <2>1. T = u
    BY <1>1, <1>12
  <2>2. r.type # "transfer"
    BY <1>1 DEF VaultTypes
  <2>3. \A x : CurrentBalance(u, x) = CurrentBalance(t, x)
    BY <1>3 DEF CurrentBalance
  <2>4. \A x \in Addr : EastOf(CurrentBalance(u, x)) = c.after.balances[x]
    BY <1>12, <2>2, <2>3, KeysKept DEF Shows
  <2> QED  BY <1>8, <1>10, <2>1, <2>4 DEF Shows
<1> QED  BY <1>11, <1>12

(* One side of a transfer.                                                 *)
LEMMA TransferSideShown ==
  ASSUME NEW t, NEW c, NEW h, Handled(t, c, h), c.req.type = "transfer",
         NEW committed \in Tables, NEW a \in Addr
  PROVE  LET u == WithBalance(t, committed, c, a, h)
         IN  /\ Handled(u, c, h) /\ Newer(t, u, h) /\ u.vaults = t.vaults
             /\ EastOf(CurrentBalance(u, a)) = c.after.balances[a]
             /\ \A x : x # a => CurrentBalance(u, x) = CurrentBalance(t, x)
<1> DEFINE row == ExecutedRow(t, c.req, a, h)
           u == WithBalance(t, committed, c, a, h)
<1>1. /\ Sound(u) /\ u.blocks = t.blocks /\ u.txs = t.txs \cup {row}
      /\ u.vaults = t.vaults
      /\ \E d \in Int : u.balances = t.balances \cup
           {[id |-> row.id, address |-> a,
             east |-> c.after.balances[a], diff |-> d]}
  BY WithBalanceSound
<1>2. row.id = t.seq + 1 /\ row.height = h
  BY ExecutedRowNewest DEF NextId, JournalTypes
<1>3. /\ t.seq \in Nat /\ row.id \in Nat /\ row.id > t.seq
      /\ \A x \in t.balances : x.id \in Nat /\ x.id < row.id
  <2>1. t.seq \in Nat /\ \A x \in t.balances : x.id \in Nat /\ x.id <= t.seq
    BY IdsBelow DEF Sound, Handled
  <2> QED  BY <2>1, <1>2
<1> HIDE DEF row, u
<1>4. PICK b : /\ b.id = row.id /\ b.address = a /\ b.east = c.after.balances[a]
               /\ u.balances = t.balances \cup {b}
  BY <1>1
<1>5. u.seq \in Nat /\ row.id <= u.seq
  BY <1>1, IdsBelow DEF Sound
<1>6. Newer(t, u, h)
  BY <1>1, <1>2, <1>3, <1>4, <1>5 DEF Newer
<1>7. Handled(u, c, h)
  BY <1>1 DEF Handled
<1>8. /\ EastOf(CurrentBalance(u, a)) = c.after.balances[a]
      /\ \A x : x # a => CurrentBalance(u, x) = CurrentBalance(t, x)
  BY SMTT(30), <1>3, <1>4, BalanceShown
<1> QED  BY <1>1, <1>6, <1>7, <1>8 DEF u

(* Both sides.                                                             *)
LEMMA TransferShown ==
  ASSUME NEW t, NEW c, NEW h, Handled(t, c, h), NEW committed \in Tables,
         NEW s, Executed(s, c), Shows(t, s),
         NEW T, LogsTransfer(t, committed, c, h, T)
  PROVE  Shows(T, c.after) /\ Newer(t, T, h)
<1> DEFINE r == c.req
           u == WithBalance(t, committed, c, r.sender, h)
<1>1. /\ r.type = "transfer" /\ r.sender # r.address
      /\ T = WithBalance(u, committed, c, r.address, h)
  BY DEF LogsTransfer
<1>2. r.sender \in Addr /\ r.address \in Addr
  BY <1>1, ClientIsUser DEF Handled, Call, Request, ServiceTypes
<1>3. /\ Handled(u, c, h) /\ Newer(t, u, h) /\ u.vaults = t.vaults
      /\ EastOf(CurrentBalance(u, r.sender)) = c.after.balances[r.sender]
      /\ \A x : x # r.sender => CurrentBalance(u, x) = CurrentBalance(t, x)
  BY <1>1, <1>2, TransferSideShown
<1> HIDE DEF u
<1>4. /\ Newer(u, T, h) /\ T.vaults = u.vaults
      /\ EastOf(CurrentBalance(T, r.address)) = c.after.balances[r.address]
      /\ \A x : x # r.address => CurrentBalance(T, x) = CurrentBalance(u, x)
  BY <1>1, <1>2, <1>3, TransferSideShown
<1>5. ASSUME NEW x \in Addr
      PROVE  EastOf(CurrentBalance(T, x)) = c.after.balances[x]
  <2>1. CASE x = r.address
    BY <1>4, <2>1
  <2>2. CASE x = r.sender
    <3>1. CurrentBalance(T, x) = CurrentBalance(u, x)
      BY <1>1, <1>4, <2>2
    <3> QED  BY <1>3, <2>2, <3>1
  <2>3. CASE x # r.address /\ x # r.sender
    <3>1. CurrentBalance(T, x) = CurrentBalance(t, x)
      BY <1>3, <1>4, <2>3
    <3> QED  BY <2>3, <3>1, KeysKept DEF Shows
  <2> QED  BY <2>1, <2>2, <2>3
<1>6. \A x \in Addr : VaultView(T, x) = c.after.vaults[x]
  <2>1. \A x : VaultView(T, x) = VaultView(t, x)
    BY <1>3, <1>4 DEF VaultView, CurrentVault
  <2>2. r.type \notin VaultTypes \cup {"close", "liquidate"}
    BY <1>1 DEF VaultTypes
  <2> QED  BY <2>1, <2>2, KeysKept DEF Shows
<1> QED  BY <1>3, <1>4, <1>5, <1>6, NewerComposes DEF Shows

(* Every handler.                                                          *)
LEMMA LogsShows ==
  ASSUME NEW t, NEW c, NEW h, Handled(t, c, h), NEW committed \in Tables,
         NEW s, Executed(s, c), Shows(t, s),
         NEW tx, NEW status, NEW T, Logs(t, committed, c, h, tx, status, T)
  PROVE  Shows(T, c.after) /\ Newer(t, T, h)
<1> DEFINE r == c.req
<1>1. CASE LogsVault(t, committed, c, h, T)
  BY <1>1, VaultCallShown
<1>2. CASE LogsTransfer(t, committed, c, h, T)
  BY <1>2, TransferShown
<1>3. CASE LogsRequest(t, c, h, tx, status, T) \/ LogsRate(t, c, h, T)
           \/ LogsNothing(t, c, T)
  <2>1. t \in Tables /\ t.seq \in Nat
    BY TablesFields DEF Handled, Sound, Good
  <2>2. r.type \notin VaultTypes \cup {"close", "liquidate", "transfer"}
    BY <1>3 DEF LogsRequest, LogsRate, LogsNothing, IsRate, JournalTypes,
       VaultTypes
  <2>3. Shows(t, c.after)
    <3>1. ASSUME NEW a \in Addr
          PROVE  /\ c.after.vaults[a] = s.vaults[a]
                 /\ c.after.balances[a] = s.balances[a]
      <4>1. r.type \notin {"mint", "reissue", "close", "transfer"}
        BY <2>2 DEF VaultTypes
      <4> QED  BY <2>2, <4>1, KeysKept
    <3> QED  BY <3>1 DEF Shows
  <2>4. /\ T.vaults = t.vaults /\ T.balances = t.balances
        /\ T.seq \in Nat /\ t.seq <= T.seq /\ t.txs \subseteq T.txs
        /\ \A x \in T.txs : x \in t.txs \/ x.height = h
    <3>1. CASE LogsRequest(t, c, h, tx, status, T)
      <4> DEFINE row == RequestRow(t, r, tx, status, h)
      <4>1. T = InsertTx(t, row) /\ row.height = h /\ row.id = t.seq + 1
        BY <3>1 DEF LogsRequest, RequestRow, NextId
      <4> HIDE DEF row
      <4> QED  BY <2>1, <4>1 DEF InsertTx, Tables
    <3>2. CASE LogsRate(t, c, h, T)
      BY <2>1, <3>2 DEF LogsRate, SaveOracleRow, Tables
    <3>3. CASE LogsNothing(t, c, T)
      BY <2>1, <3>3 DEF LogsNothing
    <3> QED  BY <1>3, <3>1, <3>2, <3>3
  <2>5. Shows(T, c.after)
    BY <2>3, <2>4, SameShown
  <2>6. Newer(t, T, h)
    BY <2>1, <2>4 DEF Newer
  <2> QED  BY <2>5, <2>6
<1> QED  BY <1>1, <1>2, <1>3 DEF Logs

-----------------------------------------------------------------------------
(* The tables as they were.                                                *)

\* The journals of the entries that are below a height.
Below(t, g) ==
    LET ids == {r.id : r \in {r \in t.txs : r.height < g}}
    IN  [vaults   |-> {v \in t.vaults : v.id \in ids},
         balances |-> {b \in t.balances : b.id \in ids}]

(* They depend on the journals only.                                       *)
LEMMA BelowSame ==
  ASSUME NEW t, NEW u, u.txs = t.txs, u.vaults = t.vaults,
         u.balances = t.balances
  PROVE  \A g : Below(u, g) = Below(t, g)
BY DEF Below

(* A deletion leaves what was below its height.                            *)
LEMMA BelowDeleted ==
  ASSUME NEW t, Sound(t), NEW h \in Nat, NEW g \in Nat, g <= h
  PROVE  Below(DeleteFrom(t, h), g) = Below(t, g)
<1> DEFINE kept    == {b \in t.blocks : b.height < h}
           heights == {b.height : b \in kept}
           txs     == {r \in t.txs : r.height \in heights}
           ids     == {r.id : r \in txs}
           u       == DeleteFrom(t, h)
           low     == {r.id : r \in {r \in t.txs : r.height < g}}
           lowu    == {r.id : r \in {r \in u.txs : r.height < g}}
<1>1. /\ u.txs = txs
      /\ u.vaults = {v \in t.vaults : v.id \in ids}
      /\ u.balances = {b \in t.balances : b.id \in ids}
  BY DEF DeleteFrom, KeepOnly, Sound, Good, Tables
<1>2. u.txs = {r \in t.txs : r.height < h}
  BY DeleteFromSound
<1>3. t.txs \subseteq TxRow
  BY TablesFields DEF Sound, Good
<1>4. {r \in u.txs : r.height < g} = {r \in t.txs : r.height < g}
  <2>1. \A r \in t.txs : r.height < g => r.height < h
    BY <1>3 DEF TxRow
  <2> QED  BY <1>2, <2>1
<1>5. lowu = low /\ low \subseteq ids
  BY <1>1, <1>4
<1> HIDE DEF u, ids, low, lowu
<1>6. /\ {v \in u.vaults : v.id \in lowu} = {v \in t.vaults : v.id \in low}
      /\ {b \in u.balances : b.id \in lowu} = {b \in t.balances : b.id \in low}
  BY <1>1, <1>5
<1>7. /\ Below(u, g) = [vaults |-> {v \in u.vaults : v.id \in lowu},
                        balances |-> {b \in u.balances : b.id \in lowu}]
      /\ Below(t, g) = [vaults |-> {v \in t.vaults : v.id \in low},
                        balances |-> {b \in t.balances : b.id \in low}]
  BY DEF Below, low, lowu
<1> QED  BY <1>6, <1>7 DEF u

(* Nothing that a handler writes is below its block.                       *)
LEMMA BelowNewer ==
  ASSUME NEW t, Sound(t), NEW h \in Nat, NEW T, Sound(T), Newer(t, T, h),
         NEW g \in Nat, g <= h
  PROVE  Below(T, g) = Below(t, g)
<1> DEFINE low  == {r.id : r \in {r \in t.txs : r.height < g}}
           lowT == {r.id : r \in {r \in T.txs : r.height < g}}
<1>1. {r \in T.txs : r.height < g} = {r \in t.txs : r.height < g}
  BY DEF Newer
<1>2. lowT = low
  BY <1>1
<1>3. \A i \in low : i \in Nat /\ i <= t.seq
  BY IdsBelow DEF Sound
<1> HIDE DEF low, lowT
<1>4. /\ {v \in T.vaults : v.id \in lowT} = {v \in t.vaults : v.id \in low}
      /\ {b \in T.balances : b.id \in lowT} = {b \in t.balances : b.id \in low}
  BY <1>2, <1>3 DEF Newer
<1>5. /\ Below(T, g) = [vaults |-> {v \in T.vaults : v.id \in lowT},
                        balances |-> {b \in T.balances : b.id \in lowT}]
      /\ Below(t, g) = [vaults |-> {v \in t.vaults : v.id \in low},
                        balances |-> {b \in t.balances : b.id \in low}]
  BY DEF Below, low, lowT
<1> QED  BY <1>4, <1>5

(* Above all blocks nothing is missing.                                    *)
LEMMA BelowAll ==
  ASSUME NEW t, Sound(t), NEW g, HeightsBelow(t, g)
  PROVE  Below(t, g).vaults = t.vaults /\ Below(t, g).balances = t.balances
<1>1. \A v \in t.vaults \cup t.balances :
        \E r \in t.txs : r.id = v.id /\ r.height < g
  BY DEF Sound, Good, Ordered, HeightsBelow
<1> QED  BY <1>1 DEF Below

-----------------------------------------------------------------------------
(* Every call of a mined block was run by the contract, on what the block  *)
(* below had left.                                                         *)

ContractOK(st) ==
    \A sig \in DOMAIN st :
      /\ st[sig].parent \in DOMAIN st \cup {0}
      /\ \A i \in DOMAIN st[sig].calls :
           Executed(StateAt(st, sig, i), st[sig].calls[i])

(* The contract's states are those of the blocks.                          *)
LEMMA StateAtGrows ==
  ASSUME NEW st, NEW su, \A s \in DOMAIN st : s \in DOMAIN su /\ su[s] = st[s],
         ContractOK(st), NEW sig \in DOMAIN st, 0 \notin DOMAIN st
  PROVE  \A i : StateAt(su, sig, i) = StateAt(st, sig, i)
<1>1. su[sig] = st[sig] /\ st[sig].parent \in DOMAIN st \cup {0}
  BY DEF ContractOK
<1>2. st[sig].parent # 0 => su[st[sig].parent] = st[st[sig].parent]
  BY <1>1
<1> QED  BY <1>1, <1>2 DEF StateAt

(* What the node puts into a block, the contract has run.                  *)
LEMMA BodiesExecuted ==
  ASSUME NEW s \in State, NEW offers, offers \subseteq Request,
         NEW body \in Bodies(s, offers, InitNeedsVault), body \in Seq(Call)
  PROVE  \A i \in DOMAIN body :
           Executed(IF i > 1 THEN body[i - 1].after ELSE s, body[i])
<1> DEFINE ok(t) == {r \in offers : Accepts(t, r, InitNeedsVault)}
           one   == {Execute(s, r) : r \in ok(s)}
           two(c) == {<<c, Execute(c.after, r)>> :
                        r \in {q \in ok(c.after) : q.id # c.req.id}}
<1>1. Bodies(s, offers, InitNeedsVault)
        = {<<c>> : c \in one} \cup UNION {two(c) : c \in one}
  BY DEF Bodies
<1>2. ASSUME NEW t, t \in State, NEW r \in ok(t), Execute(t, r) \in Call
      PROVE  Executed(t, Execute(t, r))
  <2>1. Execute(t, r).req = r /\ Execute(t, r).after = After(t, r)
    BY DEF Execute
  <2> QED  BY <1>2, <2>1 DEF Executed
<1>3. CASE body \in {<<c>> : c \in one}
  <2>1. PICK r \in ok(s) : body = <<Execute(s, r)>>
    BY <1>3
  <2>2. body[1] \in Call
    BY <2>1
  <2>3. Executed(s, body[1])
    BY <1>2, <2>1, <2>2
  <2>4. \A i \in DOMAIN body : i = 1 /\ ~(i > 1)
    BY <2>1
  <2> QED  BY <2>3, <2>4
<1>4. CASE body \in UNION {two(c) : c \in one}
  <2>1. PICK c \in one : body \in two(c)
    BY <1>4
  <2>2. PICK q \in ok(s) : c = Execute(s, q)
    BY <2>1
  <2>3. PICK r \in ok(c.after) : body = <<c, Execute(c.after, r)>>
    BY <2>1
  <2>4. /\ body[1] = c /\ body[2] = Execute(c.after, r)
        /\ body[1] \in Call /\ body[2] \in Call
        /\ \A i \in DOMAIN body : (i = 1 /\ ~(i > 1))
                                  \/ (i = 2 /\ i > 1 /\ i - 1 = 1)
    BY <2>3
  <2>5. c.after \in State
    BY <2>4 DEF Call
  <2>6. Executed(s, body[1])
    BY <1>2, <2>2, <2>4
  <2>7. Executed(body[1].after, body[2])
    BY <1>2, <2>3, <2>4, <2>5
  <2> QED  BY <2>4, <2>6, <2>7
<1> QED  BY <1>1, <1>3, <1>4

LEMMA ContractOKNext ==
  ASSUME IInv, ContractOK(store), [Next]_vars PROVE ContractOK(store)'
<1>1. CASE store' = store
  BY <1>1
<1>2. CASE Mine
  <2>1. PICK body \in Bodies(NodeState, Offers, InitNeedsVault) :
          store' = Append(store,
                     [height |-> Len(chain) + 1, calls |-> body,
                      parent |-> IF chain = <<>> THEN 0 ELSE chain[Len(chain)]])
    BY <1>2 DEF Mine
  <2> DEFINE new == [height |-> Len(chain) + 1, calls |-> body,
                     parent |-> IF chain = <<>> THEN 0 ELSE chain[Len(chain)]]
  <2>2. Offers \subseteq Request /\ NodeState \in State
    BY ListenerAssumption, NodeStateTyped DEF Offers, IInv, TypeOK
  <2>3. body \in Seq(Call)
    BY <2>2, BodiesTyped
  <2>4. new.calls = body
        /\ new.parent = IF chain = <<>> THEN 0 ELSE chain[Len(chain)]
    OBVIOUS
  <2>5. store \in Seq(Block) /\ store' \in Seq(Block)
        /\ chain \in Seq(Nat \ {0})
    BY NextIInv DEF IInv, TypeOK
  <2> HIDE DEF new
  <2> DEFINE n == Len(store) + 1
  <2>6. /\ DOMAIN store' = DOMAIN store \cup {n}
        /\ store'[n] = new /\ 0 \notin DOMAIN store
        /\ \A sig \in DOMAIN store : store'[sig] = store[sig]
    BY <2>1, <2>5 DEF new
  <2> PICK st : st = store'
    OBVIOUS
  <2>7. /\ st[n] = new /\ DOMAIN st = DOMAIN store \cup {n}
        /\ \A sig \in DOMAIN store : sig \in DOMAIN st /\ st[sig] = store[sig]
    BY <2>6
  <2> HIDE DEF n
  <2>8. new.parent \in DOMAIN store \cup {0}
        /\ NodeState = IF new.parent = 0 THEN GenesisState
                                         ELSE Final(store[new.parent])
    <3>1. CASE chain = <<>>
      BY <2>4, <3>1 DEF NodeState
    <3>2. CASE chain # <<>>
      <4>1. Len(chain) \in DOMAIN chain
        BY <2>5, <3>2
      <4>2. chain[Len(chain)] \in DOMAIN store
        BY <4>1 DEF IInv, ChainOK
      <4> QED  BY <2>4, <2>6, <3>2, <4>2 DEF NodeState
    <3> QED  BY <3>1, <3>2
  <2>9. \A i : StateAt(st, n, i) = IF i > 1 THEN body[i - 1].after
                                             ELSE NodeState
    <3>1. new.parent # 0 => st[new.parent] = store[new.parent]
      BY <2>7, <2>8
    <3> QED  BY <2>4, <2>7, <2>8, <3>1 DEF StateAt
  <2>10. \A i \in DOMAIN body :
           Executed(IF i > 1 THEN body[i - 1].after ELSE NodeState, body[i])
    BY <2>2, <2>3, BodiesExecuted
  <2>11. \A i \in DOMAIN st[n].calls : Executed(StateAt(st, n, i), st[n].calls[i])
    BY <2>4, <2>7, <2>9, <2>10
  <2>12. st[n].parent \in DOMAIN st \cup {0}
    BY <2>7, <2>8
  <2>13. ASSUME NEW sig \in DOMAIN store
         PROVE  /\ st[sig].parent \in DOMAIN st \cup {0}
                /\ \A i \in DOMAIN st[sig].calls :
                     Executed(StateAt(st, sig, i), st[sig].calls[i])
    <3>1. \A i : StateAt(st, sig, i) = StateAt(store, sig, i)
      BY <2>6, <2>7, StateAtGrows
    <3> QED  BY <2>7, <3>1 DEF ContractOK
  <2>14. ContractOK(st)
    BY <2>7, <2>11, <2>12, <2>13 DEF ContractOK
  <2> QED  BY <2>14
<1> QED  BY <1>1, <1>2, StoreGrows

-----------------------------------------------------------------------------
(* What the tables show.                                                   *)

(* Cut above a block, tables t show what the contract held after it.       *)
History(st, blocks, t) ==
    \A b \in blocks : Shows(Below(t, b.height + 1), Final(st[b.sig]))

Shown(st, d, x) ==
    /\ History(st, d.blocks, d)
    /\ x.sig # 0 =>
         /\ x.next <= Len(st[x.sig].calls) + 1
         /\ Shows(x.tables, StateAt(st, x.sig, x.next))
         /\ History(st, d.blocks, x.tables)

(* What is below all blocks is what is shown.                              *)
LEMMA ShowsAll ==
  ASSUME NEW t, Sound(t), NEW g, HeightsBelow(t, g), NEW s
  PROVE  Shows(Below(t, g), s) <=> Shows(t, s)
<1> DEFINE u == Below(t, g)
<1>1. u.vaults = t.vaults /\ u.balances = t.balances
  BY BelowAll
<1> HIDE DEF u
<1>2. Shows(u, s) <=> Shows(t, s)
  BY <1>1, SameShown
<1> QED  BY <1>2 DEF u

(* Without blocks, what is shown is the contract's genesis.                *)
LEMMA NothingShown ==
  ASSUME NEW t, Sound(t), t.blocks = {} PROVE Shows(t, GenesisState)
<1>1. t.vaults = {} /\ t.balances = {}
  BY DEF Sound, Good, Ordered
<1>2. \A a : CurrentVault(t, a) = {} /\ CurrentBalance(t, a) = {}
  BY <1>1 DEF CurrentVault, CurrentBalance, LastById
<1>3. \A a : VaultView(t, a) = NoVault /\ EastOf(CurrentBalance(t, a)) = 0
  BY <1>2 DEF VaultView, EastOf
<1>4. \A a \in Addr : GenesisState.vaults[a] = NoVault
                      /\ GenesisState.balances[a] = 0
  BY DEF GenesisState
<1> QED  BY <1>3, <1>4 DEF Shows

(* The transaction starts from what the parent of its block has left.      *)
LEMMA BeginBlockShown ==
  ASSUME NoRateRefused, JournalInv, BranchOK, Shown(store, db, trx), BeginBlock
  PROVE  Shown(store, db, trx)'
<1>1. IInv /\ SoundOK /\ TrxAbove
  BY DEF JournalInv
<1> DEFINE sig == stream[1].sig
           h   == store[sig].height
<1>2. /\ sig \in DOMAIN store /\ sig # 0 /\ h \in Nat \ {0}
      /\ HeightsBelow(db, h) /\ trx'.sig = sig /\ trx'.next = 1
      /\ trx'.tables = SaveBlock(db, h, sig)
      /\ UNCHANGED <<store, db>>
  BY <1>1, BeginFacts
<1>3. /\ trx'.tables.txs = db.txs /\ trx'.tables.vaults = db.vaults
      /\ trx'.tables.balances = db.balances
  BY <1>1, <1>2 DEF SaveBlock, IInv, TypeOK, Tables
<1>4. PICK k : Reached(store, db, trx', k)
  <2>1. BranchOK'
    BY <1>1, BeginBlockBranch
  <2>2. PICK k : Reached(store', db', trx', k)
    BY <2>1 DEF BranchOK
  <2> QED  BY <1>2, <2>2
<1> HIDE DEF sig, h
<1> PICK x : x = trx'
  OBVIOUS
<1>5. /\ Line(store, k) /\ k # <<>> /\ k[Len(k)] = sig /\ Len(k) \in Nat
      /\ \A g \in 1 .. Len(k) : g # Len(k) =>
           [height |-> g, sig |-> k[g]] \in db.blocks
  BY <1>2, <1>4 DEF Reached, GoodLine, Line
<1>6. /\ Len(k) \in 1 .. Len(k) /\ store[sig].height = Len(k)
      /\ store[sig].parent = IF Len(k) = 1 THEN 0 ELSE k[Len(k) - 1]
  <2>1. k \in Seq(Nat \ {0})
    BY <1>5 DEF Line
  <2>2. Len(k) \in 1 .. Len(k)
    BY <1>5, <2>1
  <2> QED  BY <1>5, <2>2 DEF Line
<1>7. h = Len(k)
  BY <1>6 DEF h
<1>8. x.next <= Len(store[x.sig].calls) + 1
  <2>1. store[sig] \in Block
    BY <1>1, <1>2 DEF IInv, TypeOK
  <2>2. Len(store[sig].calls) \in Nat
    BY <2>1 DEF Block
  <2> QED  BY <1>2, <2>2
<1>9. Shows(db, StateAt(store, sig, 1))
  <2>1. db.blocks \subseteq BlockRow /\ Sound(db)
    BY <1>1, TablesFields DEF IInv, TypeOK, SoundOK
  <2>2. CASE Len(k) = 1
    <3>1. db.blocks = {}
      BY <1>2, <1>7, <2>1, <2>2 DEF HeightsBelow, BlockRow
    <3>2. StateAt(store, sig, 1) = GenesisState
      BY <1>6, <2>2 DEF StateAt
    <3> QED  BY <2>1, <3>1, <3>2, NothingShown
  <2>3. CASE Len(k) # 1
    <3>1. /\ Len(k) - 1 \in 1 .. Len(k) /\ Len(k) - 1 # Len(k)
          /\ (Len(k) - 1) + 1 = h
      BY <1>5, <1>6, <1>7, <2>3
    <3> DEFINE b == [height |-> Len(k) - 1, sig |-> k[Len(k) - 1]]
    <3>2. b \in db.blocks /\ b.height + 1 = h /\ b.sig = k[Len(k) - 1]
      BY <1>5, <3>1
    <3> HIDE DEF b
    <3>3. Shows(Below(db, h), Final(store[b.sig]))
      BY <3>2 DEF Shown, History
    <3>4. k[Len(k) - 1] # 0
      <4>1. k \in Seq(Nat \ {0})
        BY <1>5 DEF Line
      <4> QED  BY <3>1, <4>1
    <3>5. StateAt(store, sig, 1) = Final(store[b.sig])
      BY <1>6, <2>3, <3>2, <3>4 DEF StateAt
    <3> QED  BY <1>2, <2>1, <3>3, <3>5, ShowsAll
  <2> QED  BY <2>2, <2>3
<1>10. Shows(x.tables, StateAt(store, x.sig, x.next))
  BY <1>2, <1>3, <1>9, SameShown
<1>11. History(store, db.blocks, x.tables)
  <2>1. \A g : Below(x.tables, g) = Below(db, g)
    BY <1>3, BelowSame
  <2> QED  BY <2>1 DEF Shown, History
<1>12. Shown(store, db, x)
  BY <1>8, <1>10, <1>11 DEF Shown
<1> QED  BY <1>2, <1>12

(* A handler goes on to the next state of the contract.                    *)
LEMMA LogsCallShown ==
  ASSUME NoRateRefused, JournalInv, BranchOK, ContractOK(store),
         Shown(store, db, trx), [Next]_vars, LogsCall
  PROVE  Shown(store, db, trx)'
<1>1. IInv /\ SoundOK /\ TrxAbove /\ SentOK /\ CallsOK
  BY DEF JournalInv
<1>2. /\ CallsLeft /\ UNCHANGED <<store, db>>
      /\ trx'.sig = trx.sig /\ trx'.next = trx.next + 1
  BY DEF LogsCall
<1>3. ~trx'.aborted
  BY BranchOKNext DEF BranchOK, Reached
<1>4. PICK tx, status :
        Logs(trx.tables, db, Current, Height, tx, status, trx'.tables)
  BY <1>3 DEF LogsCall
<1>5. Handled(trx.tables, Current, Height) /\ db \in Tables
  BY <1>1, <1>2, CurrentHandled DEF SoundOK
<1>6. /\ trx.sig \in DOMAIN store /\ trx.sig # 0
      /\ trx.next \in Nat \ {0} /\ trx.next \in DOMAIN store[trx.sig].calls
      /\ Len(store[trx.sig].calls) \in Nat
      /\ trx.next <= Len(store[trx.sig].calls)
  <2>1. /\ InTrx /\ trx.sig \in DOMAIN store /\ trx.next \in Nat \ {0}
        /\ trx.next <= Len(store[trx.sig].calls) /\ store \in Seq(Block)
    BY <1>1, <1>2 DEF CallsLeft, IInv, TypeOK, TrxOK
  <2>2. store[trx.sig] \in Block
    BY <2>1
  <2>3. store[trx.sig].calls \in Seq(Call)
    BY <2>2 DEF Block
  <2> QED  BY <2>1, <2>3 DEF InTrx
<1>7. Executed(StateAt(store, trx.sig, trx.next), Current)
  BY <1>6 DEF ContractOK, Current
<1>8. /\ Shows(trx'.tables, Current.after)
      /\ Newer(trx.tables, trx'.tables, Height)
  <2>1. Shows(trx.tables, StateAt(store, trx.sig, trx.next))
    BY <1>6 DEF Shown
  <2> QED  BY <1>4, <1>5, <1>7, <2>1, LogsShows
<1> PICK x : x = trx'
  OBVIOUS
<1>9. StateAt(store, x.sig, x.next) = Current.after
  <2>1. trx.next + 1 > 1 /\ (trx.next + 1) - 1 = trx.next
    BY <1>6
  <2> QED  BY <1>2, <2>1 DEF StateAt, Current
<1>10. History(store, db.blocks, x.tables)
  <2>1. History(store, db.blocks, trx.tables)
    BY <1>6 DEF Shown
  <2>2. /\ Sound(trx.tables) /\ Sound(x.tables) /\ Height \in Nat
        /\ db.blocks \subseteq BlockRow
    BY <1>1, <1>5, SoundOKNext, TablesFields DEF SoundOK, Handled
  <2> PICK t, T, h : t = trx.tables /\ T = x.tables /\ h = Height
    OBVIOUS
  <2>3. ASSUME NEW b \in db.blocks
        PROVE  Below(T, b.height + 1) = Below(t, b.height + 1)
    <3>1. b.height + 1 \in Nat /\ b.height + 1 <= h
      BY <1>1, <1>2, <2>2 DEF TrxAbove, CallsLeft, HeightsBelow, BlockRow
    <3>2. Sound(t) /\ Sound(T) /\ h \in Nat /\ Newer(t, T, h)
      BY <1>8, <2>2
    <3> QED  BY <3>1, <3>2, BelowNewer
  <2> QED  BY <2>1, <2>3 DEF History
<1>11. Shown(store, db, x)
  BY <1>2, <1>6, <1>8, <1>9, <1>10 DEF Shown
<1> QED  BY <1>2, <1>11

(* What is committed is what the contract held after the block.            *)
LEMMA CommitShown ==
  ASSUME NoRateRefused, JournalInv, BranchOK, Shown(store, db, trx), Commit
  PROVE  Shown(store, db, trx)'
<1>1. IInv /\ SoundOK /\ TrxAbove
  BY DEF JournalInv
<1>2. ~trx.aborted
  BY DEF BranchOK, Reached
<1>3. /\ InTrx /\ ~CallsLeft /\ trx' = NoTrx /\ store' = store
      /\ db' = trx.tables
  BY <1>2 DEF Commit, node
<1>4. /\ trx.tables.blocks = db.blocks \cup {[height |-> Height, sig |-> trx.sig]}
      /\ trx.sig # 0 /\ trx.sig \in DOMAIN store
  BY <1>1, <1>3 DEF TrxAbove, InTrx, IInv, TrxOK
<1>5. /\ trx.next \in Nat \ {0} /\ Len(store[trx.sig].calls) \in Nat \ {0}
      /\ Height \in Nat
  <2>1. store[trx.sig] \in Block /\ trx.next \in Nat \ {0}
    BY <1>1, <1>4 DEF IInv, TypeOK
  <2>2. store[trx.sig].calls \in Seq(Call) \ {<<>>} /\ Height \in Nat
    BY <2>1 DEF Block, Height
  <2> QED  BY <2>1, <2>2
<1>6. trx.next = Len(store[trx.sig].calls) + 1
  <2>1. trx.next <= Len(store[trx.sig].calls) + 1
    BY <1>4 DEF Shown
  <2> QED  BY <1>3, <1>5, <2>1 DEF CallsLeft
<1>7. StateAt(store, trx.sig, trx.next) = Final(store[trx.sig])
  <2>1. trx.next > 1 /\ trx.next - 1 = Len(store[trx.sig].calls)
    BY <1>5, <1>6
  <2> QED  BY <2>1 DEF StateAt, Final
<1>8. Shows(trx.tables, Final(store[trx.sig]))
  BY <1>4, <1>7 DEF Shown
<1>9. HeightsBelow(trx.tables, Height + 1)
  <2>1. db.blocks \subseteq BlockRow /\ HeightsBelow(db, Height)
    BY <1>1, <1>3, TablesFields DEF IInv, TypeOK, TrxAbove
  <2> QED  BY <1>4, <1>5, <2>1 DEF HeightsBelow, BlockRow
<1>10. Shows(Below(trx.tables, Height + 1), Final(store[trx.sig]))
  BY <1>1, <1>8, <1>9, ShowsAll DEF SoundOK
<1>11. History(store, db.blocks, trx.tables)
  BY <1>4 DEF Shown
<1>12. History(store, trx.tables.blocks, trx.tables)
  <2> DEFINE new == [height |-> Height, sig |-> trx.sig]
  <2>1. new.height = Height /\ new.sig = trx.sig
        /\ trx.tables.blocks = db.blocks \cup {new}
    BY <1>4
  <2> HIDE DEF new
  <2> QED  BY <1>10, <1>11, <2>1 DEF History
<1> PICK t : t = trx.tables
  OBVIOUS
<1>13. Shown(store, t, NoTrx)
  BY <1>12 DEF Shown, NoTrx
<1> QED  BY <1>3, <1>13

LEMMA ShownNext ==
  ASSUME NoRateRefused, JournalInv, BranchOK, ContractOK(store),
         Shown(store, db, trx), [Next]_vars
  PROVE  Shown(store, db, trx)'
<1>1. IInv /\ SoundOK /\ TrxAbove /\ SentOK /\ CallsOK
  BY DEF JournalInv
<1>2. CASE Quiet
  <2>1. /\ \A s \in DOMAIN store : s \in DOMAIN store' /\ store'[s] = store[s]
        /\ 0 \notin DOMAIN store
    BY <1>1, StoreGrows DEF IInv, TypeOK
  <2> PICK st : st = store'
    OBVIOUS
  <2>2. \A t : History(store, db.blocks, t) => History(st, db.blocks, t)
    <3>1. \A b \in db.blocks : st[b.sig] = store[b.sig]
      BY <1>1, <2>1 DEF IInv, SigsOK, Visible
    <3> QED  BY <3>1 DEF History
  <2>3. trx.sig # 0 => /\ st[trx.sig] = store[trx.sig]
                       /\ \A i : StateAt(st, trx.sig, i) = StateAt(store, trx.sig, i)
    <3>1. trx.sig # 0 => trx.sig \in DOMAIN store
      BY <1>1 DEF IInv, TrxOK, InTrx
    <3> QED  BY <2>1, <3>1, StateAtGrows
  <2>4. Shown(st, db, trx)
    BY <2>2, <2>3 DEF Shown
  <2> QED  BY <1>2, <2>4 DEF Quiet
<1>3. CASE Leaves
  <2>1. Shown(store, db, NoTrx)
    BY DEF Shown, NoTrx
  <2> QED  BY <1>3, <2>1 DEF Leaves, Exit
<1>4. CASE Deletes
  <2>1. PICK h \in Nat : db' = DeleteFrom(db, h)
    BY <1>4 DEF Deletes
  <2> DEFINE u == DeleteFrom(db, h)
  <2>2. u.blocks = {b \in db.blocks : b.height < h}
    BY <1>1, DeleteFromSound DEF SoundOK
  <2>3. db.blocks \subseteq BlockRow
    BY <1>1, TablesFields DEF IInv, TypeOK
  <2>4. ASSUME NEW b \in u.blocks
        PROVE  Below(u, b.height + 1) = Below(db, b.height + 1)
    <3>1. b.height + 1 \in Nat /\ b.height + 1 <= h
      BY <2>2, <2>3 DEF BlockRow
    <3> QED  BY <1>1, <3>1, BelowDeleted DEF SoundOK
  <2> HIDE DEF u
  <2>5. History(store, u.blocks, u)
    BY <2>2, <2>4 DEF Shown, History
  <2>6. Shown(store, u, NoTrx)
    BY <2>5 DEF Shown, NoTrx
  <2>7. store' = store /\ trx' = NoTrx
    BY <1>4 DEF Deletes
  <2> QED  BY <2>1, <2>6, <2>7 DEF u
<1> QED  BY <1>1, <1>2, <1>3, <1>4, BeginBlockShown, LogsCallShown, CommitShown,
            Shapes

-----------------------------------------------------------------------------
(* The replica.                                                            *)

(* The blocks of d are those of line l, all of them.                       *)
Holds(st, d, l) ==
    /\ GoodLine(st, l)
    /\ d.blocks = {[height |-> h, sig |-> l[h]] : h \in 1 .. Len(l)}

(* The blocks of a line, in the order of their heights, are the line.      *)
LEMMA HeldIsStored ==
  ASSUME NEW st, NEW d, NEW l, Holds(st, d, l) PROVE Stored(d) = l
<1> DEFINE n == Len(l)
           f == [h \in 1 .. n |-> [height |-> h, sig |-> l[h]]]
<1>1. l \in Seq(Nat \ {0}) /\ n \in Nat
  BY DEF Holds, GoodLine, Line
<1>2. /\ DOMAIN f = 1 .. n /\ f \in [1 .. n -> d.blocks]
      /\ \A h \in 1 .. n : f[h].height = h /\ f[h].sig = l[h]
      /\ \A b \in d.blocks : \E h \in 1 .. n : f[h] = b
  BY DEF Holds
<1> HIDE DEF f, n
<1>3. f \in Bijection(1 .. n, d.blocks)
  BY <1>2 DEF Bijection, Injection, Surjection, IsInjective
<1>4. Cardinality(d.blocks) = n
  <2>1. IsFiniteSet(1 .. n) /\ Cardinality(1 .. n) = n
    BY <1>1, FS_Interval
  <2>2. ExistsBijection(1 .. n, d.blocks)
    BY <1>3 DEF ExistsBijection
  <2> QED  BY <2>1, <2>2, FS_Bijection
<1>5. ASSUME NEW h \in 1 .. n
      PROVE  (CHOOSE b \in d.blocks : b.height = h).sig = l[h]
  <2>1. f[h] \in d.blocks /\ f[h].height = h
    BY <1>2
  <2>2. \A b \in d.blocks : b.height = h => b = f[h]
    BY <1>2
  <2>3. (CHOOSE b \in d.blocks : b.height = h) = f[h]
    BY <2>1, <2>2
  <2> QED  BY <1>2, <2>3
<1>6. Stored(d) = [h \in 1 .. n |-> l[h]]
  BY <1>4, <1>5 DEF Stored
<1>7. l = [h \in 1 .. n |-> l[h]]
  BY <1>1 DEF n
<1> QED  BY <1>6, <1>7

ReplicaInv == BranchInv /\ ContractOK(store) /\ Shown(store, db, trx)

(* The database holds a line, and shows what the contract held after it.   *)
LEMMA HeldIsShown ==
  ASSUME NEW st \in Seq(Block), NEW d, NEW l, Holds(st, d, l), Sound(d),
         History(st, d.blocks, d)
  PROVE  View(d) = Replica!ViewAfter(st, l)
<1> DEFINE n == Len(l)
           s == IF l = <<>> THEN GenesisState ELSE Final(st[l[n]])
<1>1. l \in Seq(Nat \ {0}) /\ n \in Nat
  BY DEF Holds, GoodLine, Line
<1>2. Shows(d, s)
  <2>1. CASE l = <<>>
    <3>1. d.blocks = {}
      BY <2>1 DEF Holds
    <3> QED  BY <2>1, <3>1, NothingShown
  <2>2. CASE l # <<>>
    <3> DEFINE b == [height |-> n, sig |-> l[n]]
    <3>1. b.height = n /\ b.sig = l[n] /\ b \in d.blocks
      <4>1. n \in 1 .. n
        BY <1>1, <2>2
      <4> QED  BY <4>1 DEF Holds
    <3> HIDE DEF b
    <3>2. Shows(Below(d, n + 1), Final(st[l[n]]))
      BY <3>1 DEF History
    <3>3. HeightsBelow(d, n + 1)
      BY <1>1 DEF Holds, HeightsBelow
    <3> QED  BY <2>2, <3>2, <3>3, ShowsAll
  <2> QED  BY <2>1, <2>2
<1>3. Replica!ViewAfter(st, l) = [vaults |-> s.vaults, balances |-> s.balances]
  BY DEF Replica!ViewAfter, Replica!GenesisState, GenesisState, Replica!NoVault,
     NoVault, Replica!Final, Final
<1>4. s \in State
  <2>1. CASE l = <<>>
    BY <2>1 DEF GenesisState, NoVault, State, Vault
  <2>2. CASE l # <<>>
    <3>1. n \in 1 .. n
      BY <1>1, <2>2
    <3>2. st[l[n]] \in Block
      BY <3>1 DEF Holds, GoodLine, Line
    <3>3. st[l[n]].calls \in Seq(Call) /\ st[l[n]].calls # <<>>
      BY <3>2 DEF Block
    <3>4. st[l[n]].calls[Len(st[l[n]].calls)] \in Call
      BY <3>3
    <3> QED  BY <2>2, <3>4 DEF Final, Call
  <2> QED  BY <2>1, <2>2
<1> HIDE DEF s
<1>5. /\ s.vaults = [a \in Addr |-> VaultView(d, a)]
      /\ s.balances = [a \in Addr |-> EastOf(CurrentBalance(d, a))]
  BY <1>2, <1>4 DEF State, Shows
<1> QED  BY <1>3, <1>5 DEF View

(* What is committed of the line reached: all of it, but the tip that is   *)
(* being stored.                                                           *)
LEMMA LineHeld ==
  ASSUME NoRateRefused, BranchInv, NEW l, Reached(store, db, trx, l)
  PROVE  /\ trx.sig = 0 => Holds(store, db, l)
         /\ trx.sig # 0 =>
              /\ l # <<>> /\ l[Len(l)] = trx.sig
              /\ Holds(store, db, SubSeq(l, 1, Len(l) - 1))
              /\ Holds(store, trx.tables, l)
<1>1. /\ GoodLine(store, l) /\ l \in Seq(Nat \ {0}) /\ Len(l) \in Nat
      /\ db.blocks \subseteq BlockRow
  BY TablesFields DEF Reached, GoodLine, Line, BranchInv, JournalInv, IInv, TypeOK
<1>2. \A b \in db.blocks : /\ b.height \in 1 .. Len(l)
                           /\ b = [height |-> b.height, sig |-> l[b.height]]
  BY <1>1 DEF Reached, BlockRow
<1>3. ASSUME trx.sig = 0 PROVE Holds(store, db, l)
  <2>1. \A h \in 1 .. Len(l) : [height |-> h, sig |-> l[h]] \in db.blocks
    BY <1>3 DEF Reached
  <2> QED  BY <1>1, <1>2, <2>1 DEF Holds
<1>4. ASSUME trx.sig # 0
      PROVE  /\ l # <<>> /\ l[Len(l)] = trx.sig
             /\ Holds(store, db, SubSeq(l, 1, Len(l) - 1))
             /\ Holds(store, trx.tables, l)
  <2> DEFINE n == Len(l)
             k == SubSeq(l, 1, n - 1)
  <2>1. l # <<>> /\ l[n] = trx.sig /\ n \in 1 .. n /\ n - 1 \in 0 .. Len(l)
    BY <1>1, <1>4 DEF Reached
  <2>2. Height = n
    BY <1>1, <2>1 DEF Height, GoodLine, Line
  <2>3. /\ trx.tables.blocks = db.blocks \cup {[height |-> n, sig |-> l[n]]}
        /\ HeightsBelow(db, n)
    BY <1>4, <2>1, <2>2 DEF BranchInv, JournalInv, TrxAbove, InTrx
  <2>4. GoodLine(store, k) /\ Len(k) = n - 1 /\ \A h \in 1 .. n - 1 : k[h] = l[h]
    BY <1>1, <2>1, LinePrefix
  <2> HIDE DEF k
  <2>5. \A h \in 1 .. n - 1 : [height |-> h, sig |-> l[h]] \in db.blocks
    <3>1. \A h \in 1 .. n - 1 : h \in 1 .. Len(l) /\ h # Len(l)
      BY <1>1
    <3> QED  BY <3>1 DEF Reached
  <2>6. db.blocks = {[height |-> h, sig |-> k[h]] : h \in 1 .. Len(k)}
    <3>1. \A b \in db.blocks : b.height \in 1 .. n - 1
      BY <1>1, <1>2, <2>3 DEF HeightsBelow
    <3>2. \A h \in 1 .. Len(k) : [height |-> h, sig |-> k[h]] \in db.blocks
      BY <2>4, <2>5
    <3>3. \A b \in db.blocks : /\ b.height \in 1 .. Len(k)
                               /\ b = [height |-> b.height, sig |-> k[b.height]]
      BY <1>2, <2>4, <3>1
    <3> QED  BY <3>2, <3>3
  <2>7. trx.tables.blocks = {[height |-> h, sig |-> l[h]] : h \in 1 .. Len(l)}
    <3>1. \A h \in 1 .. Len(l) : h \in 1 .. n - 1 \/ h = n
      BY <1>1
    <3>2. \A h \in 1 .. Len(l) :
            [height |-> h, sig |-> l[h]] \in trx.tables.blocks
      BY <2>3, <2>5, <3>1
    <3>3. \A b \in trx.tables.blocks :
            \E h \in 1 .. Len(l) : b = [height |-> h, sig |-> l[h]]
      BY <1>2, <2>1, <2>3
    <3> QED  BY <3>2, <3>3
  <2> QED  BY <1>1, <2>1, <2>4, <2>6, <2>7 DEF Holds, k
<1> QED  BY <1>3, <1>4

(* So the database always holds a line and shows what is at its tip.       *)
LEMMA HeldLine ==
  ASSUME NoRateRefused, ReplicaInv
  PROVE  /\ Holds(store, db, Stored(db))
         /\ View(db) = Replica!ViewAfter(store, Stored(db))
<1>1. PICK l : Reached(store, db, trx, l)
  BY DEF ReplicaInv, BranchInv, BranchOK
<1>2. PICK k : Holds(store, db, k)
  BY <1>1, LineHeld DEF ReplicaInv
<1>3. Stored(db) = k
  BY <1>2, HeldIsStored
<1>4. /\ store \in Seq(Block) /\ Sound(db)
      /\ History(store, db.blocks, db)
  BY DEF ReplicaInv, BranchInv, JournalInv, IInv, TypeOK, SoundOK, Shown
<1>5. View(db) = Replica!ViewAfter(store, k)
  BY <1>2, <1>4, HeldIsShown
<1> QED  BY <1>2, <1>3, <1>5

(* The invariant.                                                          *)
LEMMA ReplicaInvInit == ASSUME NoRateRefused, Init PROVE ReplicaInv
<1>1. BranchInv
  BY BranchInvInit
<1>2. store = <<>> /\ db.blocks = {} /\ trx.sig = 0
  BY DEF Init, EmptyTables, NoTrx
<1>3. ContractOK(store) /\ Shown(store, db, trx)
  BY <1>2 DEF ContractOK, Shown, History
<1> QED  BY <1>1, <1>3 DEF ReplicaInv

LEMMA ReplicaInvNext ==
  ASSUME NoRateRefused, ReplicaInv, [Next]_vars PROVE ReplicaInv'
<1>1. JournalInv /\ BranchOK /\ IInv
  BY DEF ReplicaInv, BranchInv, JournalInv
<1>2. BranchInv'
  BY BranchInvNext DEF ReplicaInv
<1>3. ContractOK(store)'
  BY <1>1, ContractOKNext DEF ReplicaInv
<1>4. Shown(store, db, trx)'
  BY <1>1, ShownNext DEF ReplicaInv
<1> QED  BY <1>2, <1>3, <1>4 DEF ReplicaInv

(* The initial states are those of a replica that holds nothing.           *)
LEMMA ReplicaStarts == ASSUME NoRateRefused, Init PROVE Replica!Init
<1>1. ReplicaInv
  BY ReplicaInvInit
<1>2. store = <<>> /\ Holds(store, db, <<>>)
  BY EmptyLine DEF Init, EmptyTables, Holds
<1>3. Stored(db) = <<>>
  BY <1>2, HeldIsStored
<1>4. View(db) = Replica!ViewAfter(<<>>, <<>>)
  BY <1>1, <1>2, <1>3, HeldLine
<1> QED  BY <1>2, <1>3, <1>4 DEF Replica!Init

(* A commit appends the block of the transaction, mined on the tip.        *)
LEMMA CommitAppends ==
  ASSUME NoRateRefused, ReplicaInv, ReplicaInv', Commit
  PROVE  Replica!AppendBlock
<1>1. BranchInv /\ IInv
  BY DEF ReplicaInv, BranchInv, JournalInv
<1>2. PICK l : Reached(store, db, trx, l)
  BY <1>1 DEF BranchInv, BranchOK
<1>3. ~trx.aborted
  BY <1>2 DEF Reached
<1>4. /\ trx.sig # 0 /\ store' = store /\ db' = trx.tables
  BY <1>3 DEF Commit, node, InTrx
<1> DEFINE n == Len(l)
           k == SubSeq(l, 1, n - 1)
<1>5. /\ l # <<>> /\ l[n] = trx.sig
      /\ Holds(store, db, k) /\ Holds(store, trx.tables, l)
  BY <1>1, <1>2, <1>4, LineHeld
<1>6. Stored(db) = k /\ Stored(db') = l
  BY <1>4, <1>5, HeldIsStored
<1>7. /\ l \in Seq(Nat \ {0}) /\ n \in Nat \ {0} /\ n \in 1 .. n
      /\ trx.sig \in DOMAIN store
      /\ store[trx.sig].parent = IF n = 1 THEN 0 ELSE l[n - 1]
  <2>1. l \in Seq(Nat \ {0})
    BY <1>5 DEF Holds, GoodLine, Line
  <2>2. n \in Nat \ {0} /\ n \in 1 .. n
    BY <1>5, <2>1
  <2> QED  BY <1>5, <2>1, <2>2 DEF Holds, GoodLine, Line
<1>8. /\ l = Append(k, trx.sig)
      /\ store[trx.sig].parent = IF k = <<>> THEN 0 ELSE k[Len(k)]
  <2>1. k \in Seq(Nat \ {0}) /\ Len(k) = n - 1 /\ \A h \in 1 .. n - 1 : k[h] = l[h]
    <3>1. n - 1 \in 0 .. Len(l) /\ GoodLine(store, l)
      BY <1>5, <1>7 DEF Holds
    <3>2. Len(k) = n - 1 /\ \A h \in 1 .. n - 1 : k[h] = l[h]
      BY <3>1, LinePrefix
    <3> QED  BY <1>5, <3>2 DEF Holds, GoodLine, Line
  <2> HIDE DEF k
  <2>2. l = Append(k, trx.sig)
    <3> DEFINE m == Append(k, trx.sig)
    <3>1. /\ m \in Seq(Nat \ {0}) /\ Len(m) = n /\ m[n] = trx.sig
          /\ \A h \in 1 .. n - 1 : m[h] = k[h]
      <4>1. trx.sig \in Nat \ {0} /\ (n - 1) + 1 = n
        BY <1>5, <1>7
      <4> QED  BY <2>1, <4>1
    <3> HIDE DEF m
    <3>2. \A h \in 1 .. n : m[h] = l[h]
      <4>1. \A h \in 1 .. n : h \in 1 .. n - 1 \/ h = n
        BY <1>7
      <4> QED  BY <1>5, <2>1, <3>1, <4>1
    <3>3. m = [h \in 1 .. n |-> m[h]] /\ l = [h \in 1 .. n |-> l[h]]
      BY <1>7, <3>1
    <3>4. m = l
      BY <3>2, <3>3
    <3> QED  BY <3>4 DEF m
  <2>3. CASE n = 1
    <3>1. k = <<>>
      BY <2>1, <2>3
    <3> QED  BY <1>7, <2>2, <2>3, <3>1
  <2>4. CASE n # 1
    <3>1. k # <<>> /\ Len(k) = n - 1 /\ n - 1 \in 1 .. n - 1
      BY <1>7, <2>1, <2>4
    <3> QED  BY <1>7, <2>1, <2>2, <2>4, <3>1
  <2> QED  BY <2>3, <2>4
<1> HIDE DEF k
<1>9. View(db)' = Replica!ViewAfter(store, l)
  <2>1. View(db') = Replica!ViewAfter(store', Stored(db'))
    <3>1. (View(db) = Replica!ViewAfter(store, Stored(db)))'
      BY HeldLine, PTL
    <3> QED  BY <3>1
  <2> QED  BY <1>4, <1>6, <2>1
<1> QED  BY <1>4, <1>6, <1>7, <1>8, <1>9 DEF Replica!AppendBlock, Replica!Tip

(* A rollback drops blocks from the end, if any.                           *)
LEMMA DeletesDrop ==
  ASSUME NoRateRefused, ReplicaInv, ReplicaInv', Deletes
  PROVE  Replica!DropBlocks \/ UNCHANGED Replica!vars
<1>1. PICK h \in Nat : db' = DeleteFrom(db, h)
  BY DEF Deletes
<1>2. store' = store /\ Sound(db)
  BY DEF Deletes, ReplicaInv, BranchInv, JournalInv, SoundOK
<1>3. PICK l : l = Stored(db) /\ Holds(store, db, l)
               /\ View(db) = Replica!ViewAfter(store, l)
  BY HeldLine
<1>4. l \in Seq(Nat \ {0}) /\ Len(l) \in Nat /\ GoodLine(store, l)
  BY <1>3 DEF Holds, GoodLine, Line
<1>5. PICK n \in 0 .. Len(l) : \A g \in 1 .. Len(l) : g < h <=> g <= n
  <2>1. CASE h = 0
    <3>1. \A g \in 1 .. Len(l) : g < h <=> g <= 0
      BY <2>1
    <3>2. 0 \in 0 .. Len(l)
      BY <1>4
    <3> QED  BY <3>1, <3>2
  <2>2. CASE h > Len(l)
    <3>1. \A g \in 1 .. Len(l) : g < h <=> g <= Len(l)
      BY <1>4, <2>2
    <3>2. Len(l) \in 0 .. Len(l)
      BY <1>4
    <3> QED  BY <3>1, <3>2
  <2>3. CASE h # 0 /\ ~(h > Len(l))
    <3>1. h - 1 \in 0 .. Len(l) /\ \A g \in 1 .. Len(l) : g < h <=> g <= h - 1
      BY <1>4, <2>3
    <3> QED  BY <3>1
  <2> QED  BY <2>1, <2>2, <2>3
<1> DEFINE k == SubSeq(l, 1, n)
<1>6. GoodLine(store, k) /\ Len(k) = n /\ \A g \in 1 .. n : k[g] = l[g]
  BY <1>4, LinePrefix
<1> HIDE DEF k
<1>7. db'.blocks = {b \in db.blocks : b.height < h}
  BY <1>1, <1>2, DeleteFromSound
<1>8. db'.blocks = {[height |-> g, sig |-> k[g]] : g \in 1 .. n}
  <2>1. \A g \in 1 .. n : g \in 1 .. Len(l) /\ g <= n
    BY <1>4
  <2>2. \A g \in 1 .. Len(l) : g <= n => g \in 1 .. n
    BY <1>4
  <2> DEFINE row(g) == [height |-> g, sig |-> l[g]]
  <2>3. \A g : row(g).height = g
    OBVIOUS
  <2>4. db.blocks = {row(g) : g \in 1 .. Len(l)}
    BY <1>3 DEF Holds
  <2>5. \A g \in 1 .. n : row(g) = [height |-> g, sig |-> k[g]]
    BY <1>6
  <2> HIDE DEF row
  <2>6. db'.blocks = {row(g) : g \in 1 .. n}
    BY <1>5, <1>7, <2>1, <2>2, <2>3, <2>4
  <2> QED  BY <2>5, <2>6
<1>9. Holds(store, db', k)
  BY <1>6, <1>8 DEF Holds
<1>10. Stored(db') = k
  BY <1>9, HeldIsStored
<1>11. View(db') = Replica!ViewAfter(store, k)
  <2>1. (View(db) = Replica!ViewAfter(store, Stored(db)))'
    BY HeldLine, PTL
  <2> QED  BY <1>2, <1>10, <2>1
<1>12. CASE n = Len(l)
  <2>1. k = l
    <3>1. l = [g \in 1 .. Len(l) |-> l[g]] /\ k = [g \in 1 .. Len(k) |-> k[g]]
      BY <1>4, <1>6 DEF GoodLine, Line
    <3> QED  BY <1>6, <1>12, <3>1
  <2> QED  BY <1>2, <1>3, <1>10, <1>11, <2>1 DEF Replica!vars
<1>13. CASE n # Len(l)
  <2>1. n \in 0 .. Len(l) - 1
    BY <1>4, <1>13
  <2> QED  BY <1>2, <1>3, <1>10, <1>11, <2>1 DEF Replica!DropBlocks, k
<1> QED  BY <1>12, <1>13

(* Every step of the listener and of the node is one of the replica, or    *)
(* changes nothing that its readers see.                                   *)
LEMMA ReplicaStep ==
  ASSUME NoRateRefused, ReplicaInv, ReplicaInv', [Next]_vars
  PROVE  [Replica!Next]_(Replica!vars)
<1>1. JournalInv /\ IInv /\ SentOK /\ CallsOK
  BY DEF ReplicaInv, BranchInv, JournalInv
<1>2. CASE Mine
  <2>1. db' = db
    BY <1>2 DEF Mine
  <2>2. Len(store') = Len(store) + 1 /\ \A s \in DOMAIN store : store'[s] = store[s]
    <3>1. PICK b : store' = Append(store, b)
      BY <1>2 DEF Mine
    <3>2. store \in Seq(Block)
      BY <1>1 DEF IInv, TypeOK
    <3> QED  BY <1>1, <3>1, <3>2, StoreGrows
  <2> QED  BY <2>1, <2>2 DEF Replica!Next, Replica!Mined
<1>3. CASE store' = store /\ db' = db
  BY <1>3 DEF Replica!vars
<1>4. CASE Deletes
  BY <1>4, DeletesDrop DEF Replica!Next
<1>5. CASE Commit
  BY <1>5, CommitAppends DEF Replica!Next
<1>6. CASE Quiet \/ Leaves \/ BeginBlock \/ LogsCall
  <2>1. db' = db
    BY <1>6 DEF Quiet, Leaves, BeginBlock, LogsCall
  <2> QED  BY <1>1, <1>2, <1>3, <2>1, StoreGrows
<1> QED  BY <1>1, <1>4, <1>5, <1>6, Shapes

(* Where every rate is stored, the listener implements the replica: what   *)
(* readers see is always what the contract held after the last stored      *)
(* block, and the stored blocks change by whole blocks at their end, each  *)
(* mined on the one before.  Crashes, forks and replays are all included.  *)
THEOREM ListenerImplementsReplica ==
  ASSUME NoRateRefused PROVE Spec => ImplementsReplica
<1>1. Init => ReplicaInv /\ Replica!Init
  BY ReplicaInvInit, ReplicaStarts
<1>2. ReplicaInv /\ [Next]_vars => ReplicaInv'
  BY ReplicaInvNext
<1>3. ReplicaInv /\ ReplicaInv' /\ [Next]_vars => [Replica!Next]_(Replica!vars)
  BY ReplicaStep
<1> QED  BY <1>1, <1>2, <1>3, PTL DEF Spec, ImplementsReplica, Replica!Spec

-----------------------------------------------------------------------------
(* A close pays the vault of its request.                                  *)

(* What the answer to the call of row, in the block with signature sig,    *)
(* pays.                                                                   *)
Pays(st, S, row, sig) ==
    \A i \in DOMAIN st[sig].calls :
      st[sig].calls[i].req.id = row.request =>
        LET v == StateAt(st, sig, i).vaults[row.address] IN
        \A s \in S : s.id = row.tx =>
          s.west = Monus(v.west, CloseFee) /\ s.rwa = v.rwa

Paid(st, S, t) ==
    \A row \in t.txs : row.type = "close_init" =>
      /\ row.status = "init"
      /\ \A b \in t.blocks : b.height = row.height => Pays(st, S, row, b.sig)

PaidInv == Paid(store, sent, db) /\ Paid(store, sent, trx.tables)

(* Later blocks and later answers change nothing about it.                 *)
LEMMA PaidStays ==
  ASSUME ReplicaInv, [Next]_vars, NEW t \in Visible, Paid(store, sent, t)
  PROVE  Paid(store', sent', t)
<1>1. IInv /\ SentOK /\ CallsOK /\ SentInv
  BY DEF ReplicaInv, BranchInv, JournalInv
<1>2. /\ \A s \in DOMAIN store : s \in DOMAIN store' /\ store'[s] = store[s]
      /\ 0 \notin DOMAIN store /\ ContractOK(store)
  BY <1>1, StoreGrows DEF IInv, TypeOK, ReplicaInv
<1> PICK st : st = store'
  OBVIOUS
<1> PICK S : S = sent'
  OBVIOUS
<1>3. ASSUME NEW b \in t.blocks
      PROVE  /\ st[b.sig] = store[b.sig]
             /\ \A i : StateAt(st, b.sig, i) = StateAt(store, b.sig, i)
  <2>1. b.sig \in DOMAIN store
    BY <1>1 DEF IInv, SigsOK
  <2> QED  BY <1>2, <2>1, StateAtGrows
<1>4. ASSUME NEW row \in t.txs, row.status = "init", NEW s \in S, s.id = row.tx
      PROVE  s \in sent
  <2> SUFFICES ASSUME s \notin sent PROVE FALSE
    OBVIOUS
  <2>1. CallsLeft /\ CurrentReq.type \in Answered /\ s.id = AnswerId(CurrentReq)
    <3>1. PICK type \in ServiceTypes : \E a, west, rwa :
            sent' = sent \cup {Answer(CurrentReq, type, a, west, rwa)}
      BY <1>1, SentStep
    <3>2. PICK a, west, rwa :
            sent' = sent \cup {Answer(CurrentReq, type, a, west, rwa)}
      BY <3>1
    <3>3. s = Answer(CurrentReq, type, a, west, rwa)
      BY <3>2
    <3> QED  BY <1>1, <3>3, SentStep DEF Answer
  <2>2. CurrentReq \in Requests
    BY <1>1, <2>1, CurrentOffered DEF Answered, ServiceTypes
  <2>3. PICK q \in sent : q.id = row.tx
    BY <1>1, <1>4 DEF SentInv, RowsSent, Visible
  <2> QED  BY <1>1, <1>4, <2>1, <2>2, <2>3, AnswerIdFresh
<1>5. Paid(st, S, t)
  <2> SUFFICES ASSUME NEW row \in t.txs, row.type = "close_init"
               PROVE  /\ row.status = "init"
                      /\ \A b \in t.blocks :
                           b.height = row.height => Pays(st, S, row, b.sig)
    BY DEF Paid
  <2>1. /\ row.status = "init"
        /\ \A b \in t.blocks :
             b.height = row.height => Pays(store, sent, row, b.sig)
    BY DEF Paid
  <2>2. ASSUME NEW b \in t.blocks, Pays(store, sent, row, b.sig)
        PROVE  Pays(st, S, row, b.sig)
    BY <1>3, <1>4, <2>1, <2>2 DEF Pays
  <2> QED  BY <2>1, <2>2
<1> QED  BY <1>5

(* Only InitClose files a close request.                                   *)
LEMMA CloseInitHandled ==
  ASSUME IInv, SentOK, CallsOK, [Next]_vars, LogsCall,
         CurrentReq.type = "close_init"
  PROVE  InitClose
<1>1. /\ CallsLeft /\ InTrx /\ trx.next \in Nat
      /\ trx'.sig = trx.sig /\ trx'.next = trx.next + 1
  BY DEF LogsCall, CallsLeft, IInv, TypeOK
<1>2. trx' # trx /\ trx' # NoTrx
  BY <1>1 DEF NoTrx, InTrx
<1>3. HandleCall
  BY <1>1, <1>2 DEF Next, Listen, Mine, Fork, Start, Connect, RollbackLastBlock,
     ExitNoContract, Exit, BeginBlock, HeadIs, Commit, RollbackToBlockSignature,
     RollbackThrows, Crash, vars
<1>4. ~HandlerThrows
  BY <1>2 DEF HandlerThrows, Exit
<1> QED
  BY <1>3, <1>4 DEF HandleCall, SkipCall, SaveOracle, ReceiveTypicalTx, Close,
     Transfer, ClaimDeclined, ClaimPaid, Liquidate, Handles, JournalTypes,
     VaultTypes

(* The request is answered with what the tables show, which is what the    *)
(* contract held when it ran the request.                                  *)
LEMMA InitClosePays ==
  ASSUME ReplicaInv, PaidInv, [Next]_vars, InitClose
  PROVE  PaidInv'
<1>1. IInv /\ SentOK /\ CallsOK /\ SoundOK /\ TrxAbove
  BY DEF ReplicaInv, BranchInv, JournalInv
<1> DEFINE r      == CurrentReq
           t      == trx.tables
           answer == CloseAnswer(r)
           v      == The(CurrentVault(t, r.sender)).vault
           row    == RequestRow(t, r, answer.id, "init", Height)
<1>2. /\ CallsLeft /\ r.type = "close_init" /\ ~Throws(r)
      /\ sent' = sent \cup {answer}
      /\ Advance(InsertTx(t, row), {Pending(answer)})
  BY DEF InitClose, Handles
<1>3. /\ trx'.tables = InsertTx(t, row) /\ store' = store /\ db' = db
  BY <1>1, <1>2, AdvanceFields
<1>4. r \in Requests /\ r.sender \in Addr
  <2>1. r \in Requests /\ r \in Request
    BY <1>1, <1>2, CurrentOffered DEF ServiceTypes
  <2> QED  BY <1>2, <2>1, ClientIsUser DEF ServiceTypes
<1>5. CurrentVault(t, r.sender) # {}
  BY <1>2 DEF Throws, NoVaultRow
<1>6. v = VaultView(t, r.sender)
  BY <1>5 DEF VaultView
<1>7. v = StateAt(store, trx.sig, trx.next).vaults[r.sender]
  BY <1>2, <1>4, <1>6 DEF ReplicaInv, Shown, Shows, CallsLeft, InTrx
<1>8. /\ answer.id = AnswerId(r) /\ answer.west = Monus(v.west, CloseFee)
      /\ answer.rwa = v.rwa
  BY DEF CloseAnswer, Answer
<1>9. /\ row.type = "close_init" /\ row.status = "init" /\ row.tx = answer.id
      /\ row.request = r.id /\ row.address = r.sender /\ row.height = Height
  BY <1>2 DEF RequestRow
<1>10. /\ trx'.tables.txs = t.txs \cup {row} /\ trx'.tables.blocks = t.blocks
  <2>1. t \in Tables
    BY <1>1 DEF IInv, TypeOK
  <2> HIDE DEF row
  <2> QED  BY <1>3, <2>1 DEF InsertTx, Tables
<1>11. Paid(store, sent', db) /\ Paid(store, sent', t)
  <2>1. \A u \in Visible : Paid(store, sent, u) => Paid(store', sent', u)
    BY PaidStays
  <2> QED  BY <1>3, <2>1 DEF PaidInv, Visible
<1> PICK S : S = sent'
  OBVIOUS
<1>12. \A s \in S : s.id = row.tx => s = answer
  <2>1. \A s \in sent : s.id # AnswerId(r)
    BY <1>1, <1>4, AnswerIdFresh
  <2> HIDE DEF answer, row, r
  <2> QED  BY <1>2, <1>8, <1>9, <2>1
<1>13. Pays(store, S, row, trx.sig)
  <2>1. \A i \in DOMAIN store[trx.sig].calls :
          store[trx.sig].calls[i].req.id = r.id => i = trx.next
    <3>1. /\ trx.sig \in DOMAIN store /\ trx.next \in Nat \ {0}
          /\ trx.next <= Len(store[trx.sig].calls) /\ store \in Seq(Block)
      BY <1>1, <1>2 DEF CallsLeft, IInv, TypeOK, TrxOK
    <3>2. store[trx.sig] \in Block
      BY <3>1
    <3>3. store[trx.sig].calls \in Seq(Call)
      BY <3>2 DEF Block
    <3>4. trx.next \in DOMAIN store[trx.sig].calls
      BY <3>1, <3>3
    <3> QED  BY <1>1, <3>1, <3>4 DEF CallsOK, CallsFrom, CurrentReq, Current
  <2> HIDE DEF answer, row, r, v
  <2> QED  BY <1>7, <1>8, <1>9, <1>12, <2>1 DEF Pays
<1>14. ASSUME NEW b \in t.blocks, b.height = row.height PROVE b.sig = trx.sig
  <2>1. t.blocks = db.blocks \cup {[height |-> Height, sig |-> trx.sig]}
        /\ HeightsBelow(db, Height) /\ db.blocks \subseteq BlockRow
    BY <1>1, <1>2, TablesFields DEF TrxAbove, CallsLeft, IInv, TypeOK
  <2>2. b \notin db.blocks
    BY <1>9, <1>14, <2>1 DEF HeightsBelow, BlockRow
  <2> QED  BY <2>1, <2>2
<1> HIDE DEF answer, row, r, v, t
<1> PICK T : T = trx'.tables
  OBVIOUS
<1>15. Paid(store, S, T)
  BY <1>9, <1>10, <1>11, <1>13, <1>14 DEF Paid
<1> QED  BY <1>3, <1>11, <1>15 DEF PaidInv

(* The other entries are of other calls.                                   *)
LEMMA EntriesType == \A r, h : \A e \in Entries(r, h) : e[3] = r.type
<1> SUFFICES ASSUME NEW r, NEW h, NEW e \in Entries(r, h) PROVE e[3] = r.type
  OBVIOUS
<1>1. CASE r.type \in VaultTypes \cup {"close", "liquidate"}
  BY <1>1 DEF Entries
<1>2. CASE r.type = "transfer"
  BY <1>2 DEF Entries, VaultTypes
<1>3. CASE r.type \in {"close_init", "claim_overpay_init"}
  BY <1>3 DEF Entries, VaultTypes
<1> QED  BY <1>1, <1>2, <1>3 DEF Entries

LEMMA LogsCallPaid ==
  ASSUME ReplicaInv, PaidInv, [Next]_vars, LogsCall PROVE PaidInv'
<1>1. IInv /\ SentOK /\ CallsOK /\ SoundOK
  BY DEF ReplicaInv, BranchInv, JournalInv
<1>2. \A u \in Visible : Paid(store, sent, u) => Paid(store', sent', u)
  BY PaidStays
<1>3. store' = store /\ db' = db /\ CallsLeft
  BY DEF LogsCall
<1>4. CASE CurrentReq.type = "close_init"
  BY <1>1, <1>4, CloseInitHandled, InitClosePays
<1>5. CASE CurrentReq.type # "close_init"
  <2>1. CASE trx'.tables = trx.tables
    BY <1>2, <1>3, <2>1 DEF PaidInv, Visible
  <2>2. ASSUME NEW tx, NEW status,
               Logs(trx.tables, db, Current, Height, tx, status, trx'.tables)
        PROVE  PaidInv'
    <3>1. PICK N : /\ trx'.tables.txs = trx.tables.txs \cup N
                   /\ RowsOf(N, CurrentReq, Height, tx, status)
                   /\ trx'.tables.blocks = trx.tables.blocks
      BY <1>1, <1>3, <2>2, CurrentHandled, LogsEffect DEF SoundOK, CurrentReq
    <3>2. ASSUME NEW x \in N PROVE x.type # "close_init"
      <4>1. KeyOf(x) \in Entries(CurrentReq, Height)
        BY <3>1 DEF RowsOf
      <4>2. KeyOf(x)[3] = x.type
        BY DEF KeyOf
      <4> QED  BY <1>5, <4>1, <4>2, EntriesType
    <3> PICK T, S : T = trx'.tables /\ S = sent'
      OBVIOUS
    <3>3. Paid(store, S, trx.tables) /\ Paid(store, S, db)
      BY <1>2, <1>3 DEF PaidInv, Visible
    <3>4. Paid(store, S, T)
      BY <3>1, <3>2, <3>3 DEF Paid
    <3> QED  BY <1>3, <3>3, <3>4 DEF PaidInv
  <2> QED  BY <2>1, <2>2 DEF LogsCall
<1> QED  BY <1>4, <1>5

LEMMA PaidInvNext ==
  ASSUME NoRateRefused, ReplicaInv, PaidInv, [Next]_vars PROVE PaidInv'
<1>1. IInv /\ SentOK /\ CallsOK /\ SoundOK /\ BranchOK
  BY DEF ReplicaInv, BranchInv, JournalInv
<1>2. \A u \in Visible : Paid(store, sent, u) => Paid(store', sent', u)
  BY PaidStays
<1>3. Paid(store', sent', db) /\ Paid(store', sent', trx.tables)
  BY <1>2 DEF PaidInv, Visible
<1> PICK st, S : st = store' /\ S = sent'
  OBVIOUS
<1>4. Paid(st, S, EmptyTables)
  BY DEF Paid, EmptyTables
<1>5. CASE Quiet
  BY <1>3, <1>5 DEF Quiet, PaidInv
<1>6. CASE Leaves
  <2>1. db' = db /\ trx'.tables = EmptyTables
    BY <1>6 DEF Leaves, Exit, NoTrx
  <2> QED  BY <1>3, <1>4, <2>1 DEF PaidInv
<1>7. CASE Deletes
  <2>1. PICK h \in Nat : db' = DeleteFrom(db, h)
    BY <1>7 DEF Deletes
  <2> DEFINE u == DeleteFrom(db, h)
  <2>2. u.txs \subseteq db.txs /\ u.blocks \subseteq db.blocks
    BY <1>1, DeleteFromSound DEF SoundOK
  <2> HIDE DEF u
  <2>3. Paid(st, S, u)
    BY <1>3, <2>2 DEF Paid
  <2>4. trx' = trx
    BY <1>7 DEF Deletes
  <2> QED  BY <1>3, <2>1, <2>3, <2>4 DEF PaidInv, u
<1>8. CASE BeginBlock
  <2>1. PICK h, sig : /\ trx'.tables = SaveBlock(db, h, sig) /\ db' = db
                      /\ HeightsBelow(db, h)
    BY <1>1, <1>8, BeginFacts
  <2> PICK T : T = trx'.tables
    OBVIOUS
  <2>2. T.txs = db.txs /\ T.blocks = db.blocks \cup {[height |-> h, sig |-> sig]}
    BY <1>1, <2>1 DEF SaveBlock, IInv, TypeOK, Tables
  <2>3. \A row \in db.txs : \A b \in T.blocks :
          b.height = row.height => b \in db.blocks
    <3>1. \A row \in db.txs : row.height # h
      <4>1. db.blocks \subseteq BlockRow
        BY <1>1, TablesFields DEF IInv, TypeOK
      <4>2. \A b \in db.blocks : b.height # h
        BY <2>1, <4>1 DEF HeightsBelow, BlockRow
      <4> QED  BY <1>1, <4>2 DEF SoundOK, Sound, Good, Ordered
    <3> QED  BY <2>2, <3>1
  <2>4. Paid(st, S, T)
    BY <1>3, <2>2, <2>3 DEF Paid
  <2> QED  BY <1>3, <2>1, <2>4 DEF PaidInv
<1>9. CASE Commit
  <2>1. ~trx.aborted
    BY <1>1 DEF BranchOK, Reached
  <2>2. db' = trx.tables /\ trx'.tables = EmptyTables
    BY <1>9, <2>1 DEF Commit, NoTrx
  <2> QED  BY <1>3, <1>4, <2>2 DEF PaidInv
<1> QED  BY <1>1, <1>5, <1>6, <1>7, <1>8, <1>9, LogsCallPaid, Shapes

(* Where every rate is stored, a close pays out the vault as it was when   *)
(* the contract ran the request: not as it was at the start of the block,  *)
(* before a rollback, or at the tip of the node.                           *)
THEOREM ClosesPayTheVault ==
  ASSUME NoRateRefused PROVE Spec => []ClosePaysTheVault
<1>1. Init => ReplicaInv /\ PaidInv
  <2>1. Init => Paid(store, sent, db) /\ Paid(store, sent, trx.tables)
    BY DEF Init, Paid, EmptyTables, NoTrx
  <2> QED  BY <2>1, ReplicaInvInit DEF PaidInv
<1>2. ReplicaInv /\ PaidInv /\ [Next]_vars => ReplicaInv' /\ PaidInv'
  BY ReplicaInvNext, PaidInvNext
<1>3. ReplicaInv /\ PaidInv => ClosePaysTheVault
  <2> SUFFICES ASSUME ReplicaInv, PaidInv, NEW row \in db.txs,
                      row.type = "close_init",
                      NEW i \in DOMAIN store[SigAt(db, row.height)].calls,
                      store[SigAt(db, row.height)].calls[i].req.id = row.request
               PROVE  LET v == StateBefore(SigAt(db, row.height), i).vaults[row.address]
                      IN  \A s \in sent : s.id = row.tx =>
                            s.west = Monus(v.west, CloseFee) /\ s.rwa = v.rwa
    BY DEF ClosePaysTheVault
  <2>1. \E b \in db.blocks : b.height = row.height
    BY DEF ReplicaInv, BranchInv, JournalInv, SoundOK, Sound, Good, Ordered
  <2>2. PICK b \in db.blocks : b.height = row.height /\ SigAt(db, row.height) = b.sig
    BY <2>1 DEF SigAt
  <2>3. Pays(store, sent, row, b.sig)
    BY <2>2 DEF PaidInv, Paid
  <2>4. StateBefore(b.sig, i) = StateAt(store, b.sig, i)
    BY DEF StateBefore, StateAt
  <2> QED  BY <2>2, <2>3, <2>4 DEF Pays
<1> QED  BY <1>1, <1>2, <1>3, PTL DEF Spec
=============================================================================
