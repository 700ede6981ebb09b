------------------------- MODULE CatalogImportProofs -------------------------
(***************************************************************************)
(* For any batches, files, requests and first catalog: what an import       *)
(* keeps of the catalog, and what the records of its batches tell.          *)
(***************************************************************************)
EXTENDS CatalogImport, FiniteSetTheorems, SequenceTheorems, WellFoundedInduction, TLAPS

-----------------------------------------------------------------------------
(* Every set of natural numbers has a least element.                        *)
LEMMA Least == ASSUME NEW S \in SUBSET Nat, S # {} PROVE \E n \in S : \A m \in S : n <= m
<1> DEFINE T == {1..n : n \in S}
<1>1. T \subseteq FiniteSubsetsOf(Nat) /\ T # {}
  <2>1. \A n \in S : IsFiniteSet(1..n) /\ 1..n \in SUBSET Nat
    BY FS_Interval
  <2> QED
    BY <2>1 DEF FiniteSubsetsOf
<1>2. IsWellFoundedOn(StrictSubsetOrdering(Nat), FiniteSubsetsOf(Nat))
  BY FS_StrictSubsetOrderingWellFounded
<1>3. PICK x \in T : \A y \in T : ~(<<y, x>> \in StrictSubsetOrdering(Nat))
  <2> HIDE DEF T
  <2> QED
    BY <1>1, <1>2, WFMin
<1>4. PICK n \in S : x = 1..n
  OBVIOUS
<1>5. ASSUME NEW m \in S, m < n PROVE FALSE
  <2>1. 1..m \in T /\ 1..m \subseteq x /\ n \in x /\ n \notin 1..m
    BY <1>4, <1>5
  <2>2. <<1..m, x>> \in StrictSubsetOrdering(Nat)
    BY <2>1, <1>4 DEF StrictSubsetOrdering
  <2> QED
    BY <1>3, <2>1, <2>2
<1> QED
  BY <1>5

(* What holds of no row and of one more row each time holds of all rows.    *)
LEMMA RowByRow ==
    ASSUME NEW N \in Nat, NEW S, 0 \in S, \A n \in 1..N : n - 1 \in S => n \in S
    PROVE  \A n \in 0..N : n \in S
<1> DEFINE bad == {n \in 0..N : n \notin S}
<1> SUFFICES ASSUME bad # {} PROVE FALSE
  OBVIOUS
<1>1. PICK n \in bad : \A m \in bad : n <= m
  <2>1. bad \in SUBSET Nat
    OBVIOUS
  <2> HIDE DEF bad
  <2> QED
    BY <2>1, Least
<1>2. n \in 1..N /\ n - 1 \in 0..N /\ ~(n <= n - 1)
  BY <1>1
<1> QED
  BY <1>1, <1>2

(* The catalog after each row of a batch comes of the one before.           *)
LEMMA AfterRowsFollow ==
    ASSUME NEW b, Len(Rows(b)) \in Nat
    PROVE  /\ AfterRows(b)[0] = catalog
           /\ \A n \in 1..Len(Rows(b)) :
                AfterRows(b)[n] =
                    IF Rows(b)[n].action = "SKIP" THEN AfterRows(b)[n - 1]
                    ELSE CommitRow(AfterRows(b)[n - 1], Entity(b), Records(b)[n], Rows(b)[n], b)
<1> DEFINE step(c, n) == IF Rows(b)[n].action = "SKIP" THEN c
                         ELSE CommitRow(c, Entity(b), Records(b)[n], Rows(b)[n], b)
           is(g, m) == g = [n \in 0..m |-> IF n = 0 THEN catalog ELSE step(g[n - 1], n)]
           reach == {m \in Nat : \E g : is(g, m)}
<1>1. is([n \in 0..0 |-> catalog], 0)
  <2> HIDE DEF step
  <2> QED
    OBVIOUS
<1>2. ASSUME NEW m \in Nat \ {0}, NEW g, is(g, m - 1)
      PROVE  \E h : is(h, m)
  <2> HIDE DEF step
  <2> DEFINE h == [n \in 0..m |-> IF n = m THEN step(g[m - 1], m) ELSE g[n]]
  <2>1. ASSUME NEW n \in 0..m PROVE h[n] = IF n = 0 THEN catalog ELSE step(h[n - 1], n)
    <3>1. CASE n = m
      <4>1. n # 0 /\ n - 1 \in 0..m /\ n - 1 # m
        BY <3>1
      <4> QED
        BY <3>1, <4>1
    <3>2. CASE n # m /\ n # 0
      <4>1. n \in 0..(m - 1) /\ n - 1 \in 0..m /\ n - 1 # m
        BY <3>2
      <4>2. h[n] = g[n] /\ h[n - 1] = g[n - 1]
        BY <3>2, <4>1
      <4>3. g[n] = step(g[n - 1], n)
        BY <1>2, <3>2, <4>1
      <4> QED
        BY <3>2, <4>2, <4>3
    <3>3. CASE n # m /\ n = 0
      <4>1. 0 \in 0..(m - 1)
        OBVIOUS
      <4> QED
        BY <1>2, <3>3, <4>1
    <3> QED
      BY <3>1, <3>2, <3>3
  <2> QED
    BY <2>1
<1>3. Len(Rows(b)) \in reach
  <2> DEFINE N == Len(Rows(b))
  <2>1. 0 \in reach
    BY <1>1
  <2>2. \A m \in 1..Len(Rows(b)) : m - 1 \in reach => m \in reach
    <3> HIDE DEF is
    <3> QED
      BY <1>2
  <2>3. N \in Nat /\ N \in 0..N
    OBVIOUS
  <2> HIDE DEF reach, N
  <2>4. \A m \in 1..N : m - 1 \in reach => m \in reach
    BY <2>2 DEF N
  <2>5. \A m \in 0..N : m \in reach
    BY <2>1, <2>3, <2>4, RowByRow
  <2> QED
    BY <2>3, <2>5 DEF N
<1>4. AfterRows(b) = CHOOSE g : is(g, Len(Rows(b)))
  BY DEF AfterRows
<1>5. is(AfterRows(b), Len(Rows(b)))
  <2> HIDE DEF is
  <2> QED
    BY <1>3, <1>4
<1> HIDE DEF step
<1>6. /\ AfterRows(b)[0] = catalog
      /\ \A n \in 1..Len(Rows(b)) : AfterRows(b)[n] = step(AfterRows(b)[n - 1], n)
  BY <1>5
<1> QED
  BY <1>6 DEF step

-----------------------------------------------------------------------------
(* A table with one row more, and with one row changed.                     *)
LEMMA Longer ==
    ASSUME NEW s, s \in Seq(Range(s)), NEW e
    PROVE  /\ Append(s, e) \in Seq(Range(Append(s, e)))
           /\ DOMAIN Append(s, e) = 1..(Len(s) + 1) /\ DOMAIN s = 1..Len(s) /\ Len(s) \in Nat
           /\ Append(s, e)[Len(s) + 1] = e
           /\ \A i \in DOMAIN s : Append(s, e)[i] = s[i] /\ i \in DOMAIN Append(s, e)
           /\ Range(Append(s, e)) = Range(s) \cup {e}
<1> DEFINE S == Range(s) \cup {e}
           t == Append(s, e)
<1>1. s \in Seq(S) /\ e \in S
  OBVIOUS
<1>2. t \in Seq(S) /\ Len(t) = Len(s) + 1 /\ Len(s) \in Nat /\ DOMAIN t = 1..(Len(s) + 1) /\ DOMAIN s = 1..Len(s)
  <2> HIDE DEF S
  <2> QED
    BY <1>1
<1>3. t[Len(s) + 1] = e /\ \A i \in DOMAIN s : t[i] = s[i] /\ i \in DOMAIN t
  <2> HIDE DEF S
  <2> QED
    BY <1>1, <1>2
<1>4. Range(t) = S
  <2>1. \A i \in DOMAIN t : i \in DOMAIN s \/ i = Len(s) + 1
    BY <1>2
  <2>2. Len(s) + 1 \in DOMAIN t
    BY <1>2
  <2> HIDE DEF t
  <2> QED
    BY <1>3, <2>1, <2>2 DEF Range
<1> QED
  BY <1>2, <1>3, <1>4

LEMMA Changed ==
    ASSUME NEW s, s \in Seq(Range(s)), NEW k \in DOMAIN s, NEW e
    PROVE  LET t == [s EXCEPT ![k] = e]
           IN  /\ t \in Seq(Range(t)) /\ DOMAIN t = DOMAIN s
               /\ \A i \in DOMAIN s : t[i] = IF i = k THEN e ELSE s[i]
<1> DEFINE S == Range(s) \cup {e}
           t == [s EXCEPT ![k] = e]
<1>1. s \in Seq(S) /\ e \in S
  OBVIOUS
<1>2. t \in Seq(S) /\ DOMAIN t = DOMAIN s /\ \A i \in DOMAIN s : t[i] = IF i = k THEN e ELSE s[i]
  <2> HIDE DEF S
  <2> QED
    BY <1>1
<1>3. Len(t) \in Nat /\ DOMAIN t = 1..Len(t) /\ t \in [1..Len(t) -> S]
  <2> HIDE DEF S, t
  <2> QED
    BY <1>2
<1>4. t \in [1..Len(t) -> Range(t)]
  <2> HIDE DEF t
  <2> QED
    BY <1>3 DEF Range
<1>5. t \in Seq(Range(t))
  <2> DEFINE R == Range(t)
  <2> HIDE DEF t, R
  <2>1. t \in [1..Len(t) -> R]
    BY <1>4 DEF R
  <2>2. t \in Seq(R)
    BY <1>3, <2>1
  <2> QED
    BY <2>2 DEF R
<1> QED
  BY <1>2, <1>5

(* A catalog one table of which is replaced.                                *)
With(cat, t, s) == [cat EXCEPT ![t] = s]

LEMMA Replaced ==
    ASSUME NEW cat, IsCatalog(cat), NEW t \in Tables, NEW s, s \in Seq(Range(s)),
           t = "offers" => \A o \in DOMAIN s : DOMAIN s[o] = OfferColumns
    PROVE  /\ IsCatalog(With(cat, t, s)) /\ With(cat, t, s)[t] = s
           /\ \A u \in Tables \ {t} : With(cat, t, s)[u] = cat[u]
<1> DEFINE n == With(cat, t, s)
<1>1. DOMAIN cat = Tables
  BY DEF IsCatalog
<1>2. DOMAIN n = Tables /\ n[t] = s /\ \A u \in Tables \ {t} : n[u] = cat[u]
  BY <1>1, Zenon DEF With
<1>3. \A u \in Tables : n[u] \in Seq(Range(n[u]))
  BY <1>2, Zenon DEF IsCatalog
<1>4. \A o \in DOMAIN n["offers"] : DOMAIN n["offers"][o] = OfferColumns
  BY <1>2, Zenon DEF IsCatalog, Tables
<1> HIDE DEF n
<1>5. IsCatalog(n)
  BY <1>2, <1>3, <1>4, Zenon DEF IsCatalog
<1> QED
  BY <1>2, <1>5 DEF n

-----------------------------------------------------------------------------
(* What is in a catalog stays, although offers and products are updated.    *)
Grows(old, new) ==
    /\ IsCatalog(new)
    /\ DOMAIN old.products \subseteq DOMAIN new.products
    /\ \A i \in DOMAIN old.stores : i \in DOMAIN new.stores /\ new.stores[i] = old.stores[i]
    /\ \A o \in DOMAIN old.offers :
          /\ o \in DOMAIN new.offers
          /\ new.offers[o].store = old.offers[o].store /\ new.offers[o].sku = old.offers[o].sku

LEMMA GrowsOn ==
    ASSUME NEW a, NEW b, NEW c, Grows(a, b), Grows(b, c)
    PROVE  Grows(a, c)
BY DEF Grows

(* The ids that a staged row was matched with.                              *)
Matched(cat, row) ==
    /\ row.product \in {NoId} \cup DOMAIN cat.products
    /\ row.offer \in {NoId} \cup DOMAIN cat.offers

LEMMA MatchedStays ==
    ASSUME NEW old, NEW new, Grows(old, new), NEW row, Matched(old, row)
    PROVE  Matched(new, row)
BY DEF Grows, Matched

(* A row that is committed lets the catalog grow.                           *)
LEMMA CommitGrows ==
    ASSUME NEW cat, IsCatalog(cat), NEW entity \in Entities, NEW r, NEW row, Matched(cat, row), NEW by
    PROVE  Grows(cat, CommitRow(cat, entity, r, row, by))
<1> DEFINE new == CommitRow(cat, entity, r, row, by)
<1>0. /\ \A t \in Tables : cat[t] \in Seq(Range(cat[t]))
      /\ \A o \in DOMAIN cat.offers : DOMAIN cat.offers[o] = OfferColumns
  BY DEF IsCatalog
<1>1. {"products", "stores", "specs", "images", "offers", "history"} = Tables
  BY DEF Tables
<1>2. Grows(cat, cat)
  BY DEF Grows
<1>3. ASSUME NEW t \in {"specs", "images", "history"}, NEW e
      PROVE  Grows(cat, With(cat, t, Append(cat[t], e)))
  <2> DEFINE s == Append(cat[t], e)
             n == With(cat, t, s)
  <2>1. s \in Seq(Range(s))
    BY <1>0, <1>1, Longer
  <2> HIDE DEF s
  <2>2. IsCatalog(n) /\ \A u \in Tables \ {t} : n[u] = cat[u]
    BY <1>1, <2>1, Replaced
  <2>3. n.products = cat.products /\ n.stores = cat.stores /\ n.offers = cat.offers
    BY <1>1, <2>2
  <2> HIDE DEF n
  <2>4. Grows(cat, n)
    BY <2>2, <2>3 DEF Grows
  <2> QED
    BY <2>4 DEF n, s
<1>4. CASE entity = "PRODUCT_SPECIFICATION" \/ entity = "PRODUCT_IMAGE_METADATA" \/ entity = "PRICE_OBSERVATION"
  <2>1. \E t \in {"specs", "images", "history"} : \E e : new = With(cat, t, Append(cat[t], e))
    BY <1>4, Zenon DEF CommitRow, With
  <2> HIDE DEF new
  <2> QED
    BY <1>3, <2>1, Zenon DEF new
<1>5. CASE entity = "PRODUCT"
  <2>1. ASSUME NEW s, s \in Seq(Range(s)), DOMAIN cat.products \subseteq DOMAIN s
        PROVE  Grows(cat, With(cat, "products", s))
    <3> DEFINE n == With(cat, "products", s)
    <3>0. "products" \in Tables /\ "products" # "offers"
      BY <1>1
    <3>1. IsCatalog(n) /\ n.products = s /\ \A u \in Tables \ {"products"} : n[u] = cat[u]
      <4> HIDE DEF new
      <4>1. s \in Seq(Range(s))
        BY <2>1
      <4> QED
        BY <3>0, <4>1, Replaced
    <3>2. n.stores = cat.stores /\ n.offers = cat.offers
      BY <1>1, <3>1
    <3> HIDE DEF n
    <3>3. Grows(cat, n)
      BY <2>1, <3>1, <3>2 DEF Grows
    <3> QED
      BY <3>3 DEF n
  <2>2. CASE row.product = NoId
    <3> DEFINE e == [part |-> r.part, gtin |-> r.gtin]
    <3> HIDE DEF e
    <3>1. Append(cat.products, e) \in Seq(Range(Append(cat.products, e)))
          /\ DOMAIN cat.products \subseteq DOMAIN Append(cat.products, e)
      BY <1>0, <1>1, Longer
    <3>2. new = With(cat, "products", Append(cat.products, e))
      BY <1>5, <2>2, Zenon DEF CommitRow, CommitProduct, With, e
    <3> QED
      BY <2>1, <3>1, <3>2
  <2>3. CASE row.product # NoId
    <3> DEFINE e == [part |-> r.part, gtin |-> IF r.gtin = NoGtin THEN cat.products[row.product].gtin ELSE r.gtin]
               s == [cat.products EXCEPT ![row.product] = e]
    <3> HIDE DEF e
    <3>1. s \in Seq(Range(s)) /\ DOMAIN cat.products \subseteq DOMAIN s
      BY <1>0, <1>1, <2>3, Changed DEF Matched
    <3>2. new = With(cat, "products", s)
      BY <1>5, <2>3, Zenon DEF CommitRow, CommitProduct, With, e
    <3> QED
      BY <2>1, <3>1, <3>2
  <2> QED
    BY <2>2, <2>3
<1>6. CASE entity = "STORE"
  <2>1. CASE row.action = "UPDATE"
    BY <1>2, <1>6, <2>1 DEF CommitRow, CommitStore
  <2>2. CASE row.action # "UPDATE"
    <3> DEFINE s == Append(cat.stores, r.store)
               n == With(cat, "stores", s)
    <3>1. s \in Seq(Range(s)) /\ \A i \in DOMAIN cat.stores : s[i] = cat.stores[i] /\ i \in DOMAIN s
      BY <1>0, <1>1, Longer
    <3>2. new = n
      BY <1>6, <2>2, Zenon DEF CommitRow, CommitStore, With
    <3> HIDE DEF s
    <3>0. "stores" \in Tables /\ "stores" # "offers"
      BY <1>1
    <3>3. IsCatalog(n) /\ n.stores = s /\ \A u \in Tables \ {"stores"} : n[u] = cat[u]
      <4> HIDE DEF new
      <4>1. s \in Seq(Range(s))
        BY <3>1
      <4> QED
        BY <3>0, <4>1, Replaced
    <3>4. n.products = cat.products /\ n.offers = cat.offers
      BY <1>1, <3>3
    <3> HIDE DEF n
    <3>5. Grows(cat, n)
      BY <3>1, <3>3, <3>4 DEF Grows
    <3> QED
      BY <3>2, <3>5
  <2> QED
    BY <2>1, <2>2
<1>7. CASE entity = "STORE_OFFER"
  <2>1. ASSUME NEW s, s \in Seq(Range(s)), NEW n, IsCatalog(n),
               n.offers = s, n.products = cat.products, n.stores = cat.stores,
               \A o \in DOMAIN cat.offers :
                  o \in DOMAIN s /\ s[o].store = cat.offers[o].store /\ s[o].sku = cat.offers[o].sku
        PROVE  Grows(cat, n)
    BY <2>1 DEF Grows
  <2>2. CASE row.offer = NoId
    <3> DEFINE e == [product |-> row.product, store |-> TheId(StoreIds(cat, r)),
                     sku |-> r.sku, price |-> r.price, at |-> r.at]
               s == Append(cat.offers, e)
               n == With(cat, "offers", s)
    <3>1. new = n
      BY <1>7, <2>2, Zenon DEF CommitRow, CommitOffer, With
    <3>2. DOMAIN e = OfferColumns
      BY DEF OfferColumns
    <3> HIDE DEF e
    <3>3. /\ s \in Seq(Range(s))
          /\ \A o \in DOMAIN cat.offers : s[o] = cat.offers[o] /\ o \in DOMAIN s
          /\ \A o \in DOMAIN s : o \in DOMAIN cat.offers \/ s[o] = e
      BY <1>0, <1>1, Longer
    <3> HIDE DEF s
    <3>4. IsCatalog(n) /\ n.offers = s /\ \A u \in Tables \ {"offers"} : n[u] = cat[u]
      BY <1>0, <1>1, <3>2, <3>3, Replaced
    <3>5. n.products = cat.products /\ n.stores = cat.stores
      BY <1>1, <3>4
    <3> HIDE DEF n
    <3> QED
      BY <2>1, <3>1, <3>3, <3>4, <3>5
  <2>3. CASE row.offer # NoId
    <3> DEFINE old == cat.offers[row.offer]
               e == IF Supersedes(r, old) THEN [old EXCEPT !.price = r.price, !.at = r.at] ELSE old
               h == Append(cat.history, [offer |-> row.offer, price |-> r.price, at |-> r.at, by |-> by])
               s == [cat.offers EXCEPT ![row.offer] = e]
               m == With(cat, "history", h)
               n == With(m, "offers", s)
    <3>0. row.offer \in DOMAIN cat.offers /\ DOMAIN old = OfferColumns
      BY <1>0, <2>3 DEF Matched
    <3>1. h \in Seq(Range(h))
      BY <1>0, <1>1, Longer
    <3>2. new = n
      <4>1. new = [cat EXCEPT !.history = h, !.offers = s]
        BY <1>7, <2>3, Zenon DEF CommitRow, CommitOffer
      <4> QED
        BY <4>1, Zenon DEF With
    <3>3. DOMAIN e = OfferColumns /\ e.store = old.store /\ e.sku = old.sku
      BY <3>0, Zenon DEF OfferColumns
    <3> HIDE DEF e
    <3>4. s \in Seq(Range(s)) /\ DOMAIN s = DOMAIN cat.offers
          /\ \A o \in DOMAIN cat.offers : s[o] = IF o = row.offer THEN e ELSE cat.offers[o]
      BY <1>0, <1>1, <3>0, Changed
    <3>5. \A o \in DOMAIN cat.offers :
             /\ o \in DOMAIN s /\ s[o].store = cat.offers[o].store /\ s[o].sku = cat.offers[o].sku
             /\ DOMAIN s[o] = OfferColumns
      BY <1>0, <3>3, <3>4
    <3> HIDE DEF s, h
    <3>7. IsCatalog(m) /\ \A u \in Tables \ {"history"} : m[u] = cat[u]
      BY <1>1, <3>1, Replaced
    <3> HIDE DEF m
    <3>8. IsCatalog(n) /\ n.offers = s /\ \A u \in Tables \ {"offers"} : n[u] = m[u]
      BY <1>1, <3>4, <3>5, <3>7, Replaced
    <3>9. n.products = cat.products /\ n.stores = cat.stores
      BY <1>1, <3>7, <3>8
    <3> HIDE DEF n
    <3> QED
      BY <2>1, <3>2, <3>4, <3>5, <3>8, <3>9
  <2> QED
    BY <2>2, <2>3
<1> QED
  BY <1>4, <1>5, <1>6, <1>7 DEF Entities

-----------------------------------------------------------------------------
Validations == {"VALID", "INVALID", "DUPLICATE", "AMBIGUOUS", "BLOCKED"}
Reviews == {"PENDING", "APPROVED", "REJECTED", "NOT_REQUIRED"}
Actions == {"CREATE", "UPDATE", "SKIP", "REVIEW", "REJECT"}
StagedRow == [validation : Validations, review : Reviews, action : Actions, product : Nat, offer : Nat]

(* What staging found out about a record and its row still says: a          *)
(* duplicate is skipped; a valid row is well formed; a valid offer has its store, and its row names the *)
(* offer of that store and SKU if there was one; a valid observation names  *)
(* its offer.                                                               *)
RowHolds(cat, entity, r, row) ==
    /\ row \in StagedRow /\ Matched(cat, row)
    /\ row.validation = "DUPLICATE" => row.action = "SKIP"
    /\ row.validation = "VALID" => r.wellFormed
    /\ entity = "STORE_OFFER" /\ row.validation = "VALID" =>
          StoreIds(cat, r) # {} /\ row.offer \in {NoId} \cup OfferIds(cat, r)
    /\ entity = "PRICE_OBSERVATION" /\ row.validation = "VALID" => row.offer = r.offer

LEMMA OutcomeIs ==
    ASSUME NEW v \in Validations, NEW w \in Reviews, NEW a \in Actions
    PROVE  LET o == Outcome(v, w, a)
           IN  /\ o \in StagedRow /\ o.validation = v /\ o.review = w /\ o.action = a
               /\ o.product = NoId /\ o.offer = NoId
BY DEF Outcome, StagedRow, NoId

LEMMA MarkIs ==
    ASSUME NEW row \in StagedRow, NEW mark \in StagedRow
    PROVE  LET m == Mark(row, mark)
           IN  /\ m \in StagedRow /\ m.validation = mark.validation /\ m.review = mark.review
               /\ m.action = mark.action /\ m.product = row.product /\ m.offer = row.offer
<1> DEFINE m == Mark(row, mark)
<1>1. /\ \A x \in StagedRow, v \in Validations : [x EXCEPT !.validation = v] \in StagedRow
      /\ \A x \in StagedRow, v \in Reviews : [x EXCEPT !.review = v] \in StagedRow
      /\ \A x \in StagedRow, v \in Actions : [x EXCEPT !.action = v] \in StagedRow
  BY DEF StagedRow
<1>2. mark.validation \in Validations /\ mark.review \in Reviews /\ mark.action \in Actions
  BY DEF StagedRow
<1>3. DOMAIN row = {"validation", "review", "action", "product", "offer"}
  BY DEF StagedRow
<1>4. m \in StagedRow
  BY <1>1, <1>2, Zenon DEF Mark
<1>5. /\ m.validation = mark.validation /\ m.review = mark.review
      /\ m.action = mark.action /\ m.product = row.product /\ m.offer = row.offer
  BY <1>3, Zenon DEF Mark
<1> QED
  BY <1>4, <1>5

LEMMA TheIdIs ==
    ASSUME NEW S, NEW ids, ids \subseteq S
    PROVE  /\ TheId(ids) \in {NoId} \cup S
           /\ ids # {} => TheId(ids) \in ids
           /\ TheId(ids) # NoId => TheId(ids) \in ids
BY DEF TheId

LEMMA ForIs ==
    ASSUME NEW cat, IsCatalog(cat), NEW r, NEW row \in StagedRow
    PROVE  LET f == For(cat, r, row)
           IN  /\ f \in StagedRow /\ f.validation = row.validation /\ f.action = row.action
               /\ f.offer = row.offer /\ f.product \in {NoId} \cup DOMAIN cat.products
<1> DEFINE f == For(cat, r, row)
           p == TheId(Products(cat, r))
<1>1. p \in {NoId} \cup DOMAIN cat.products
  <2>1. Products(cat, r) \subseteq DOMAIN cat.products
    BY DEF Products, SamePart
  <2> QED
    BY <2>1, TheIdIs
<1>2. DOMAIN cat.products \subseteq Nat /\ NoId \in Nat
  <2>1. cat["products"] \in Seq(Range(cat["products"]))
    BY DEF IsCatalog, Tables
  <2> QED
    BY <2>1 DEF NoId
<1> HIDE DEF p
<1>3. f = [row EXCEPT !.product = p]
  BY DEF For, p
<1>4. f \in StagedRow /\ f.validation = row.validation /\ f.action = row.action /\ f.offer = row.offer /\ f.product = p
  BY <1>1, <1>2, <1>3 DEF StagedRow
<1> QED
  BY <1>1, <1>4

LEMMA OfferSet ==
    ASSUME NEW row \in StagedRow, NEW o \in Nat
    PROVE  LET s == [row EXCEPT !.offer = o]
           IN  s \in StagedRow /\ s.validation = row.validation /\ s.action = row.action
               /\ s.offer = o /\ s.product = row.product
BY DEF StagedRow

(* Matching a record against a catalog gives a row that holds there.        *)
LEMMA MatchHolds ==
    ASSUME NEW cat, IsCatalog(cat), NEW entity \in Entities, NEW r
    PROVE  RowHolds(cat, entity, r, Match(cat, entity, r))
<1> DEFINE row == Match(cat, entity, r)
           plain(o) == o \in StagedRow /\ o.offer = NoId /\ o.product = NoId
                       /\ (o.validation = "DUPLICATE" => o.action = "SKIP")
           good(o) == o \in StagedRow /\ o.offer = NoId /\ o.product \in {NoId} \cup DOMAIN cat.products
                      /\ (o.validation = "DUPLICATE" => o.action = "SKIP")
<1>1. /\ "VALID" \in Validations /\ "INVALID" \in Validations /\ "DUPLICATE" \in Validations
      /\ "AMBIGUOUS" \in Validations /\ "BLOCKED" \in Validations
      /\ "PENDING" \in Reviews /\ "NOT_REQUIRED" \in Reviews
      /\ "CREATE" \in Actions /\ "UPDATE" \in Actions /\ "SKIP" \in Actions
      /\ "REVIEW" \in Actions /\ "REJECT" \in Actions
  BY DEF Validations, Reviews, Actions
<1>2. /\ plain(Create) /\ plain(Invalid) /\ plain(Blocked) /\ plain(Ambiguous) /\ plain(Duplicate)
      /\ Create.validation = "VALID" /\ Invalid.validation = "INVALID" /\ Blocked.validation = "BLOCKED"
      /\ Ambiguous.validation = "AMBIGUOUS" /\ Duplicate.validation = "DUPLICATE"
  BY <1>1, OutcomeIs DEF Create, Invalid, Blocked, Ambiguous, Duplicate
<1>3. \A w \in {"PENDING", "NOT_REQUIRED"} : \A a \in {"CREATE", "UPDATE", "REVIEW"} : plain(Outcome("VALID", w, a))
  BY <1>1, OutcomeIs
<1>4. \A o : plain(o) => good(o) /\ good(For(cat, r, o)) /\ For(cat, r, o).validation = o.validation
  BY ForIs
<1>5. DOMAIN cat.offers \subseteq Nat
  <2>1. cat["offers"] \in Seq(Range(cat["offers"]))
    BY DEF IsCatalog, Tables
  <2> QED
    BY <2>1
<1> HIDE DEF plain
<1>6. CASE r.wellFormed /\ entity = "PRODUCT"
  <2>1. good(MatchProduct(cat, r))
    <3> HIDE DEF good
    <3> QED
      BY <1>2, <1>3, <1>4 DEF MatchProduct
  <2>2. row = MatchProduct(cat, r)
    BY <1>6 DEF Match
  <2> QED
    BY <1>6, <2>1, <2>2 DEF RowHolds, Matched
<1>7. CASE r.wellFormed /\ entity = "STORE"
  <2>1. good(MatchStore(cat, r))
    <3> HIDE DEF good
    <3> QED
      BY <1>2, <1>3, <1>4 DEF MatchStore
  <2>2. row = MatchStore(cat, r)
    BY <1>7 DEF Match
  <2> QED
    BY <1>7, <2>1, <2>2 DEF RowHolds, Matched
<1>8. CASE r.wellFormed /\ entity = "PRODUCT_SPECIFICATION"
  <2>1. good(MatchSpecification(cat, r))
    <3> HIDE DEF good
    <3> QED
      BY <1>2, <1>3, <1>4 DEF MatchSpecification, Unresolved
  <2>2. row = MatchSpecification(cat, r)
    BY <1>8 DEF Match
  <2> QED
    BY <1>8, <2>1, <2>2 DEF RowHolds, Matched
<1>9. CASE r.wellFormed /\ entity = "PRODUCT_IMAGE_METADATA"
  <2>1. good(MatchImage(cat, r))
    <3> HIDE DEF good
    <3> QED
      BY <1>2, <1>3, <1>4 DEF MatchImage, Unresolved
  <2>2. row = MatchImage(cat, r)
    BY <1>9 DEF Match
  <2> QED
    BY <1>9, <2>1, <2>2 DEF RowHolds, Matched
<1>10. CASE r.wellFormed /\ entity = "STORE_OFFER"
  <2> DEFINE o == TheId(OfferIds(cat, r))
             m == MatchOffer(cat, r)
  <2>1. o \in {NoId} \cup DOMAIN cat.offers /\ (o # NoId => o \in OfferIds(cat, r))
    <3>1. OfferIds(cat, r) \subseteq DOMAIN cat.offers
      BY DEF OfferIds
    <3> QED
      BY <3>1, TheIdIs
  <2>2. row = m
    BY <1>10 DEF Match
  <2>3. CASE StoreIds(cat, r) = {} \/ ~Resolved(cat, r) \/ o = NoId
             \/ cat.offers[o].product # TheId(Products(cat, r))
    <3>1. good(m) /\ (m.validation = "VALID" => StoreIds(cat, r) # {})
      <4> HIDE DEF good
      <4> QED
        BY <1>2, <1>3, <1>4, <2>3 DEF MatchOffer, Unresolved
    <3> QED
      BY <1>10, <2>2, <3>1 DEF RowHolds, Matched
  <2>4. CASE ~(StoreIds(cat, r) = {} \/ ~Resolved(cat, r) \/ o = NoId
               \/ cat.offers[o].product # TheId(Products(cat, r)))
    <3>1. PICK base : plain(base) /\ m = [For(cat, r, base) EXCEPT !.offer = o]
      BY <1>2, <1>3, <2>4, Zenon DEF MatchOffer
    <3>2. good(For(cat, r, base))
      BY <1>4, <3>1
    <3>3. m \in StagedRow /\ m.offer = o /\ m.product \in {NoId} \cup DOMAIN cat.products
          /\ (m.validation = "DUPLICATE" => m.action = "SKIP")
      BY <1>5, <2>1, <2>4, <3>1, <3>2, OfferSet
    <3> QED
      BY <1>10, <2>1, <2>2, <2>4, <3>3 DEF RowHolds, Matched
  <2> QED
    BY <2>3, <2>4
<1>11. CASE r.wellFormed /\ entity = "PRICE_OBSERVATION"
  <2> DEFINE m == MatchObservation(cat, r)
  <2>1. row = m
    BY <1>11 DEF Match
  <2>2. CASE r.offer \notin DOMAIN cat.offers
    <3>1. m = Blocked
      BY <2>2 DEF MatchObservation
    <3> QED
      BY <1>2, <1>4, <1>11, <2>1, <3>1 DEF RowHolds, Matched
  <2>3. CASE r.offer \in DOMAIN cat.offers
    <3>1. PICK base : plain(base) /\ m = [base EXCEPT !.offer = r.offer]
      BY <1>2, <2>3, Zenon DEF MatchObservation
    <3>2. good(base) /\ base.product = NoId
      BY <1>4, <3>1 DEF plain
    <3>3. m \in StagedRow /\ m.offer = r.offer /\ m.product = NoId
          /\ (m.validation = "DUPLICATE" => m.action = "SKIP")
      BY <1>5, <2>3, <3>1, <3>2, OfferSet
    <3> QED
      BY <1>11, <2>1, <2>3, <3>3 DEF RowHolds, Matched
  <2> QED
    BY <2>2, <2>3
<1>12. CASE ~r.wellFormed
  <2>1. row = Invalid
    BY <1>12, Zenon DEF Match
  <2> QED
    BY <1>2, <1>4, <2>1 DEF RowHolds, Matched
<1> QED
  BY <1>6, <1>7, <1>8, <1>9, <1>10, <1>11, <1>12 DEF Entities

(* A row that holds goes on holding when its catalog grows and when its     *)
(* review changes.                                                          *)
LEMMA HoldsOn ==
    ASSUME NEW old, NEW new, Grows(old, new), NEW entity, NEW r, NEW row, RowHolds(old, entity, r, row)
    PROVE  RowHolds(new, entity, r, row)
<1>1. Matched(new, row)
  BY MatchedStays DEF RowHolds
<1>2. StoreIds(old, r) \subseteq StoreIds(new, r)
  BY DEF StoreIds, Grows
<1>3. OfferIds(old, r) \subseteq OfferIds(new, r)
  BY <1>2 DEF OfferIds, Grows
<1> QED
  BY <1>1, <1>2, <1>3 DEF RowHolds

LEMMA ReviewedHolds ==
    ASSUME NEW cat, NEW entity, NEW r, NEW row, RowHolds(cat, entity, r, row), NEW review \in Reviews
    PROVE  LET n == [row EXCEPT !.review = review]
           IN  /\ RowHolds(cat, entity, r, n) /\ n.review = review
               /\ n.validation = row.validation /\ n.action = row.action
               /\ n.product = row.product /\ n.offer = row.offer
<1> DEFINE n == [row EXCEPT !.review = review]
<1>1. row \in StagedRow
  BY DEF RowHolds
<1>2. /\ n \in StagedRow /\ n.review = review
      /\ n.validation = row.validation /\ n.action = row.action
      /\ n.product = row.product /\ n.offer = row.offer
  BY <1>1 DEF StagedRow
<1> HIDE DEF n
<1>3. RowHolds(cat, entity, r, n)
  BY <1>2 DEF RowHolds, Matched
<1> QED
  BY <1>2, <1>3 DEF n

(* A row that is marked as a duplicate or as ambiguous is not valid.        *)
LEMMA MarkedHolds ==
    ASSUME NEW cat, NEW entity, NEW r, NEW row, RowHolds(cat, entity, r, row),
           NEW mark \in {Duplicate, Ambiguous}
    PROVE  LET n == Mark(row, mark)
           IN  /\ RowHolds(cat, entity, r, n) /\ n.validation # "VALID"
               /\ n.product = row.product /\ n.offer = row.offer
<1>1. /\ "DUPLICATE" \in Validations /\ "AMBIGUOUS" \in Validations
      /\ "PENDING" \in Reviews /\ "NOT_REQUIRED" \in Reviews /\ "SKIP" \in Actions /\ "REVIEW" \in Actions
  BY DEF Validations, Reviews, Actions
<1>2. /\ mark \in StagedRow /\ mark.validation \in {"DUPLICATE", "AMBIGUOUS"}
      /\ mark.validation = "DUPLICATE" => mark.action = "SKIP"
  BY <1>1, OutcomeIs DEF Duplicate, Ambiguous
<1> DEFINE n == Mark(row, mark)
<1>3. /\ n \in StagedRow /\ n.validation = mark.validation /\ n.action = mark.action
      /\ n.product = row.product /\ n.offer = row.offer
  <2>1. row \in StagedRow
    BY DEF RowHolds
  <2> QED
    BY <1>2, <2>1, MarkIs
<1> HIDE DEF n
<1>4. RowHolds(cat, entity, r, n) /\ n.validation # "VALID"
  BY <1>2, <1>3 DEF RowHolds, Matched
<1> QED
  BY <1>3, <1>4 DEF n

(* One turn of the staging loop.                                            *)
LEMMA StageNextHolds ==
    ASSUME NEW cat, IsCatalog(cat), NEW entity \in Entities, NEW records, NEW rows \in Seq(StagedRow),
           \A i \in DOMAIN rows : RowHolds(cat, entity, records[i], rows[i])
    PROVE  LET next == StageNext(cat, entity, records, rows)
           IN  /\ next \in Seq(StagedRow) /\ Len(next) = Len(rows) + 1
               /\ \A i \in DOMAIN next : RowHolds(cat, entity, records[i], next[i])
               /\ \A i \in DOMAIN rows : next[i].validation = "VALID" => next[i] = rows[i]
               /\ LET n == Len(rows) + 1
                  IN  next[n].validation = "VALID" =>
                         /\ next[n] = Match(cat, entity, records[n])
                         /\ Priors(entity, records, n) = {}
                         /\ \A m \in 1..Len(rows) : records[m] # records[n]
<1> DEFINE n == Len(rows) + 1
           staged == Match(cat, entity, records[n])
           priors == Priors(entity, records, n)
           next == StageNext(cat, entity, records, rows)
<1>0. n \in Nat /\ n - 1 = Len(rows) /\ DOMAIN rows = 1..Len(rows) /\ n \notin DOMAIN rows
      /\ \A i \in 1..n : i = n \/ i \in DOMAIN rows
  OBVIOUS
<1>1. RowHolds(cat, entity, records[n], staged)
  BY MatchHolds
<1>2. ASSUME NEW i \in 1..n, NEW x, RowHolds(cat, entity, records[i], x)
      PROVE  /\ RowHolds(cat, entity, records[i], Mark(x, Duplicate)) /\ Mark(x, Duplicate).validation # "VALID"
             /\ RowHolds(cat, entity, records[i], Mark(x, Ambiguous)) /\ Mark(x, Ambiguous).validation # "VALID"
  BY <1>2, MarkedHolds
<1>3. \A x : \A i : RowHolds(cat, entity, records[i], x) => x \in StagedRow
  BY DEF RowHolds
<1>4. CASE \E m \in 1..(n - 1) : records[m] = records[n]
  <2> DEFINE last == Mark(staged, Duplicate)
  <2>1. next = Append(rows, last)
    BY <1>4 DEF StageNext
  <2>2. RowHolds(cat, entity, records[n], last) /\ last.validation # "VALID" /\ last \in StagedRow
    BY <1>0, <1>1, <1>2, <1>3
  <2> HIDE DEF last, next, staged
  <2>3. next \in Seq(StagedRow) /\ Len(next) = n /\ DOMAIN next = 1..n /\ next[n] = last
        /\ \A i \in DOMAIN rows : next[i] = rows[i]
    BY <1>0, <2>1, <2>2
  <2>4. \A i \in DOMAIN next : RowHolds(cat, entity, records[i], next[i])
    BY <1>0, <2>2, <2>3
  <2> QED
    BY <1>0, <2>2, <2>3, <2>4 DEF next
<1>5. CASE ~\E m \in 1..(n - 1) : records[m] = records[n]
  <2> DEFINE at(m) == IF m = n THEN (IF priors = {} THEN staged ELSE Mark(staged, Ambiguous))
                      ELSE IF m \in priors THEN Mark(rows[m], Ambiguous) ELSE rows[m]
  <2>1. next = [m \in 1..n |-> at(m)]
    BY <1>5, Zenon DEF StageNext
  <2>2. ASSUME NEW i \in 1..n
        PROVE  /\ RowHolds(cat, entity, records[i], at(i)) /\ at(i) \in StagedRow
               /\ at(i).validation = "VALID" => IF i = n THEN priors = {} /\ at(i) = staged ELSE at(i) = rows[i]
    <3> HIDE DEF staged, priors
    <3>1. CASE i = n
      BY <1>1, <1>2, <1>3, <3>1
    <3>2. CASE i # n
      <4>1. i \in DOMAIN rows /\ RowHolds(cat, entity, records[i], rows[i])
        BY <1>0, <3>2
      <4> QED
        BY <1>2, <1>3, <3>2, <4>1
    <3> QED
      BY <3>1, <3>2
  <2> HIDE DEF at, next, staged, priors
  <2>3. next \in Seq(StagedRow) /\ Len(next) = n /\ DOMAIN next = 1..n /\ \A i \in 1..n : next[i] = at(i)
    BY <1>0, <2>1, <2>2
  <2>4. \A i \in DOMAIN next : RowHolds(cat, entity, records[i], next[i])
    BY <2>2, <2>3
  <2>5. \A i \in DOMAIN rows : i \in 1..n /\ i # n
    BY <1>0
  <2>6. n \in 1..n
    BY <1>0
  <2>7. /\ \A i \in DOMAIN rows : next[i].validation = "VALID" => next[i] = rows[i]
        /\ next[n].validation = "VALID" => next[n] = staged /\ priors = {}
    BY <2>2, <2>3, <2>5, <2>6
  <2> QED
    BY <1>0, <1>5, <2>3, <2>4, <2>7 DEF next, staged, priors
<1> QED
  BY <1>4, <1>5

-----------------------------------------------------------------------------
BatchRecord == [status : BatchStatus, file : Files, rows : Seq(StagedRow), knew : Seq(Batches),
                reopened : BOOLEAN, shared : BOOLEAN]
CommitRecord == [at : {"idle", "checked", "rolledBack", "done"}, of : SUBSET Batches]

TypeInv ==
    /\ IsCatalog(catalog)
    /\ batch \in [Batches -> BatchRecord]
    /\ commit \in [Requests -> CommitRecord]
    /\ decisions \in 0..MaxDecisions
    /\ applied \in Seq(Batches)

(* The rows of a batch hold in the catalog as it is now, and there are no   *)
(* more of them than records.                                               *)
RowsHold(cat, record) ==
    /\ Len(record.rows) <= Len(record.file.records)
    /\ \A i \in DOMAIN record.rows :
          RowHolds(cat, record.file.entity, record.file.records[i], record.rows[i])

RowsInv == \A b \in Batches : RowsHold(catalog, batch[b])

(* A batch that a commit has taken up may be applied as it stands: its rows *)
(* were looked at.  Unless it was taken up again it was not applied yet,    *)
(* and nobody else has it.                                                  *)
LookedAt(record) ==
    /\ record.status \notin {"absent", "staging"}
    /\ \A i \in DOMAIN record.rows :
          record.rows[i].action # "SKIP" => record.rows[i].validation = "VALID" /\ record.rows[i].review # "PENDING"

Open(q) == commit[q].at \in {"checked", "rolledBack"}

CommitInv ==
    /\ \A q \in Requests : \A b \in commit[q].of : Open(q) =>
          /\ LookedAt(batch[b])
          /\ ~Retaken(b) => b \notin Range(applied) /\ batch[b].status # "completed"
    /\ \A p, q \in Requests : \A b \in commit[p].of \cap commit[q].of :
          Open(p) /\ Open(q) => p = q \/ batch[b].shared

AppliedInv ==
    /\ \A b \in Range(applied) : LookedAt(batch[b])
    /\ StatusTellsApplied

BatchInv == TypeInv /\ RowsInv /\ CommitInv /\ AppliedInv

(* Two records of a batch whose rows differ in their review only.           *)
SameRows(old, new) ==
    /\ new.file = old.file /\ DOMAIN new.rows = DOMAIN old.rows /\ Len(new.rows) = Len(old.rows)
    /\ \A i \in DOMAIN old.rows :
          /\ new.rows[i].validation = old.rows[i].validation /\ new.rows[i].action = old.rows[i].action
          /\ new.rows[i].product = old.rows[i].product /\ new.rows[i].offer = old.rows[i].offer

(* A batch record whose reviews and flags change.                           *)
Turned(b, n) ==
    /\ n \in BatchRecord /\ batch' = [batch EXCEPT ![b] = n]
    /\ SameRows(batch[b], n) /\ n.knew = batch[b].knew
    /\ batch[b].reopened => n.reopened
    /\ batch[b].shared => n.shared

LEMMA RecordFields ==
    ASSUME NEW x \in BatchRecord
    PROVE  /\ \A v \in BatchStatus : [x EXCEPT !.status = v] \in BatchRecord
           /\ \A v \in Seq(StagedRow) : [x EXCEPT !.rows = v] \in BatchRecord
           /\ \A v \in Seq(Batches) : [x EXCEPT !.knew = v] \in BatchRecord
           /\ \A v \in BOOLEAN : [x EXCEPT !.reopened = v] \in BatchRecord
           /\ \A v \in BOOLEAN : [x EXCEPT !.shared = v] \in BatchRecord
           /\ DOMAIN x = {"status", "file", "rows", "knew", "reopened", "shared"}
           /\ x.status \in BatchStatus /\ x.file \in Files /\ x.rows \in Seq(StagedRow)
           /\ x.knew \in Seq(Batches) /\ x.reopened \in BOOLEAN /\ x.shared \in BOOLEAN
BY DEF BatchRecord

LEMMA FileIs ==
    ASSUME NEW f \in Files
    PROVE  /\ f.entity \in Entities /\ Len(f.records) \in Nat /\ DOMAIN f.records = 1..Len(f.records)
           /\ \A i \in DOMAIN f.records : f.records[i] \in Range(f.records)
<1>1. f.entity \in Entities /\ f.records \in Seq(Range(f.records))
  BY FilesAssumption
<1> QED
  BY <1>1 DEF Range

(* Staging one more row.                                                    *)
LEMMA StageRowIs ==
    ASSUME TypeInv, RowsInv, NEW b \in Batches, StageRow(b)
    PROVE  /\ \E n \in BatchRecord :
                /\ batch' = [batch EXCEPT ![b] = n] /\ RowsHold(catalog, n)
                /\ n.status = "staging" /\ n.file = batch[b].file
                /\ n.rows = StageNext(catalog, Entity(b), Records(b), Rows(b))
                /\ n.knew = IF batch[b].status = "absent" THEN applied ELSE batch[b].knew
                /\ n.reopened = batch[b].reopened /\ n.shared = batch[b].shared
           /\ batch[b].status \in {"absent", "staging"}
           /\ UNCHANGED <<catalog, commit, decisions, applied>>
<1> DEFINE x == batch[b]
           next == StageNext(catalog, Entity(b), Records(b), Rows(b))
           knew == IF x.status = "absent" THEN applied ELSE x.knew
           n == [x EXCEPT !.status = "staging", !.rows = next, !.knew = knew]
<1>1. x \in BatchRecord /\ IsCatalog(catalog)
  BY DEF TypeInv
<1>2. x.file.entity \in Entities /\ Len(x.file.records) \in Nat /\ x.rows \in Seq(StagedRow) /\ x.knew \in Seq(Batches)
  BY <1>1, RecordFields, FileIs, Zenon
<1>3. /\ next \in Seq(StagedRow) /\ Len(next) = Len(x.rows) + 1
      /\ \A i \in DOMAIN next : RowHolds(catalog, x.file.entity, x.file.records[i], next[i])
  <2>1. \A i \in DOMAIN x.rows : RowHolds(catalog, x.file.entity, x.file.records[i], x.rows[i])
    BY DEF RowsInv, RowsHold
  <2> DEFINE entity == x.file.entity
             records == x.file.records
             rows == x.rows
  <2>2. next = StageNext(catalog, entity, records, rows)
    BY DEF Entity, Records, Rows
  <2>3. IsCatalog(catalog) /\ entity \in Entities /\ rows \in Seq(StagedRow)
        /\ \A i \in DOMAIN rows : RowHolds(catalog, entity, records[i], rows[i])
    BY <1>1, <1>2, <2>1
  <2> HIDE DEF next, entity, records, rows
  <2>4. /\ next \in Seq(StagedRow) /\ Len(next) = Len(rows) + 1
        /\ \A i \in DOMAIN next : RowHolds(catalog, entity, records[i], next[i])
    BY <2>2, <2>3, StageNextHolds
  <2> QED
    BY <2>4 DEF entity, records, rows
<1>4. knew \in Seq(Batches)
  BY <1>2 DEF TypeInv
<1>5. batch' = [batch EXCEPT ![b] = n]
  <2> HIDE DEF next, knew
  <2>1. batch' = [batch EXCEPT ![b].status = "staging", ![b].rows = next, ![b].knew = knew]
    BY Zenon DEF StageRow, next, knew
  <2>2. DOMAIN batch = Batches
    BY DEF TypeInv
  <2> QED
    BY <2>1, <2>2, Zenon
<1>6. Len(x.rows) < Len(x.file.records)
  BY DEF StageRow, Rows, Records
<1>7. "staging" \in BatchStatus
  BY DEF BatchStatus
<1> HIDE DEF x, next, knew
<1>8. n \in BatchRecord
  BY <1>1, <1>3, <1>4, <1>7, RecordFields, Zenon
<1>9. n.status = "staging" /\ n.file = x.file /\ n.rows = next /\ n.knew = knew
      /\ n.reopened = x.reopened /\ n.shared = x.shared
  BY <1>1, RecordFields, Zenon
<1> HIDE DEF n
<1>10. RowsHold(catalog, n)
  <2>1. Len(x.rows) \in Nat
    BY <1>2
  <2>2. Len(n.rows) <= Len(n.file.records)
    BY <1>2, <1>3, <1>6, <1>9, <2>1
  <2> QED
    BY <1>3, <1>9, <2>2 DEF RowsHold
<1> QED
  BY <1>5, <1>8, <1>9, <1>10 DEF StageRow, x, next, knew

(* The steps that only turn a batch.                                        *)
LEMMA StageResultIs ==
    ASSUME TypeInv, NEW b \in Batches, StageResult(b)
    PROVE  /\ \E n \in BatchRecord :
                /\ Turned(b, n) /\ n.status \in {"review_required", "ready"}
                /\ n.rows = Rows(b) /\ n.reopened = batch[b].reopened /\ n.shared = batch[b].shared
           /\ batch[b].status = "staging"
           /\ UNCHANGED <<catalog, commit, decisions, applied>>
<1> DEFINE x == batch[b]
           s == IF \E i \in DOMAIN Rows(b) : Rows(b)[i].review = "PENDING" THEN "review_required" ELSE "ready"
           n == [x EXCEPT !.status = s]
<1>1. x \in BatchRecord
  BY DEF TypeInv
<1>2. batch' = [batch EXCEPT ![b] = n]
  BY Zenon DEF StageResult
<1>3. s \in {"review_required", "ready"} /\ s \in BatchStatus
  BY DEF BatchStatus
<1> HIDE DEF x, s
<1>4. n \in BatchRecord
  BY <1>1, <1>3, RecordFields, Zenon
<1>5. n.status = s /\ n.file = x.file /\ n.rows = x.rows /\ n.knew = x.knew
      /\ n.reopened = x.reopened /\ n.shared = x.shared
  BY <1>1, RecordFields, Zenon
<1> HIDE DEF n
<1>6. Turned(b, n)
  BY <1>2, <1>4, <1>5 DEF Turned, SameRows, x
<1> QED
  BY <1>3, <1>4, <1>5, <1>6 DEF StageResult, Rows, x

(* A row that gets a review, by a reviewer or by the bootstrap command.     *)
LEMMA Reviewed ==
    ASSUME NEW x \in BatchRecord, NEW i \in DOMAIN x.rows, NEW review \in Reviews
    PROVE  LET n == [x EXCEPT !.rows = [x.rows EXCEPT ![i] = [x.rows[i] EXCEPT !.review = review]]]
           IN  /\ n \in BatchRecord /\ SameRows(x, n) /\ n.knew = x.knew
               /\ n.status = x.status /\ n.reopened = x.reopened /\ n.shared = x.shared
               /\ \A j \in DOMAIN x.rows : n.rows[j].review = IF j = i THEN review ELSE x.rows[j].review
<1> DEFINE row == [x.rows[i] EXCEPT !.review = review]
           rows == [x.rows EXCEPT ![i] = row]
           n == [x EXCEPT !.rows = rows]
<1>1. x.rows \in Seq(StagedRow) /\ x.rows[i] \in StagedRow
  <2>1. x.rows \in Seq(StagedRow)
    BY RecordFields
  <2> QED
    BY <2>1
<1>2. row \in StagedRow /\ row.review = review /\ row.validation = x.rows[i].validation
      /\ row.action = x.rows[i].action /\ row.product = x.rows[i].product /\ row.offer = x.rows[i].offer
  BY <1>1 DEF StagedRow
<1> HIDE DEF row
<1>3. rows \in Seq(StagedRow) /\ Len(rows) = Len(x.rows) /\ DOMAIN rows = DOMAIN x.rows
      /\ \A j \in DOMAIN x.rows : rows[j] = IF j = i THEN row ELSE x.rows[j]
  BY <1>1, <1>2
<1> HIDE DEF rows
<1>4. n \in BatchRecord
  BY <1>3, RecordFields, Zenon
<1>5. n.rows = rows /\ n.file = x.file /\ n.knew = x.knew
      /\ n.status = x.status /\ n.reopened = x.reopened /\ n.shared = x.shared
  BY RecordFields, Zenon
<1> HIDE DEF n
<1>6. SameRows(x, n) /\ \A j \in DOMAIN x.rows : n.rows[j].review = IF j = i THEN review ELSE x.rows[j].review
  BY <1>2, <1>3, <1>5 DEF SameRows
<1> QED
  BY <1>4, <1>5, <1>6 DEF n, rows, row

LEMMA ApproveIs ==
    ASSUME TypeInv, NEW b \in Batches, NEW i \in DOMAIN Rows(b), Approve(b, i)
    PROVE  /\ \E n \in BatchRecord :
                /\ Turned(b, n) /\ n.status \in {batch[b].status, "ready"}
                /\ batch[b].status = "completed" => n.status = "completed" \/ n.reopened
                /\ \A j \in DOMAIN Rows(b) : n.rows[j].review = "PENDING" => Rows(b)[j].review = "PENDING"
           /\ Staged(b) /\ decisions' \in 0..MaxDecisions
           /\ UNCHANGED <<catalog, commit, applied>>
<1> DEFINE x == batch[b]
           m == [x EXCEPT !.rows = [x.rows EXCEPT ![i] = [x.rows[i] EXCEPT !.review = "APPROVED"]]]
           re == x.reopened \/ x.status = "completed"
           n == [m EXCEPT !.status = "ready", !.reopened = re]
<1>1. x \in BatchRecord /\ i \in DOMAIN x.rows
  BY DEF TypeInv, Rows
<1>2. "APPROVED" \in Reviews /\ "ready" \in BatchStatus
  BY DEF Reviews, BatchStatus
<1>3. DOMAIN x = {"status", "file", "rows", "knew", "reopened", "shared"} /\ DOMAIN batch = Batches
  BY <1>1, RecordFields DEF TypeInv
<1>4. batch' = [batch EXCEPT ![b] = m] \/ batch' = [batch EXCEPT ![b] = n]
  <2>1. Decided(b, i, "APPROVED") = [batch EXCEPT ![b] = m]
    BY Zenon DEF Decided
  <2>2. CASE Rows(b)[i].validation # "VALID"
    BY <2>1, <2>2 DEF Approve
  <2>3. CASE Rows(b)[i].validation = "VALID"
    <3> DEFINE d == [batch EXCEPT ![b] = m]
    <3>1. batch' = [d EXCEPT ![b].status = "ready", ![b].reopened = @ \/ batch[b].status = "completed"]
      BY <2>1, <2>3, Zenon DEF Approve
    <3>2. d[b] = m /\ m.reopened = x.reopened
      BY <1>3, Zenon
    <3>3. batch' = [d EXCEPT ![b] = [d[b] EXCEPT !.status = "ready", !.reopened = d[b].reopened \/ x.status = "completed"]]
      BY <3>1, Zenon
    <3> HIDE DEF m
    <3>4. batch' = [d EXCEPT ![b] = n]
      BY <3>2, <3>3, Zenon
    <3>5. [d EXCEPT ![b] = n] = [batch EXCEPT ![b] = n]
      <4> HIDE DEF n
      <4> QED
        BY <1>3, Zenon
    <3> QED
      BY <3>4, <3>5
  <2> QED
    BY <2>2, <2>3
<1> HIDE DEF x, re
<1>5. /\ m \in BatchRecord /\ SameRows(x, m) /\ m.knew = x.knew
      /\ m.status = x.status /\ m.reopened = x.reopened /\ m.shared = x.shared
      /\ \A j \in DOMAIN x.rows : m.rows[j].review = IF j = i THEN "APPROVED" ELSE x.rows[j].review
  BY <1>1, <1>2, Reviewed
<1> HIDE DEF m
<1>6. n \in BatchRecord
  <2>1. re \in BOOLEAN
    BY DEF re
  <2> QED
    BY <1>2, <1>5, <2>1, RecordFields, Zenon
<1>7. /\ n.status = "ready" /\ (n.reopened <=> re) /\ n.rows = m.rows /\ n.file = m.file
      /\ n.knew = m.knew /\ n.shared = m.shared
  BY <1>5, RecordFields, Zenon
<1> HIDE DEF n
<1>8. \A k \in {m, n} :
        /\ k \in BatchRecord /\ SameRows(x, k) /\ k.knew = x.knew /\ (x.reopened => k.reopened) /\ (x.shared => k.shared)
        /\ k.status \in {x.status, "ready"} /\ (x.status = "completed" => k.status = "completed" \/ k.reopened)
        /\ \A j \in DOMAIN x.rows : k.rows[j].review = "PENDING" => x.rows[j].review = "PENDING"
  <2>1. SameRows(x, n)
    BY <1>5, <1>7 DEF SameRows
  <2> QED
    BY <1>5, <1>6, <1>7, <2>1 DEF re
<1>9. Staged(b) /\ decisions' \in 0..MaxDecisions /\ UNCHANGED <<catalog, commit, applied>>
  BY MaxDecisionsAssumption DEF Approve, TypeInv
<1> QED
  BY <1>4, <1>8, <1>9 DEF Turned, Rows, x

LEMMA RejectIs ==
    ASSUME TypeInv, NEW b \in Batches, NEW i \in DOMAIN Rows(b), Reject(b, i)
    PROVE  /\ \E n \in BatchRecord :
                /\ Turned(b, n) /\ n.status = batch[b].status
                /\ \A j \in DOMAIN Rows(b) : n.rows[j].review = "PENDING" => Rows(b)[j].review = "PENDING"
           /\ Staged(b) /\ decisions' \in 0..MaxDecisions
           /\ UNCHANGED <<catalog, commit, applied>>
<1> DEFINE x == batch[b]
           m == [x EXCEPT !.rows = [x.rows EXCEPT ![i] = [x.rows[i] EXCEPT !.review = "REJECTED"]]]
<1>1. x \in BatchRecord /\ i \in DOMAIN x.rows
  BY DEF TypeInv, Rows
<1>2. "REJECTED" \in Reviews
  BY DEF Reviews
<1>3. batch' = [batch EXCEPT ![b] = m]
  BY Zenon DEF Decided, Reject
<1> HIDE DEF x
<1>4. /\ m \in BatchRecord /\ SameRows(x, m) /\ m.knew = x.knew
      /\ m.status = x.status /\ m.reopened = x.reopened /\ m.shared = x.shared
      /\ \A j \in DOMAIN x.rows : m.rows[j].review = IF j = i THEN "REJECTED" ELSE x.rows[j].review
  BY <1>1, <1>2, Reviewed
<1> HIDE DEF m
<1>5. Staged(b) /\ decisions' \in 0..MaxDecisions /\ UNCHANGED <<catalog, commit, applied>>
  BY MaxDecisionsAssumption DEF Reject, TypeInv
<1> QED
  BY <1>3, <1>4, <1>5 DEF Turned, Rows, x

(* A row that may be committed and is not skipped is valid and reviewed.    *)
LEMMA CommittableIs ==
    ASSUME NEW cat, NEW entity, NEW r, NEW row, RowHolds(cat, entity, r, row), CommittableRow(row), row.action # "SKIP"
    PROVE  row.validation = "VALID" /\ row.review # "PENDING"
BY DEF RowHolds, CommittableRow

(* A commit takes up a batch that is allowed.                               *)
LEMMA CheckIs ==
    ASSUME TypeInv, RowsInv, NEW q \in Requests, NEW b \in Batches, Check(q, b)
    PROVE  /\ \E n \in BatchRecord :
                /\ Turned(b, n) /\ n.status = batch[b].status /\ n.rows = Rows(b)
                /\ LookedAt(n)
                /\ n.reopened = batch[b].reopened /\ (Committing(b) # {} => n.shared)
           /\ batch[b].status = "ready"
           /\ commit[q].at = "idle" /\ commit' = [commit EXCEPT ![q] = [at |-> "checked", of |-> {b}]]
           /\ UNCHANGED <<catalog, decisions, applied>>
<1> DEFINE x == batch[b]
           s == x.shared \/ Committing(b) # {}
           n == [x EXCEPT !.shared = s]
<1>1. x \in BatchRecord
  BY DEF TypeInv
<1>2. batch' = [batch EXCEPT ![b] = n]
  BY Zenon DEF Check
<1>3. s \in BOOLEAN
  BY DEF BatchRecord
<1> HIDE DEF s
<1>4. n \in BatchRecord
  BY <1>1, <1>3, RecordFields, Zenon
<1>5. n.status = x.status /\ n.file = x.file /\ n.rows = x.rows /\ n.knew = x.knew
      /\ n.reopened = x.reopened /\ n.shared = s
  BY <1>1, RecordFields, Zenon
<1> HIDE DEF n
<1>6. Turned(b, n)
  BY <1>2, <1>4, <1>5 DEF Turned, SameRows, s
<1>7. x.status = "ready" /\ \A i \in DOMAIN x.rows : CommittableRow(x.rows[i])
  BY DEF Check, CommitAllowed, Rows
<1>8. LookedAt(n)
  <2>1. \A i \in DOMAIN x.rows : x.rows[i].action # "SKIP" =>
           x.rows[i].validation = "VALID" /\ x.rows[i].review # "PENDING"
    BY <1>7, CommittableIs DEF RowsInv, RowsHold
  <2> QED
    BY <1>5, <1>7, <2>1 DEF LookedAt
<1>9. commit[q].at = "idle" /\ commit' = [commit EXCEPT ![q] = [at |-> "checked", of |-> {b}]]
      /\ UNCHANGED <<catalog, decisions, applied>>
  BY DEF Check
<1> QED
  BY <1>4, <1>5, <1>6, <1>7, <1>8, <1>9 DEF s, Rows

(* The bootstrap command approves rows and takes the batch up, or leaves it. *)
LEMMA BootstrapIs ==
    ASSUME TypeInv, RowsInv, NEW q \in Requests, NEW b \in Batches, Bootstrap(q, b)
    PROVE  /\ \E n \in BatchRecord, at \in {"checked", "done"} :
                /\ Turned(b, n) /\ n.status = "ready"
                /\ \A j \in DOMAIN Rows(b) : n.rows[j].review = "PENDING" => Rows(b)[j].review = "PENDING"
                /\ at = "checked" => LookedAt(n)
                /\ n.reopened = batch[b].reopened /\ (Committing(b) # {} => n.shared)
                /\ commit' = [commit EXCEPT ![q] = [at |-> at, of |-> {b}]]
           /\ batch[b].status \in {"review_required", "ready"}
           /\ commit[q].at = "idle"
           /\ UNCHANGED <<catalog, decisions, applied>>
<1> DEFINE x == batch[b]
           s == x.shared \/ Committing(b) # {}
<1>1. x \in BatchRecord /\ x.rows \in Seq(StagedRow) /\ Rows(b) = x.rows
  BY RecordFields DEF TypeInv, Rows
<1>2. PICK approved \in SUBSET {i \in DOMAIN x.rows : x.rows[i].validation = "VALID"} :
         LET rows == [i \in DOMAIN x.rows |->
                        IF i \in approved THEN [x.rows[i] EXCEPT !.review = "APPROVED"] ELSE x.rows[i]]
         IN  /\ batch' = [batch EXCEPT ![b].status = "ready", ![b].rows = rows,
                                       ![b].shared = @ \/ Committing(b) # {}]
             /\ commit' = [commit EXCEPT ![q] =
                  [at |-> IF \A i \in DOMAIN rows : CommittableRow(rows[i]) THEN "checked" ELSE "done",
                   of |-> {b}]]
  BY Zenon DEF Bootstrap, Rows
<1> DEFINE rows == [i \in DOMAIN x.rows |->
                      IF i \in approved THEN [x.rows[i] EXCEPT !.review = "APPROVED"] ELSE x.rows[i]]
           n == [x EXCEPT !.status = "ready", !.rows = rows, !.shared = s]
           at == IF \A i \in DOMAIN rows : CommittableRow(rows[i]) THEN "checked" ELSE "done"
<1>3. DOMAIN batch = Batches /\ DOMAIN x = {"status", "file", "rows", "knew", "reopened", "shared"}
  BY <1>1, RecordFields DEF TypeInv
<1>4. batch' = [batch EXCEPT ![b] = n]
  <2> HIDE DEF rows
  <2>1. batch' = [batch EXCEPT ![b].status = "ready", ![b].rows = rows, ![b].shared = @ \/ Committing(b) # {}]
    BY <1>2, Zenon DEF rows
  <2> QED
    BY <1>3, <2>1, Zenon
<1>5. commit' = [commit EXCEPT ![q] = [at |-> at, of |-> {b}]]
  BY <1>2, Zenon
<1>6. "APPROVED" \in Reviews /\ "ready" \in BatchStatus
  BY DEF Reviews, BatchStatus
<1>7. rows \in Seq(StagedRow) /\ Len(rows) = Len(x.rows) /\ DOMAIN rows = DOMAIN x.rows
      /\ \A i \in DOMAIN x.rows :
            /\ rows[i].validation = x.rows[i].validation /\ rows[i].action = x.rows[i].action
            /\ rows[i].product = x.rows[i].product /\ rows[i].offer = x.rows[i].offer
            /\ rows[i].review \in {x.rows[i].review, "APPROVED"}
  <2> DEFINE good(i, r) == /\ r \in StagedRow
                           /\ r.validation = x.rows[i].validation /\ r.action = x.rows[i].action
                           /\ r.product = x.rows[i].product /\ r.offer = x.rows[i].offer
                           /\ r.review \in {x.rows[i].review, "APPROVED"}
  <2>1. \A r \in StagedRow : LET a == [r EXCEPT !.review = "APPROVED"]
                             IN  /\ a \in StagedRow /\ a.validation = r.validation /\ a.action = r.action
                                 /\ a.product = r.product /\ a.offer = r.offer /\ a.review = "APPROVED"
    BY <1>6 DEF StagedRow
  <2>2. \A i \in DOMAIN x.rows : x.rows[i] \in StagedRow
    BY <1>1
  <2> HIDE DEF x
  <2>3. \A i \in DOMAIN x.rows : good(i, rows[i])
    BY <2>1, <2>2
  <2>4. DOMAIN rows = DOMAIN x.rows
    OBVIOUS
  <2> HIDE DEF rows
  <2>5. DOMAIN x.rows = 1..Len(x.rows) /\ Len(x.rows) \in Nat
    BY <1>1
  <2>6. rows = [i \in 1..Len(x.rows) |-> rows[i]]
    BY <2>4, <2>5 DEF rows
  <2>7. rows \in Seq(StagedRow) /\ Len(rows) = Len(x.rows)
    BY <2>3, <2>5, <2>6
  <2> QED
    BY <2>3, <2>4, <2>7
<1>8. s \in BOOLEAN
  BY DEF BatchRecord
<1> HIDE DEF s, rows
<1>9. n \in BatchRecord
  BY <1>1, <1>6, <1>7, <1>8, RecordFields, Zenon
<1>10. n.status = "ready" /\ n.file = x.file /\ n.rows = rows /\ n.knew = x.knew
       /\ n.reopened = x.reopened /\ n.shared = s
  BY <1>3, Zenon
<1> HIDE DEF n
<1>11. Turned(b, n)
  BY <1>4, <1>7, <1>9, <1>10 DEF Turned, SameRows, s
<1>12. at = "checked" => LookedAt(n)
  <2> SUFFICES ASSUME \A i \in DOMAIN rows : CommittableRow(rows[i]) PROVE LookedAt(n)
    OBVIOUS
  <2>1. \A i \in DOMAIN rows : rows[i].action # "SKIP" =>
           rows[i].validation = "VALID" /\ rows[i].review # "PENDING"
    <3> SUFFICES ASSUME NEW i \in DOMAIN rows, rows[i].action # "SKIP"
                 PROVE  rows[i].validation = "VALID" /\ rows[i].review # "PENDING"
      OBVIOUS
    <3>1. x.rows[i].validation = "DUPLICATE" => x.rows[i].action = "SKIP"
      BY <1>7 DEF RowsInv, RowsHold, RowHolds
    <3> QED
      BY <1>7, <3>1 DEF CommittableRow
  <2> QED
    BY <1>10, <2>1 DEF LookedAt
<1>13. at \in {"checked", "done"}
  OBVIOUS
<1> HIDE DEF at
<1>14. \A j \in DOMAIN x.rows : n.rows[j].review = "PENDING" => x.rows[j].review = "PENDING"
  BY <1>7, <1>10
<1>15. x.status \in {"review_required", "ready"} /\ commit[q].at = "idle" /\ UNCHANGED <<catalog, decisions, applied>>
  BY DEF Bootstrap
<1> QED
  BY <1>1, <1>5, <1>9, <1>10, <1>11, <1>12, <1>13, <1>14, <1>15 DEF s

(* A batch whose rows hold lets the catalog grow, row after row.            *)
LEMMA AfterRowsGrow ==
    ASSUME IsCatalog(catalog), NEW b, Entity(b) \in Entities, Len(Rows(b)) \in Nat, DOMAIN Rows(b) = 1..Len(Rows(b)),
           \A i \in DOMAIN Rows(b) : Matched(catalog, Rows(b)[i])
    PROVE  \A n \in 0..Len(Rows(b)) : Grows(catalog, AfterRows(b)[n])
<1> DEFINE N == Len(Rows(b))
           S == {n \in Nat : Grows(catalog, AfterRows(b)[n])}
<1>1. /\ AfterRows(b)[0] = catalog
      /\ \A n \in 1..N : AfterRows(b)[n] =
            IF Rows(b)[n].action = "SKIP" THEN AfterRows(b)[n - 1]
            ELSE CommitRow(AfterRows(b)[n - 1], Entity(b), Records(b)[n], Rows(b)[n], b)
  BY AfterRowsFollow
<1>2. 0 \in S
  BY <1>1 DEF Grows
<1>3. ASSUME NEW n \in 1..N, n - 1 \in S PROVE n \in S
  <2> DEFINE c == AfterRows(b)[n - 1]
  <2>1. Grows(catalog, c) /\ IsCatalog(c)
    BY <1>3 DEF Grows
  <2>2. Matched(c, Rows(b)[n])
    BY <2>1, MatchedStays
  <2>3. AfterRows(b)[n] = c \/ AfterRows(b)[n] = CommitRow(c, Entity(b), Records(b)[n], Rows(b)[n], b)
    BY <1>1
  <2>4. Grows(c, c)
    BY <2>1 DEF Grows
  <2> HIDE DEF c
  <2>5. Grows(c, AfterRows(b)[n])
    BY <2>1, <2>2, <2>3, <2>4, CommitGrows
  <2>6. Grows(catalog, AfterRows(b)[n])
    BY <2>1, <2>5, GrowsOn
  <2> QED
    BY <1>3, <2>6
<1>4. N \in Nat
  OBVIOUS
<1> HIDE DEF N, S
<1>5. \A n \in 0..N : n \in S
  BY <1>2, <1>3, <1>4, RowByRow
<1> QED
  BY <1>5 DEF N, S

LEMMA ResultGrows ==
    ASSUME TypeInv, RowsInv, NEW b \in Batches
    PROVE  /\ \A n \in 0..Len(Rows(b)) : Grows(catalog, AfterRows(b)[n])
           /\ Grows(catalog, Result(b)) /\ Len(Rows(b)) \in Nat
<1>1. batch[b] \in BatchRecord /\ IsCatalog(catalog)
  BY DEF TypeInv
<1>2. Entity(b) \in Entities /\ Rows(b) \in Seq(StagedRow)
  BY <1>1, RecordFields, FileIs, Zenon DEF Entity, Rows
<1>3. Len(Rows(b)) \in Nat /\ DOMAIN Rows(b) = 1..Len(Rows(b)) /\ Len(Rows(b)) \in 0..Len(Rows(b))
  BY <1>2
<1>4. \A i \in DOMAIN Rows(b) : Matched(catalog, Rows(b)[i])
  BY DEF RowsInv, RowsHold, RowHolds, Rows
<1>5. \A n \in 0..Len(Rows(b)) : Grows(catalog, AfterRows(b)[n])
  BY <1>1, <1>2, <1>3, <1>4, AfterRowsGrow
<1> QED
  BY <1>3, <1>5 DEF Result

(* A commit applies its batch.                                              *)
LEMMA ApplyIs ==
    ASSUME TypeInv, RowsInv, NEW q \in Requests, NEW b \in Batches, Apply(q, b)
    PROVE  /\ \E n \in BatchRecord :
                /\ Turned(b, n) /\ n.status = "completed" /\ n.rows = Rows(b)
                /\ n.reopened = batch[b].reopened /\ n.shared = batch[b].shared
           /\ Grows(catalog, catalog') /\ catalog' = Result(b) /\ Consistent(catalog')
           /\ commit[q].at = "checked" /\ b \in commit[q].of
           /\ commit' = [commit EXCEPT ![q] = [commit[q] EXCEPT !.at = "done"]]
           /\ applied' = Append(applied, b) /\ UNCHANGED decisions
<1> DEFINE x == batch[b]
           n == [x EXCEPT !.status = "completed"]
<1>1. x \in BatchRecord
  BY DEF TypeInv
<1>2. batch' = [batch EXCEPT ![b] = n]
  BY Zenon DEF Apply
<1>3. "completed" \in BatchStatus
  BY DEF BatchStatus
<1>4. n \in BatchRecord
  <2> HIDE DEF x
  <2> QED
    BY <1>1, <1>3, RecordFields, Zenon
<1>5. n.status = "completed" /\ n.file = x.file /\ n.rows = x.rows /\ n.knew = x.knew
      /\ n.reopened = x.reopened /\ n.shared = x.shared
  BY <1>1, RecordFields, Zenon
<1> HIDE DEF n
<1>6. Turned(b, n)
  BY <1>2, <1>4, <1>5 DEF Turned, SameRows
<1>7. Grows(catalog, catalog') /\ catalog' = Result(b) /\ Consistent(catalog')
  BY ResultGrows DEF Apply
<1>8. commit' = [commit EXCEPT ![q] = [commit[q] EXCEPT !.at = "done"]]
  BY Zenon DEF Apply
<1> QED
  BY <1>4, <1>5, <1>6, <1>7, <1>8 DEF Apply, Rows

LEMMA MarkFailedIs ==
    ASSUME TypeInv, RowsInv, NEW q \in Requests, NEW b \in Batches, MarkFailed(q, b)
    PROVE  /\ \E n \in BatchRecord :
                /\ Turned(b, n) /\ n.status = "failed" /\ n.rows = Rows(b)
                /\ n.reopened = batch[b].reopened /\ n.shared = batch[b].shared
           /\ commit[q].at = "rolledBack" /\ b \in commit[q].of
           /\ commit' = [commit EXCEPT ![q] = [commit[q] EXCEPT !.at = "done"]]
           /\ UNCHANGED <<catalog, decisions, applied>>
<1> DEFINE x == batch[b]
           n == [x EXCEPT !.status = "failed"]
<1>1. x \in BatchRecord
  BY DEF TypeInv
<1>2. batch' = [batch EXCEPT ![b] = n]
  BY Zenon DEF MarkFailed
<1>3. "failed" \in BatchStatus
  BY DEF BatchStatus
<1>4. n \in BatchRecord
  <2> HIDE DEF x
  <2> QED
    BY <1>1, <1>3, RecordFields, Zenon
<1>5. n.status = "failed" /\ n.file = x.file /\ n.rows = x.rows /\ n.knew = x.knew
      /\ n.reopened = x.reopened /\ n.shared = x.shared
  BY <1>1, RecordFields, Zenon
<1> HIDE DEF n
<1>6. Turned(b, n)
  BY <1>2, <1>4, <1>5 DEF Turned, SameRows
<1>7. commit' = [commit EXCEPT ![q] = [commit[q] EXCEPT !.at = "done"]]
  BY Zenon DEF MarkFailed
<1> QED
  BY <1>4, <1>5, <1>6, <1>7 DEF MarkFailed, Rows

LEMMA RollBackIs ==
    ASSUME TypeInv, NEW q \in Requests, RollBack(q)
    PROVE  /\ commit[q].at = "checked"
           /\ commit' = [commit EXCEPT ![q] = [commit[q] EXCEPT !.at = "rolledBack"]]
           /\ UNCHANGED <<catalog, batch, decisions, applied>>
<1>1. commit' = [commit EXCEPT ![q] = [commit[q] EXCEPT !.at = "rolledBack"]]
  BY Zenon DEF RollBack
<1> QED
  BY <1>1 DEF RollBack

-----------------------------------------------------------------------------
(* The records and the rows of a catalog that grows while a batch turns.    *)
LEMMA TurnKeeps ==
    ASSUME TypeInv, RowsInv, NEW b \in Batches, NEW n, Turned(b, n), Grows(catalog, catalog')
    PROVE  /\ IsCatalog(catalog') /\ batch' \in [Batches -> BatchRecord] /\ RowsInv'
           /\ batch'[b] = n /\ \A c \in Batches \ {b} : batch'[c] = batch[c]
<1>1. batch \in [Batches -> BatchRecord] /\ n \in BatchRecord /\ batch' = [batch EXCEPT ![b] = n]
  BY DEF TypeInv, Turned
<1>2. batch' \in [Batches -> BatchRecord] /\ batch'[b] = n /\ \A c \in Batches \ {b} : batch'[c] = batch[c]
  BY <1>1
<1>3. ASSUME NEW c \in Batches \ {b} PROVE RowsHold(catalog', batch[c])
  BY HoldsOn DEF RowsInv, RowsHold
<1>4. RowsHold(catalog', n)
  <2> DEFINE x == batch[b]
  <2>1. RowsHold(catalog, x) /\ n.file = x.file /\ DOMAIN n.rows = DOMAIN x.rows /\ Len(n.rows) = Len(x.rows)
    BY DEF RowsInv, Turned, SameRows
  <2>2. n.rows \in Seq(StagedRow)
    BY <1>1, RecordFields
  <2>3. ASSUME NEW i \in DOMAIN n.rows
        PROVE  RowHolds(catalog', n.file.entity, n.file.records[i], n.rows[i])
    <3>1. RowHolds(catalog', n.file.entity, n.file.records[i], x.rows[i])
      BY <2>1, <2>3, HoldsOn DEF RowsHold
    <3>2. n.rows[i] \in StagedRow
      BY <2>2
    <3>3. /\ n.rows[i].validation = x.rows[i].validation /\ n.rows[i].action = x.rows[i].action
          /\ n.rows[i].product = x.rows[i].product /\ n.rows[i].offer = x.rows[i].offer
      BY <2>1 DEF Turned, SameRows
    <3> QED
      BY <3>1, <3>2, <3>3 DEF RowHolds, Matched
  <2> QED
    BY <2>1, <2>3 DEF RowsHold
<1>5. RowsInv'
  BY <1>2, <1>3, <1>4 DEF RowsInv
<1> QED
  BY <1>2, <1>5 DEF Grows

(* A record that was looked at stays so when reviews turn.                  *)
LEMMA StaysLookedAt ==
    ASSUME NEW old, LookedAt(old), NEW new, SameRows(old, new), new.status \notin {"absent", "staging"},
           \A j \in DOMAIN old.rows : new.rows[j].review = "PENDING" => old.rows[j].review = "PENDING"
    PROVE  LookedAt(new)
BY DEF LookedAt, SameRows

-----------------------------------------------------------------------------
LEMMA BatchInit == Init => BatchInv
<1> SUFFICES ASSUME Init PROVE BatchInv
  OBVIOUS
<1>1. \A f \in Files : Absent(f) \in BatchRecord
  <2>1. "absent" \in BatchStatus /\ <<>> \in Seq(StagedRow)
    BY DEF BatchStatus
  <2> QED
    BY <2>1 DEF Absent, BatchRecord
<1>2. ASSUME NEW b \in Batches
      PROVE  /\ batch[b] \in BatchRecord /\ batch[b].status = "absent" /\ batch[b].rows = <<>>
  <2>1. PICK f \in Files : batch[b] = Absent(f)
    BY DEF Init
  <2> QED
    BY <1>1, <2>1 DEF Absent
<1>3. TypeInv
  <2>1. batch \in [Batches -> BatchRecord]
    BY <1>2 DEF Init
  <2>2. commit \in [Requests -> CommitRecord]
    BY DEF Init, CommitRecord
  <2> QED
    BY <2>1, <2>2, FirstCatalogAssumption, MaxDecisionsAssumption DEF Init, TypeInv
<1>4. RowsInv
  <2> SUFFICES ASSUME NEW b \in Batches PROVE RowsHold(catalog, batch[b])
    BY DEF RowsInv
  <2>1. batch[b].file \in Files
    BY <1>2, RecordFields
  <2> QED
    BY <1>2, <2>1, FileIs DEF RowsHold
<1>5. CommitInv
  BY DEF Init, CommitInv, Open
<1>6. AppliedInv
  <2>1. DOMAIN applied = {} /\ Range(applied) = {}
    BY DEF Init, Range
  <2> QED
    BY <1>2, <2>1 DEF AppliedInv, StatusTellsApplied
<1> QED
  BY <1>3, <1>4, <1>5, <1>6 DEF BatchInv

(* One batch gets another record while no commit moves.                     *)
LEMMA CommitsStay ==
    ASSUME BatchInv, NEW b \in Batches, NEW n, batch' = [batch EXCEPT ![b] = n], UNCHANGED <<commit, applied>>,
           LookedAt(batch[b]) => LookedAt(n),
           batch[b].reopened => n.reopened, batch[b].shared => n.shared,
           n.reopened \/ (n.status = "completed" <=> batch[b].status = "completed")
    PROVE  CommitInv' /\ AppliedInv'
<1>1. batch'[b] = n /\ \A c \in Batches \ {b} : batch'[c] = batch[c]
  BY DEF BatchInv, TypeInv
<1>2. Range(applied) \subseteq Batches /\ \A q \in Requests : commit[q].of \subseteq Batches
  BY DEF BatchInv, TypeInv, Range, CommitRecord
<1>3. \A c \in Batches : /\ LookedAt(batch[c]) => LookedAt(batch'[c])
                         /\ ~Retaken(c)' => ~Retaken(c)
                         /\ ~Retaken(c)' => (batch'[c].status = "completed" <=> batch[c].status = "completed")
                         /\ batch[c].shared => batch'[c].shared
  BY <1>1 DEF Retaken
<1>4. \A q : Open(q)' <=> Open(q)
  BY DEF Open
<1>5. CommitInv'
  <2>1. ASSUME NEW q \in Requests, NEW c \in commit'[q].of, Open(q)'
        PROVE  /\ LookedAt(batch'[c])
               /\ ~Retaken(c)' => c \notin Range(applied') /\ batch'[c].status # "completed"
    BY <1>2, <1>3, <1>4, <2>1 DEF BatchInv, CommitInv
  <2>2. ASSUME NEW p \in Requests, NEW q \in Requests, NEW c \in commit'[p].of \cap commit'[q].of, Open(p)', Open(q)'
        PROVE  p = q \/ batch'[c].shared
    BY <1>2, <1>3, <1>4, <2>2 DEF BatchInv, CommitInv
  <2> QED
    BY <2>1, <2>2 DEF CommitInv
<1>6. AppliedInv'
  <2>1. \A c \in Range(applied') : LookedAt(batch'[c])
    BY <1>2, <1>3 DEF BatchInv, AppliedInv
  <2>2. StatusTellsApplied'
    BY <1>3 DEF BatchInv, AppliedInv, StatusTellsApplied
  <2> QED
    BY <2>1, <2>2 DEF AppliedInv
<1> QED
  BY <1>5, <1>6

(* A call takes a batch up, or looks at it and ends.                        *)
LEMMA CommitsBegin ==
    ASSUME BatchInv, NEW b \in Batches, NEW n, batch' = [batch EXCEPT ![b] = n], UNCHANGED applied,
           NEW q \in Requests, NEW at \in {"checked", "done"},
           commit[q].at = "idle", commit' = [commit EXCEPT ![q] = [at |-> at, of |-> {b}]],
           at = "checked" => LookedAt(n), LookedAt(batch[b]) => LookedAt(n),
           n.reopened = batch[b].reopened, batch[b].shared => n.shared, Committing(b) # {} => n.shared,
           batch[b].status # "completed", n.status # "completed"
    PROVE  commit' \in [Requests -> CommitRecord] /\ CommitInv' /\ AppliedInv'
<1>1. batch'[b] = n /\ \A c \in Batches \ {b} : batch'[c] = batch[c]
  BY DEF BatchInv, TypeInv
<1>2. Range(applied) \subseteq Batches /\ \A p \in Requests : commit[p].of \subseteq Batches
  BY DEF BatchInv, TypeInv, Range, CommitRecord
<1>3. \A c \in Batches : /\ LookedAt(batch[c]) => LookedAt(batch'[c])
                         /\ ~Retaken(c)' => ~Retaken(c)
                         /\ batch'[c].status = "completed" <=> batch[c].status = "completed"
                         /\ batch[c].shared => batch'[c].shared
  BY <1>1 DEF Retaken
<1>4. commit' \in [Requests -> CommitRecord]
  BY DEF BatchInv, TypeInv, CommitRecord
<1>5. /\ commit'[q].at = at /\ commit'[q].of = {b} /\ (Open(q)' <=> at = "checked") /\ ~Open(q)
      /\ \A p \in Requests \ {q} : commit'[p] = commit[p] /\ (Open(p)' <=> Open(p))
  BY DEF BatchInv, TypeInv, Open
<1>6. ASSUME NEW p \in Requests \ {q}, Open(p), b \in commit[p].of PROVE n.shared
  BY <1>6 DEF Committing, Open
<1>7. CommitInv'
  <2>1. ASSUME NEW p \in Requests, NEW c \in commit'[p].of, Open(p)'
        PROVE  /\ LookedAt(batch'[c])
               /\ ~Retaken(c)' => c \notin Range(applied') /\ batch'[c].status # "completed"
    <3>1. CASE p = q
      <4>1. c = b /\ at = "checked"
        BY <1>5, <2>1, <3>1
      <4>2. ~Retaken(b) => b \notin Range(applied)
        BY DEF BatchInv, AppliedInv, StatusTellsApplied
      <4> QED
        BY <1>1, <1>3, <4>1, <4>2
    <3>2. CASE p # q
      BY <1>2, <1>3, <1>5, <2>1, <3>2 DEF BatchInv, CommitInv
    <3> QED
      BY <3>1, <3>2
  <2>2. ASSUME NEW p \in Requests, NEW r \in Requests, NEW c \in commit'[p].of \cap commit'[r].of,
               Open(p)', Open(r)', p # r
        PROVE  batch'[c].shared
    <3>1. CASE p # q /\ r # q
      BY <1>2, <1>3, <1>5, <2>2, <3>1 DEF BatchInv, CommitInv
    <3>2. CASE p = q
      BY <1>1, <1>5, <1>6, <2>2, <3>2
    <3>3. CASE r = q
      BY <1>1, <1>5, <1>6, <2>2, <3>3
    <3> QED
      BY <3>1, <3>2, <3>3
  <2> QED
    BY <2>1, <2>2 DEF CommitInv
<1>8. AppliedInv'
  <2>1. \A c \in Range(applied') : LookedAt(batch'[c])
    BY <1>2, <1>3 DEF BatchInv, AppliedInv
  <2>2. StatusTellsApplied'
    BY <1>3 DEF BatchInv, AppliedInv, StatusTellsApplied
  <2> QED
    BY <2>1, <2>2 DEF AppliedInv
<1> QED
  BY <1>4, <1>7, <1>8

(* A call ends, by the failure or by the completion of its batch.           *)
LEMMA CommitsEnd ==
    ASSUME BatchInv, NEW b \in Batches, NEW n, batch' = [batch EXCEPT ![b] = n],
           NEW q \in Requests, Open(q), b \in commit[q].of,
           commit' = [commit EXCEPT ![q] = [commit[q] EXCEPT !.at = "done"]],
           LookedAt(batch[b]) => LookedAt(n),
           n.reopened = batch[b].reopened, n.shared = batch[b].shared,
           \/ n.status = "failed" /\ UNCHANGED applied
           \/ n.status = "completed" /\ applied' = Append(applied, b)
    PROVE  commit' \in [Requests -> CommitRecord] /\ applied' \in Seq(Batches) /\ CommitInv' /\ AppliedInv'
<1>1. batch'[b] = n /\ \A c \in Batches \ {b} : batch'[c] = batch[c]
  BY DEF BatchInv, TypeInv
<1>2. applied \in Seq(Batches) /\ Range(applied) \subseteq Batches /\ \A p \in Requests : commit[p].of \subseteq Batches
  BY DEF BatchInv, TypeInv, Range, CommitRecord
<1>3. \A c \in Batches : /\ LookedAt(batch[c]) => LookedAt(batch'[c])
                         /\ Retaken(c)' <=> Retaken(c)
                         /\ batch'[c].shared = batch[c].shared
  BY <1>1 DEF Retaken
<1>4. commit' \in [Requests -> CommitRecord]
  BY DEF BatchInv, TypeInv, CommitRecord
<1>5. /\ ~Open(q)'
      /\ \A p \in Requests \ {q} : commit'[p] = commit[p] /\ (Open(p)' <=> Open(p))
  BY DEF BatchInv, TypeInv, Open, CommitRecord
<1>6. /\ LookedAt(batch[b])
      /\ ~Retaken(b) => b \notin Range(applied)
      /\ \A p \in Requests \ {q} : Open(p) /\ b \in commit[p].of => batch[b].shared
  BY DEF BatchInv, CommitInv
<1>7. /\ applied' \in Seq(Batches) /\ Range(applied') \subseteq Range(applied) \cup {b}
      /\ b \in Range(applied') <=> b \in Range(applied) \/ n.status = "completed"
      /\ Range(applied) \subseteq Range(applied')
  <2>1. CASE UNCHANGED applied /\ n.status = "failed"
    BY <1>2, <2>1
  <2>2. CASE applied' = Append(applied, b) /\ n.status = "completed"
    <3>1. applied \in Seq(Range(applied))
      BY <1>2 DEF Range
    <3>2. Range(applied') = Range(applied) \cup {b}
      BY <2>2, <3>1, Longer
    <3> QED
      BY <1>2, <2>2, <3>2
  <2> QED
    BY <2>1, <2>2
<1>8. CommitInv'
  <2>1. ASSUME NEW p \in Requests, NEW c \in commit'[p].of, Open(p)'
        PROVE  /\ LookedAt(batch'[c])
               /\ ~Retaken(c)' => c \notin Range(applied') /\ batch'[c].status # "completed"
    <3>1. p # q /\ c \in commit[p].of /\ Open(p) /\ c \in Batches
      BY <1>2, <1>5, <2>1
    <3>2. LookedAt(batch[c]) /\ (~Retaken(c) => c \notin Range(applied) /\ batch[c].status # "completed")
      BY <3>1 DEF BatchInv, CommitInv
    <3>3. CASE c = b
      BY <1>3, <1>6, <3>1, <3>2, <3>3 DEF Retaken
    <3>4. CASE c # b
      BY <1>1, <1>3, <1>7, <3>1, <3>2, <3>4
    <3> QED
      BY <3>3, <3>4
  <2>2. ASSUME NEW p \in Requests, NEW r \in Requests, NEW c \in commit'[p].of \cap commit'[r].of,
               Open(p)', Open(r)'
        PROVE  p = r \/ batch'[c].shared
    BY <1>2, <1>3, <1>5, <2>2 DEF BatchInv, CommitInv
  <2> QED
    BY <2>1, <2>2 DEF CommitInv
<1>9. AppliedInv'
  <2>1. \A c \in Range(applied') : LookedAt(batch'[c])
    BY <1>2, <1>3, <1>6, <1>7 DEF BatchInv, AppliedInv
  <2>2. ASSUME NEW c \in Batches, ~Retaken(c)'
        PROVE  /\ batch'[c].status = "completed" <=> c \in Range(applied')
               /\ \A i, j \in DOMAIN applied' : applied'[i] = c /\ applied'[j] = c => i = j
    <3>1. /\ batch[c].status = "completed" <=> c \in Range(applied)
          /\ \A i, j \in DOMAIN applied : applied[i] = c /\ applied[j] = c => i = j
      BY <1>3, <2>2 DEF BatchInv, AppliedInv, StatusTellsApplied
    <3>2. ~Retaken(c)
      BY <1>3, <2>2
    <3>3. batch'[c].status = "completed" <=> c \in Range(applied')
      <4>1. CASE c = b
        BY <1>1, <1>6, <1>7, <3>2, <4>1
      <4>2. CASE c # b
        BY <1>1, <1>7, <3>1, <4>2
      <4> QED
        BY <4>1, <4>2
    <3>4. \A i, j \in DOMAIN applied' : applied'[i] = c /\ applied'[j] = c => i = j
      <4>1. CASE UNCHANGED applied
        BY <3>1, <4>1
      <4>2. CASE applied' = Append(applied, b)
        <5>1. /\ DOMAIN applied' = 1..(Len(applied) + 1) /\ DOMAIN applied = 1..Len(applied) /\ Len(applied) \in Nat
              /\ applied'[Len(applied) + 1] = b /\ \A i \in DOMAIN applied : applied'[i] = applied[i]
          BY <1>2, <4>2
        <5>2. \A i \in DOMAIN applied' : i \in DOMAIN applied \/ i = Len(applied) + 1
          BY <5>1
        <5>3. c = b => \A i \in DOMAIN applied : applied[i] # c
          BY <1>6, <3>2 DEF Range
        <5> QED
          BY <3>1, <5>1, <5>2, <5>3
      <4> QED
        BY <4>1, <4>2
    <3> QED
      BY <3>3, <3>4
  <2> QED
    BY <2>1, <2>2 DEF AppliedInv, StatusTellsApplied
<1> QED
  BY <1>4, <1>7, <1>8, <1>9

LEMMA Looks ==
    ASSUME NEW x, NEW n, SameRows(x, n), x.status \notin {"absent", "staging"} => n.status \notin {"absent", "staging"},
           \A j \in DOMAIN x.rows : n.rows[j].review = "PENDING" => x.rows[j].review = "PENDING"
    PROVE  LookedAt(x) => LookedAt(n)
BY DEF LookedAt, SameRows

LEMMA BatchNext == BatchInv /\ [Next]_vars => BatchInv'
<1> SUFFICES ASSUME BatchInv, [Next]_vars PROVE BatchInv'
  OBVIOUS
<1>1. TypeInv /\ RowsInv /\ Grows(catalog, catalog)
  BY DEF BatchInv, TypeInv, Grows
<1>2. ASSUME NEW b \in Batches, StageRow(b) PROVE BatchInv'
  <2>1. PICK n \in BatchRecord :
           /\ batch' = [batch EXCEPT ![b] = n] /\ RowsHold(catalog, n)
           /\ n.status = "staging" /\ n.reopened = batch[b].reopened /\ n.shared = batch[b].shared
    BY <1>1, <1>2, StageRowIs
  <2>2. batch[b].status \in {"absent", "staging"} /\ UNCHANGED <<catalog, commit, decisions, applied>>
    BY <1>1, <1>2, StageRowIs
  <2>3. CommitInv' /\ AppliedInv'
    BY <2>1, <2>2, CommitsStay DEF LookedAt
  <2>4. TypeInv' /\ RowsInv'
    BY <1>1, <2>1, <2>2 DEF TypeInv, RowsInv
  <2> QED
    BY <2>3, <2>4 DEF BatchInv
<1>3. ASSUME NEW b \in Batches, NEW n, Turned(b, n), UNCHANGED <<catalog, commit, applied>>, decisions' \in 0..MaxDecisions,
             LookedAt(batch[b]) => LookedAt(n),
             n.reopened \/ (n.status = "completed" <=> batch[b].status = "completed")
      PROVE  BatchInv'
  <2>1. CommitInv' /\ AppliedInv'
    BY <1>3, CommitsStay DEF Turned
  <2>2. TypeInv' /\ RowsInv'
    BY <1>1, <1>3, TurnKeeps DEF TypeInv
  <2> QED
    BY <2>1, <2>2 DEF BatchInv
<1>4. ASSUME NEW b \in Batches, StageResult(b) PROVE BatchInv'
  <2>1. PICK n \in BatchRecord : Turned(b, n) /\ n.status \in {"review_required", "ready"}
    BY <1>1, <1>4, StageResultIs
  <2>2. batch[b].status = "staging" /\ UNCHANGED <<catalog, commit, decisions, applied>>
    BY <1>1, <1>4, StageResultIs
  <2>3. decisions' \in 0..MaxDecisions
    BY <1>1, <2>2 DEF TypeInv
  <2> QED
    BY <1>3, <2>1, <2>2, <2>3 DEF LookedAt
<1>5. ASSUME NEW b \in Batches, NEW i \in DOMAIN Rows(b), Approve(b, i) PROVE BatchInv'
  <2>1. PICK n \in BatchRecord :
           /\ Turned(b, n) /\ n.status \in {batch[b].status, "ready"}
           /\ batch[b].status = "completed" => n.status = "completed" \/ n.reopened
           /\ \A j \in DOMAIN Rows(b) : n.rows[j].review = "PENDING" => Rows(b)[j].review = "PENDING"
    BY <1>1, <1>5, ApproveIs
  <2>2. Staged(b) /\ decisions' \in 0..MaxDecisions /\ UNCHANGED <<catalog, commit, applied>>
    BY <1>1, <1>5, ApproveIs
  <2>3. LookedAt(batch[b]) => LookedAt(n)
    BY <2>1, Looks DEF Turned, Rows
  <2> QED
    BY <1>3, <2>1, <2>2, <2>3
<1>6. ASSUME NEW b \in Batches, NEW i \in DOMAIN Rows(b), Reject(b, i) PROVE BatchInv'
  <2>1. PICK n \in BatchRecord :
           /\ Turned(b, n) /\ n.status = batch[b].status
           /\ \A j \in DOMAIN Rows(b) : n.rows[j].review = "PENDING" => Rows(b)[j].review = "PENDING"
    BY <1>1, <1>6, RejectIs
  <2>2. Staged(b) /\ decisions' \in 0..MaxDecisions /\ UNCHANGED <<catalog, commit, applied>>
    BY <1>1, <1>6, RejectIs
  <2>3. LookedAt(batch[b]) => LookedAt(n)
    BY <2>1, Looks DEF Turned, Rows
  <2> QED
    BY <1>3, <2>1, <2>2, <2>3
<1>7. ASSUME NEW q \in Requests, NEW b \in Batches, Check(q, b) PROVE BatchInv'
  <2>1. PICK n \in BatchRecord :
           /\ Turned(b, n) /\ n.status = batch[b].status /\ LookedAt(n)
           /\ n.reopened = batch[b].reopened /\ (Committing(b) # {} => n.shared)
    BY <1>1, <1>7, CheckIs
  <2>2. /\ batch[b].status = "ready" /\ commit[q].at = "idle"
        /\ commit' = [commit EXCEPT ![q] = [at |-> "checked", of |-> {b}]]
        /\ UNCHANGED <<catalog, decisions, applied>>
    BY <1>1, <1>7, CheckIs
  <2>3. commit' \in [Requests -> CommitRecord] /\ CommitInv' /\ AppliedInv'
    BY <2>1, <2>2, CommitsBegin DEF Turned
  <2>4. TypeInv' /\ RowsInv'
    BY <1>1, <2>1, <2>2, <2>3, TurnKeeps DEF TypeInv
  <2> QED
    BY <2>3, <2>4 DEF BatchInv
<1>8. ASSUME NEW q \in Requests, NEW b \in Batches, Bootstrap(q, b) PROVE BatchInv'
  <2>1. PICK n \in BatchRecord, at \in {"checked", "done"} :
           /\ Turned(b, n) /\ n.status = "ready"
           /\ \A j \in DOMAIN Rows(b) : n.rows[j].review = "PENDING" => Rows(b)[j].review = "PENDING"
           /\ at = "checked" => LookedAt(n)
           /\ n.reopened = batch[b].reopened /\ (Committing(b) # {} => n.shared)
           /\ commit' = [commit EXCEPT ![q] = [at |-> at, of |-> {b}]]
    BY <1>1, <1>8, BootstrapIs
  <2>2. /\ batch[b].status \in {"review_required", "ready"} /\ commit[q].at = "idle"
        /\ UNCHANGED <<catalog, decisions, applied>>
    BY <1>1, <1>8, BootstrapIs
  <2>3. LookedAt(batch[b]) => LookedAt(n)
    BY <2>1, Looks DEF Turned, Rows
  <2>4. commit' \in [Requests -> CommitRecord] /\ CommitInv' /\ AppliedInv'
    BY <2>1, <2>2, <2>3, CommitsBegin DEF Turned
  <2>5. TypeInv' /\ RowsInv'
    BY <1>1, <2>1, <2>2, <2>4, TurnKeeps DEF TypeInv
  <2> QED
    BY <2>4, <2>5 DEF BatchInv
<1>9. ASSUME NEW q \in Requests, NEW b \in Batches, Apply(q, b) PROVE BatchInv'
  <2>1. PICK n \in BatchRecord :
           /\ Turned(b, n) /\ n.status = "completed" /\ n.rows = Rows(b)
           /\ n.reopened = batch[b].reopened /\ n.shared = batch[b].shared
    BY <1>1, <1>9, ApplyIs
  <2>2. /\ Grows(catalog, catalog') /\ commit[q].at = "checked" /\ b \in commit[q].of
        /\ commit' = [commit EXCEPT ![q] = [commit[q] EXCEPT !.at = "done"]]
        /\ applied' = Append(applied, b) /\ UNCHANGED decisions
    BY <1>1, <1>9, ApplyIs
  <2>3. LookedAt(batch[b]) => LookedAt(n)
    BY <2>1, Looks DEF Turned, Rows
  <2>4. commit' \in [Requests -> CommitRecord] /\ applied' \in Seq(Batches) /\ CommitInv' /\ AppliedInv'
    BY <2>1, <2>2, <2>3, CommitsEnd DEF Turned, Open
  <2>5. TypeInv' /\ RowsInv'
    BY <1>1, <2>1, <2>2, <2>4, TurnKeeps DEF TypeInv
  <2> QED
    BY <2>4, <2>5 DEF BatchInv
<1>10. ASSUME NEW q \in Requests, NEW b \in Batches, MarkFailed(q, b) PROVE BatchInv'
  <2>1. PICK n \in BatchRecord :
           /\ Turned(b, n) /\ n.status = "failed" /\ n.rows = Rows(b)
           /\ n.reopened = batch[b].reopened /\ n.shared = batch[b].shared
    BY <1>1, <1>10, MarkFailedIs
  <2>2. /\ commit[q].at = "rolledBack" /\ b \in commit[q].of
        /\ commit' = [commit EXCEPT ![q] = [commit[q] EXCEPT !.at = "done"]]
        /\ UNCHANGED <<catalog, decisions, applied>>
    BY <1>1, <1>10, MarkFailedIs
  <2>3. LookedAt(batch[b]) => LookedAt(n)
    BY <2>1, Looks DEF Turned, Rows
  <2>4. commit' \in [Requests -> CommitRecord] /\ applied' \in Seq(Batches) /\ CommitInv' /\ AppliedInv'
    BY <2>1, <2>2, <2>3, CommitsEnd DEF Turned, Open
  <2>5. TypeInv' /\ RowsInv'
    BY <1>1, <2>1, <2>2, <2>4, TurnKeeps DEF TypeInv
  <2> QED
    BY <2>4, <2>5 DEF BatchInv
<1>11. ASSUME NEW q \in Requests, RollBack(q) PROVE BatchInv'
  <2>1. /\ commit[q].at = "checked"
        /\ commit' = [commit EXCEPT ![q] = [commit[q] EXCEPT !.at = "rolledBack"]]
        /\ UNCHANGED <<catalog, batch, decisions, applied>>
    BY <1>1, <1>11, RollBackIs
  <2>2. commit' \in [Requests -> CommitRecord] /\ \A p \in Requests : commit'[p].of = commit[p].of /\ (Open(p)' <=> Open(p))
    BY <1>1, <2>1 DEF TypeInv, CommitRecord, Open
  <2>3. CommitInv'
    <3>1. \A b : Retaken(b)' = Retaken(b)
      BY <2>1 DEF Retaken
    <3> QED
      BY <2>1, <2>2, <3>1 DEF BatchInv, CommitInv
  <2>4. TypeInv' /\ RowsInv' /\ AppliedInv'
    BY <1>1, <2>1, <2>2 DEF BatchInv, TypeInv, RowsInv, AppliedInv, StatusTellsApplied, Retaken
  <2> QED
    BY <2>3, <2>4 DEF BatchInv
<1>12. CASE UNCHANGED vars
  BY <1>12 DEF vars, BatchInv, TypeInv, RowsInv, CommitInv, Open, AppliedInv, StatusTellsApplied, Retaken
<1> QED
  BY <1>2, <1>4, <1>5, <1>6, <1>7, <1>8, <1>9, <1>10, <1>11, <1>12 DEF Next

(* What every state of the batches satisfies: each staged row matches       *)
(* something that the catalog has, a commit under way holds a batch that    *)
(* was ready, and the status of a batch tells whether it was applied.       *)
THEOREM BatchesKeep == Spec => []BatchInv
<1>1. Init => BatchInv
  BY BatchInit
<1>2. BatchInv /\ [Next]_vars => BatchInv'
  BY BatchNext
<1> QED
  BY <1>1, <1>2, PTL DEF Spec

(* A batch is applied once, as it was reviewed: whatever commit_batch       *)
(* applies was valid and had been reviewed where staging wanted a review,   *)
(* and a batch is recorded as completed exactly if it was applied, once,    *)
(* unless an approval made it ready again or two calls took it up at once.  *)
THEOREM BatchesAreAppliedAsReviewed == Spec => []AppliedAsReviewed
<1>1. BatchInv => AppliedAsReviewed
  <2> SUFFICES ASSUME BatchInv PROVE AppliedAsReviewed
    OBVIOUS
  <2>1. TypeOK
    <3>1. ASSUME NEW b \in Batches
          PROVE  /\ batch[b].status \in BatchStatus /\ batch[b].file \in Files
                 /\ batch[b].knew \in Seq(Batches) /\ batch[b].reopened \in BOOLEAN /\ batch[b].shared \in BOOLEAN
                 /\ Len(Rows(b)) <= Len(Records(b))
      <4>1. batch[b] \in BatchRecord
        BY DEF BatchInv, TypeInv
      <4>2. Len(Rows(b)) <= Len(Records(b))
        BY DEF BatchInv, RowsInv, RowsHold, Rows, Records
      <4> QED
        BY <4>1, <4>2, RecordFields
    <3>2. ASSUME NEW b \in Batches, NEW i \in DOMAIN Rows(b)
          PROVE  /\ Rows(b)[i].validation \in Validations /\ Rows(b)[i].review \in Reviews
                 /\ Rows(b)[i].action \in Actions
                 /\ Rows(b)[i].product \in {NoId} \cup DOMAIN catalog.products
                 /\ Rows(b)[i].offer \in {NoId} \cup DOMAIN catalog.offers
      <4>1. Rows(b)[i] \in StagedRow /\ Matched(catalog, Rows(b)[i])
        BY <3>2 DEF BatchInv, RowsInv, RowsHold, RowHolds, Rows
      <4> QED
        BY <4>1 DEF StagedRow, Matched
    <3>3. commit \in [Requests -> CommitRecord] /\ decisions \in 0..MaxDecisions /\ applied \in Seq(Batches)
      BY DEF BatchInv, TypeInv
    <3> QED
      BY <3>1, <3>2, <3>3 DEF TypeOK, Validations, Reviews, Actions, CommitRecord
  <2>2. OnlyReviewed
    BY DEF BatchInv, AppliedInv, LookedAt, OnlyReviewed, Rows
  <2> QED
    BY <2>1, <2>2 DEF BatchInv, AppliedInv, AppliedAsReviewed
<1> QED
  BY <1>1, BatchesKeep, PTL

-----------------------------------------------------------------------------
(* A step stages a row, applies a batch, or leaves catalog, history and the *)
(* matches of all rows alone.                                               *)
Kept(b) ==
    /\ SameRows(batch[b], batch'[b]) /\ batch'[b].knew = batch[b].knew
    /\ batch'[b].status = "absent" => batch[b].status = "absent"
    /\ Retaken(b) => Retaken(b)'
Quiet == UNCHANGED <<catalog, applied>> /\ \A b \in Batches : Kept(b)

LEMMA StepKinds ==
    ASSUME BatchInv, [Next]_vars
    PROVE  \/ Quiet
           \/ \E b \in Batches : StageRow(b)
           \/ \E q \in Requests, b \in Batches : Apply(q, b) /\ \A c \in Batches : Kept(c)
<1>1. TypeInv /\ RowsInv
  BY DEF BatchInv
<1>2. ASSUME NEW b \in Batches, NEW n, Turned(b, n), n.status = "absent" => batch[b].status = "absent"
      PROVE  \A c \in Batches : Kept(c)
  <2>1. batch'[b] = n /\ \A c \in Batches \ {b} : batch'[c] = batch[c]
    BY <1>1, <1>2 DEF Turned, TypeInv
  <2>2. \A c \in Batches : SameRows(batch[c], batch[c])
    BY DEF SameRows
  <2>3. Kept(b)
    BY <1>2, <2>1 DEF Turned, Kept, Retaken
  <2>4. ASSUME NEW c \in Batches \ {b} PROVE Kept(c)
    BY <2>1, <2>2 DEF Kept, Retaken
  <2> QED
    BY <2>3, <2>4
<1>3. ASSUME NEW b \in Batches, StageResult(b) PROVE Quiet
  BY <1>1, <1>2, <1>3, StageResultIs DEF Quiet
<1>4. ASSUME NEW b \in Batches, NEW i \in DOMAIN Rows(b), Approve(b, i) PROVE Quiet
  <2>1. PICK n \in BatchRecord : Turned(b, n) /\ n.status \in {batch[b].status, "ready"}
    BY <1>1, <1>4, ApproveIs
  <2>2. UNCHANGED <<catalog, applied>>
    BY <1>1, <1>4, ApproveIs
  <2> QED
    BY <1>2, <2>1, <2>2 DEF Quiet
<1>5. ASSUME NEW b \in Batches, NEW i \in DOMAIN Rows(b), Reject(b, i) PROVE Quiet
  <2>1. PICK n \in BatchRecord : Turned(b, n) /\ n.status = batch[b].status
    BY <1>1, <1>5, RejectIs
  <2>2. UNCHANGED <<catalog, applied>>
    BY <1>1, <1>5, RejectIs
  <2> QED
    BY <1>2, <2>1, <2>2 DEF Quiet
<1>6. ASSUME NEW q \in Requests, NEW b \in Batches, Check(q, b) PROVE Quiet
  <2>1. PICK n \in BatchRecord : Turned(b, n) /\ n.status = batch[b].status
    BY <1>1, <1>6, CheckIs
  <2>2. UNCHANGED <<catalog, applied>>
    BY <1>1, <1>6, CheckIs
  <2> QED
    BY <1>2, <2>1, <2>2 DEF Quiet
<1>7. ASSUME NEW q \in Requests, NEW b \in Batches, Bootstrap(q, b) PROVE Quiet
  <2>1. PICK n \in BatchRecord : Turned(b, n) /\ n.status = "ready"
    BY <1>1, <1>7, BootstrapIs
  <2>2. UNCHANGED <<catalog, applied>>
    BY <1>1, <1>7, BootstrapIs
  <2> QED
    BY <1>2, <2>1, <2>2 DEF Quiet
<1>8. ASSUME NEW q \in Requests, NEW b \in Batches, Apply(q, b) PROVE \A c \in Batches : Kept(c)
  <2>1. PICK n \in BatchRecord : Turned(b, n) /\ n.status = "completed"
    BY <1>1, <1>8, ApplyIs
  <2> QED
    BY <1>2, <2>1
<1>9. ASSUME NEW q \in Requests, NEW b \in Batches, MarkFailed(q, b) PROVE Quiet
  <2>1. PICK n \in BatchRecord : Turned(b, n) /\ n.status = "failed"
    BY <1>1, <1>9, MarkFailedIs
  <2>2. UNCHANGED <<catalog, applied>>
    BY <1>1, <1>9, MarkFailedIs
  <2> QED
    BY <1>2, <2>1, <2>2 DEF Quiet
<1>10. ASSUME UNCHANGED <<catalog, batch, applied>> PROVE Quiet
  BY <1>10 DEF Quiet, Kept, SameRows, Retaken
<1>11. ASSUME NEW q \in Requests, RollBack(q) PROVE Quiet
  BY <1>10, <1>11 DEF RollBack
<1>12. CASE UNCHANGED vars
  BY <1>10, <1>12 DEF vars
<1> QED
  BY <1>3, <1>4, <1>5, <1>6, <1>7, <1>8, <1>9, <1>11, <1>12 DEF Next

-----------------------------------------------------------------------------
(* The entries of the price history.                                        *)
Recorded(b, i) ==
    /\ i \in DOMAIN Rows(b) /\ Rows(b)[i].action # "SKIP"
    /\ \/ Entity(b) = "PRICE_OBSERVATION"
       \/ Entity(b) = "STORE_OFFER" /\ Rows(b)[i].offer # NoId
Entry(b, i) == [offer |-> Rows(b)[i].offer, price |-> Records(b)[i].price, at |-> Records(b)[i].at, by |-> b]

(* What a batch knew was applied; nothing is staged of an absent one.       *)
KnewInv ==
    \A b \in Batches :
        /\ Range(batch[b].knew) \subseteq Range(applied) /\ Len(batch[b].knew) <= Len(applied)
        /\ batch[b].status = "absent" => DOMAIN Rows(b) = {}

(* Entries come of applied batches, and these have entered all they record. *)
OriginInv ==
    \A b \in Batches : \A x \in DOMAIN catalog.history :
        catalog.history[x].by = b =>
            b \in Range(applied) /\ \E i \in DOMAIN Rows(b) : Recorded(b, i) /\ catalog.history[x] = Entry(b, i)
EnteredInv ==
    \A b \in Range(applied) : \A i \in DOMAIN Rows(b) :
        Recorded(b, i) => \E x \in DOMAIN catalog.history : catalog.history[x] = Entry(b, i)

(* A valid observation is news to what its batch knew, and to its file.     *)
Observes(h, r) == h.offer = r.offer /\ h.price = r.price /\ h.at = r.at
NewsInv ==
    \A b \in Batches : Entity(b) = "PRICE_OBSERVATION" =>
        /\ \A i \in DOMAIN Rows(b) : Rows(b)[i].validation = "VALID" =>
             \A x \in DOMAIN catalog.history :
                catalog.history[x].by \in Range(batch[b].knew) => ~Observes(catalog.history[x], Records(b)[i])
        /\ \A m, n \in DOMAIN Rows(b) :
             m # n /\ Rows(b)[m].validation = "VALID" /\ Rows(b)[n].validation = "VALID" =>
                Records(b)[m].offer # Records(b)[n].offer \/ Records(b)[m].at # Records(b)[n].at

(* A batch that was not taken up again entered each of its rows once.       *)
OnceInv ==
    \A b \in Batches : \A x, y \in DOMAIN catalog.history :
        x # y /\ catalog.history[x].by = b /\ catalog.history[y].by = b /\ ~Retaken(b) =>
            \E m, n \in DOMAIN Rows(b) :
                /\ m # n /\ Recorded(b, m) /\ Recorded(b, n)
                /\ catalog.history[x] = Entry(b, m) /\ catalog.history[y] = Entry(b, n)

HistoryInv == KnewInv /\ OriginInv /\ EnteredInv /\ NewsInv /\ OnceInv

LEMMA CommitHistory ==
    ASSUME NEW cat, IsCatalog(cat), NEW entity \in Entities, NEW r, NEW row, NEW by
    PROVE  CommitRow(cat, entity, r, row, by).history =
              IF entity = "PRICE_OBSERVATION" \/ (entity = "STORE_OFFER" /\ row.offer # NoId)
              THEN Append(cat.history, [offer |-> row.offer, price |-> r.price, at |-> r.at, by |-> by])
              ELSE cat.history
<1> DEFINE new == CommitRow(cat, entity, r, row, by)
<1>1. DOMAIN cat = {"products", "stores", "specs", "images", "offers", "history"}
  BY DEF IsCatalog, Tables
<1>2. CASE entity = "PRODUCT"
  <2>1. \E s : new = [cat EXCEPT !.products = s]
    BY <1>2, Zenon DEF CommitRow, CommitProduct
  <2> HIDE DEF new
  <2>2. new.history = cat.history
    BY <1>1, <2>1
  <2> QED
    BY <1>2, <2>2 DEF new
<1>3. CASE entity = "STORE"
  <2>1. new = cat \/ \E s : new = [cat EXCEPT !.stores = s]
    BY <1>3, Zenon DEF CommitRow, CommitStore
  <2> HIDE DEF new
  <2>2. new.history = cat.history
    BY <1>1, <2>1
  <2> QED
    BY <1>3, <2>2 DEF new
<1>4. CASE entity = "PRODUCT_SPECIFICATION" \/ entity = "PRODUCT_IMAGE_METADATA"
  <2>1. \E s : new = [cat EXCEPT !.specs = s] \/ new = [cat EXCEPT !.images = s]
    BY <1>4, Zenon DEF CommitRow
  <2> HIDE DEF new
  <2>2. new.history = cat.history
    BY <1>1, <2>1
  <2> QED
    BY <1>4, <2>2 DEF new
<1>5. CASE entity = "PRICE_OBSERVATION"
  <2> DEFINE s == Append(cat.history, [offer |-> row.offer, price |-> r.price, at |-> r.at, by |-> by])
  <2>1. new = [cat EXCEPT !.history = s]
    BY <1>5, Zenon DEF CommitRow
  <2> HIDE DEF new, s
  <2>2. new.history = s
    BY <1>1, <2>1
  <2> QED
    BY <1>5, <2>2 DEF new, s
<1>6. CASE entity = "STORE_OFFER" /\ row.offer = NoId
  <2>1. \E s : new = [cat EXCEPT !.offers = s]
    BY <1>6, Zenon DEF CommitRow, CommitOffer
  <2> HIDE DEF new
  <2>2. new.history = cat.history
    BY <1>1, <2>1
  <2> QED
    BY <1>6, <2>2 DEF new
<1>7. CASE entity = "STORE_OFFER" /\ row.offer # NoId
  <2> DEFINE s == Append(cat.history, [offer |-> row.offer, price |-> r.price, at |-> r.at, by |-> by])
  <2>1. \E o : new = [cat EXCEPT !.history = s, !.offers[row.offer] = o]
    BY <1>7, Zenon DEF CommitRow, CommitOffer
  <2>2. \E o : new = [cat EXCEPT !.history = s, !.offers = o]
    BY <2>1, Zenon
  <2> HIDE DEF new, s
  <2>3. new.history = s
    BY <1>1, <2>2, Zenon
  <2> QED
    BY <1>7, <2>3 DEF new, s
<1> QED
  BY <1>2, <1>3, <1>4, <1>5, <1>6, <1>7 DEF Entities

(* The price history after a batch: what was there, and after it one entry  *)
(* for each row that records one.                                           *)
Told(b, n) ==
    LET old == catalog.history
        new == AfterRows(b)[n].history
    IN  /\ DOMAIN old \subseteq DOMAIN new /\ \A x \in DOMAIN old : new[x] = old[x]
        /\ \A x \in DOMAIN new : x \in DOMAIN old \/ \E m \in 1..n : Recorded(b, m) /\ new[x] = Entry(b, m)
        /\ \A m \in 1..n : Recorded(b, m) => \E x \in DOMAIN new : new[x] = Entry(b, m)
        /\ \A x, y \in DOMAIN new \ DOMAIN old : x # y =>
              \E m, k \in 1..n : /\ m # k /\ Recorded(b, m) /\ Recorded(b, k)
                                 /\ new[x] = Entry(b, m) /\ new[y] = Entry(b, k)

LEMMA ToldOneMore ==
    ASSUME NEW b, NEW n \in Nat \ {0}, Told(b, n - 1),
           LET h == AfterRows(b)[n - 1].history
               k == AfterRows(b)[n].history
           IN  h \in Seq(Range(h)) /\ k = IF Recorded(b, n) THEN Append(h, Entry(b, n)) ELSE h
    PROVE  Told(b, n)
<1> DEFINE old == catalog.history
           h == AfterRows(b)[n - 1].history
           k == AfterRows(b)[n].history
<1>1. /\ DOMAIN old \subseteq DOMAIN h /\ \A x \in DOMAIN old : h[x] = old[x]
      /\ \A x \in DOMAIN h : x \in DOMAIN old \/ \E m \in 1..(n - 1) : Recorded(b, m) /\ h[x] = Entry(b, m)
      /\ \A m \in 1..(n - 1) : Recorded(b, m) => \E x \in DOMAIN h : h[x] = Entry(b, m)
      /\ \A x, y \in DOMAIN h \ DOMAIN old : x # y =>
            \E m, l \in 1..(n - 1) : /\ m # l /\ Recorded(b, m) /\ Recorded(b, l)
                                     /\ h[x] = Entry(b, m) /\ h[y] = Entry(b, l)
  BY DEF Told
<1>2. /\ \A m \in 1..(n - 1) : m \in 1..n /\ m # n
      /\ \A m \in 1..n : m \in 1..(n - 1) \/ m = n
      /\ n \in 1..n
  OBVIOUS
<1>3. CASE ~Recorded(b, n)
  <2>1. k = h
    BY <1>3
  <2> HIDE DEF h, k
  <2>2. \A x \in DOMAIN k : x \in DOMAIN old \/ \E m \in 1..n : Recorded(b, m) /\ k[x] = Entry(b, m)
    BY <1>1, <1>2, <2>1
  <2>3. \A m \in 1..n : Recorded(b, m) => \E x \in DOMAIN k : k[x] = Entry(b, m)
    BY <1>1, <1>2, <1>3, <2>1
  <2>4. ASSUME NEW x \in DOMAIN k \ DOMAIN old, NEW y \in DOMAIN k \ DOMAIN old, x # y
        PROVE  \E m, l \in 1..n : /\ m # l /\ Recorded(b, m) /\ Recorded(b, l)
                                  /\ k[x] = Entry(b, m) /\ k[y] = Entry(b, l)
    <3>1. PICK m \in 1..(n - 1), l \in 1..(n - 1) :
             m # l /\ Recorded(b, m) /\ Recorded(b, l) /\ h[x] = Entry(b, m) /\ h[y] = Entry(b, l)
      BY <1>1, <2>1, <2>4
    <3> QED
      BY <1>2, <2>1, <3>1
  <2> QED
    BY <1>1, <2>1, <2>2, <2>3, <2>4 DEF Told, k
<1>4. CASE Recorded(b, n)
  <2> DEFINE e == Entry(b, n)
             L == Len(h) + 1
  <2>1. h \in Seq(Range(h)) /\ k = Append(h, e)
    BY <1>4
  <2> HIDE DEF h, k, e
  <2>2. /\ DOMAIN k = 1..L /\ DOMAIN h = 1..Len(h) /\ Len(h) \in Nat /\ k[L] = e
        /\ \A x \in DOMAIN h : k[x] = h[x] /\ x \in DOMAIN k
    BY <2>1, Longer
  <2>3. L \in DOMAIN k /\ L \notin DOMAIN h /\ \A x \in DOMAIN k : x \in DOMAIN h \/ x = L
    BY <2>2
  <2> HIDE DEF L
  <2>4. DOMAIN old \subseteq DOMAIN k /\ \A x \in DOMAIN old : k[x] = old[x]
    BY <1>1, <2>2
  <2>5. \A x \in DOMAIN k : x \in DOMAIN old \/ \E m \in 1..n : Recorded(b, m) /\ k[x] = Entry(b, m)
    BY <1>1, <1>2, <1>4, <2>2, <2>3 DEF e
  <2>6. \A m \in 1..n : Recorded(b, m) => \E x \in DOMAIN k : k[x] = Entry(b, m)
    BY <1>1, <1>2, <2>2, <2>3 DEF e
  <2>7. ASSUME NEW x \in DOMAIN k \ DOMAIN old, NEW y \in DOMAIN k \ DOMAIN old, x # y
        PROVE  \E m, l \in 1..n : /\ m # l /\ Recorded(b, m) /\ Recorded(b, l)
                                  /\ k[x] = Entry(b, m) /\ k[y] = Entry(b, l)
    <3>1. CASE x # L /\ y # L
      <4>1. PICK m \in 1..(n - 1), l \in 1..(n - 1) :
               m # l /\ Recorded(b, m) /\ Recorded(b, l) /\ h[x] = Entry(b, m) /\ h[y] = Entry(b, l)
        BY <1>1, <2>3, <2>7, <3>1
      <4> QED
        BY <1>2, <2>2, <2>3, <2>7, <3>1, <4>1
    <3>2. CASE x = L
      <4>1. y \in DOMAIN h \ DOMAIN old
        BY <2>3, <2>7, <3>2
      <4>2. PICK l \in 1..(n - 1) : Recorded(b, l) /\ h[y] = Entry(b, l)
        BY <1>1, <4>1
      <4> QED
        BY <1>2, <1>4, <2>2, <3>2, <4>1, <4>2 DEF e
    <3>3. CASE y = L
      <4>1. x \in DOMAIN h \ DOMAIN old
        BY <2>3, <2>7, <3>3
      <4>2. PICK l \in 1..(n - 1) : Recorded(b, l) /\ h[x] = Entry(b, l)
        BY <1>1, <4>1
      <4> QED
        BY <1>2, <1>4, <2>2, <3>3, <4>1, <4>2 DEF e
    <3> QED
      BY <3>1, <3>2, <3>3
  <2> QED
    BY <2>4, <2>5, <2>6, <2>7 DEF Told, k
<1> QED
  BY <1>3, <1>4

LEMMA ResultTold ==
    ASSUME TypeInv, RowsInv, NEW b \in Batches
    PROVE  Told(b, Len(Rows(b)))
<1> DEFINE N == Len(Rows(b))
           S == {n \in Nat : Told(b, n)}
<1>1. N \in Nat /\ \A n \in 0..N : Grows(catalog, AfterRows(b)[n])
  BY ResultGrows
<1>2. /\ AfterRows(b)[0] = catalog
      /\ \A n \in 1..N : AfterRows(b)[n] =
            IF Rows(b)[n].action = "SKIP" THEN AfterRows(b)[n - 1]
            ELSE CommitRow(AfterRows(b)[n - 1], Entity(b), Records(b)[n], Rows(b)[n], b)
  BY <1>1, AfterRowsFollow
<1>3. Entity(b) \in Entities /\ DOMAIN Rows(b) = 1..N
  <2>1. batch[b] \in BatchRecord
    BY DEF TypeInv
  <2>2. Entity(b) \in Entities /\ Rows(b) \in Seq(StagedRow)
    BY <2>1, RecordFields, FileIs, Zenon DEF Entity, Rows
  <2> QED
    BY <2>2
<1>4. 0 \in S
  BY <1>2 DEF Told
<1>5. ASSUME NEW n \in 1..N, n - 1 \in S PROVE n \in S
  <2> DEFINE c == AfterRows(b)[n - 1]
  <2>1. IsCatalog(c)
    BY <1>1, <1>5 DEF Grows
  <2>2. c.history \in Seq(Range(c.history))
    BY <2>1 DEF IsCatalog, Tables
  <2>3. AfterRows(b)[n].history = IF Recorded(b, n) THEN Append(c.history, Entry(b, n)) ELSE c.history
    <3>1. CASE Rows(b)[n].action = "SKIP"
      BY <1>2, <3>1 DEF Recorded
    <3>2. CASE Rows(b)[n].action # "SKIP"
      <4>1. AfterRows(b)[n] = CommitRow(c, Entity(b), Records(b)[n], Rows(b)[n], b)
        BY <1>2, <3>2
      <4>2. Recorded(b, n) <=> Entity(b) = "PRICE_OBSERVATION" \/ (Entity(b) = "STORE_OFFER" /\ Rows(b)[n].offer # NoId)
        BY <1>3, <3>2 DEF Recorded
      <4> HIDE DEF c
      <4> QED
        BY <1>3, <2>1, <4>1, <4>2, CommitHistory DEF Entry
    <3> QED
      BY <3>1, <3>2
  <2>4. n \in Nat \ {0} /\ Told(b, n - 1)
    BY <1>5
  <2>5. Told(b, n)
    BY <2>2, <2>3, <2>4, ToldOneMore
  <2> QED
    BY <2>5
<1> HIDE DEF S, N
<1>6. \A n \in 0..N : n \in S
  BY <1>1, <1>4, <1>5, RowByRow
<1>7. N \in 0..N
  BY <1>1
<1> QED
  BY <1>6, <1>7 DEF N, S

(* A row without priors shares no identity with a row before it.            *)
LEMMA NoPriorsIs ==
    ASSUME NEW entity, NEW records, NEW n \in Nat, Priors(entity, records, n) = {},
           NEW m \in 1..(n - 1), NEW k \in Identities(entity, records[n])
    PROVE  k \notin Identities(entity, records[m])
<1> SUFFICES ASSUME k \in Identities(entity, records[m]) PROVE FALSE
  OBVIOUS
<1> DEFINE holders == {l \in 1..(n - 1) : k \in Identities(entity, records[l])}
<1>1. holders \in SUBSET Nat /\ m \in holders
  OBVIOUS
<1>2. PICK l \in holders : \A j \in holders : l <= j
  <2> HIDE DEF holders
  <2> QED
    BY <1>1, Least
<1>3. l \in Priors(entity, records, n)
  BY <1>2 DEF Priors
<1> QED
  BY <1>3

(* An observation is valid only if the history has no equal entry.          *)
LEMMA ObservationIsNew ==
    ASSUME NEW cat, NEW r, Match(cat, "PRICE_OBSERVATION", r).validation = "VALID",
           NEW x \in DOMAIN cat.history
    PROVE  ~Observes(cat.history[x], r)
<1> SUFFICES ASSUME Observes(cat.history[x], r) PROVE FALSE
  OBVIOUS
<1> DEFINE row == Match(cat, "PRICE_OBSERVATION", r)
<1>1. /\ Invalid.validation = "INVALID" /\ Blocked.validation = "BLOCKED"
      /\ [Duplicate EXCEPT !.offer = r.offer].validation = "DUPLICATE"
  BY DEF Invalid, Blocked, Duplicate, Outcome
<1>2. \E h \in Range(cat.history) : h.offer = r.offer /\ h.price = r.price /\ h.at = r.at
  BY DEF Observes, Range
<1>3. row \in {Invalid, Blocked, [Duplicate EXCEPT !.offer = r.offer]}
  <2>1. CASE ~r.wellFormed
    BY <2>1, Zenon DEF Match
  <2>2. CASE r.wellFormed
    <3>1. row = MatchObservation(cat, r)
      BY <2>2 DEF Match
    <3> HIDE DEF row
    <3>2. row \in {Blocked, [Duplicate EXCEPT !.offer = r.offer]}
      BY <1>2, <3>1, Zenon DEF MatchObservation
    <3> QED
      BY <3>2
  <2> QED
    BY <2>1, <2>2
<1> HIDE DEF row
<1> QED
  BY <1>1, <1>3 DEF row

LEMMA HistoryInit == Init => HistoryInv
<1> SUFFICES ASSUME Init PROVE HistoryInv
  OBVIOUS
<1>1. \A b \in Batches : Rows(b) = <<>> /\ batch[b].knew = <<>>
  <2> SUFFICES ASSUME NEW b \in Batches PROVE Rows(b) = <<>> /\ batch[b].knew = <<>>
    OBVIOUS
  <2>1. PICK f \in Files : batch[b] = Absent(f)
    BY DEF Init
  <2> QED
    BY <2>1 DEF Absent, Rows
<1>2. DOMAIN applied = {} /\ Range(applied) = {}
  BY DEF Init, Range
<1>3. \A x \in DOMAIN catalog.history : catalog.history[x].by \notin Batches
  BY FirstCatalogAssumption DEF Init, Range
<1> QED
  BY <1>1, <1>2, <1>3 DEF HistoryInv, KnewInv, OriginInv, EnteredInv, NewsInv, OnceInv

(* What is said of a batch whose rows are kept.                             *)
LEMMA KeptIs ==
    ASSUME NEW b, Kept(b)
    PROVE  /\ Entity(b)' = Entity(b) /\ Records(b)' = Records(b) /\ DOMAIN Rows(b)' = DOMAIN Rows(b)
           /\ \A i \in DOMAIN Rows(b) :
                Rows(b)'[i].validation = Rows(b)[i].validation /\ Rows(b)'[i].action = Rows(b)[i].action
           /\ \A i \in DOMAIN Rows(b) : (Recorded(b, i)' <=> Recorded(b, i)) /\ Entry(b, i)' = Entry(b, i)
<1>1. Entity(b)' = Entity(b) /\ Records(b)' = Records(b) /\ DOMAIN Rows(b)' = DOMAIN Rows(b)
  BY DEF Kept, SameRows, Entity, Records, Rows
<1>2. \A i \in DOMAIN Rows(b) :
         /\ Rows(b)'[i].validation = Rows(b)[i].validation /\ Rows(b)'[i].action = Rows(b)[i].action
         /\ Rows(b)'[i].offer = Rows(b)[i].offer
  BY DEF Kept, SameRows, Rows
<1>3. \A i \in DOMAIN Rows(b) : (Recorded(b, i)' <=> Recorded(b, i))
  BY <1>1, <1>2 DEF Recorded
<1>4. \A i \in DOMAIN Rows(b) : Entry(b, i)' = Entry(b, i)
  BY <1>1, <1>2 DEF Entry
<1> QED
  BY <1>1, <1>2, <1>3, <1>4

LEMMA HistoryQuiet == ASSUME BatchInv, HistoryInv, Quiet PROVE HistoryInv'
<1>1. /\ catalog' = catalog /\ applied' = applied
      /\ \A b \in Batches : /\ Kept(b) /\ batch'[b].knew = batch[b].knew /\ (Retaken(b) => Retaken(b)')
                            /\ batch'[b].status = "absent" => batch[b].status = "absent"
  BY DEF Quiet, Kept
<1>2. \A b \in Batches :
         /\ Entity(b)' = Entity(b) /\ Records(b)' = Records(b) /\ DOMAIN Rows(b)' = DOMAIN Rows(b)
         /\ \A i \in DOMAIN Rows(b) : Rows(b)'[i].validation = Rows(b)[i].validation
         /\ \A i \in DOMAIN Rows(b) : (Recorded(b, i)' <=> Recorded(b, i)) /\ Entry(b, i)' = Entry(b, i)
  BY <1>1, KeptIs
<1>3. Range(applied) \subseteq Batches
  BY DEF BatchInv, TypeInv, Range
<1>4. KnewInv'
  BY <1>1, <1>2 DEF HistoryInv, KnewInv
<1>5. OriginInv'
  BY <1>1, <1>2 DEF HistoryInv, OriginInv
<1>6. EnteredInv'
  BY <1>1, <1>2, <1>3 DEF HistoryInv, EnteredInv
<1>7. NewsInv'
  BY <1>1, <1>2 DEF HistoryInv, NewsInv
<1>8. OnceInv'
  BY <1>1, <1>2 DEF HistoryInv, OnceInv
<1> QED
  BY <1>4, <1>5, <1>6, <1>7, <1>8 DEF HistoryInv

LEMMA HistoryStage == ASSUME BatchInv, HistoryInv, NEW b \in Batches, StageRow(b) PROVE HistoryInv'
<1>1. PICK n \in BatchRecord :
         /\ batch' = [batch EXCEPT ![b] = n] /\ n.status = "staging" /\ n.file = batch[b].file
         /\ n.rows = StageNext(catalog, Entity(b), Records(b), Rows(b))
         /\ n.knew = IF batch[b].status = "absent" THEN applied ELSE batch[b].knew
         /\ n.reopened = batch[b].reopened /\ n.shared = batch[b].shared
  BY StageRowIs DEF BatchInv
<1>2. batch[b].status \in {"absent", "staging"} /\ catalog' = catalog /\ applied' = applied
  BY StageRowIs DEF BatchInv
<1>3. b \notin Range(applied) /\ Range(applied) \subseteq Batches
  BY <1>2 DEF BatchInv, AppliedInv, LookedAt, TypeInv, Range
<1>4. batch'[b] = n /\ \A c \in Batches \ {b} : batch'[c] = batch[c]
  BY <1>1 DEF BatchInv, TypeInv
<1>5. \A c \in Batches \ {b} :
         /\ Entity(c)' = Entity(c) /\ Records(c)' = Records(c) /\ Rows(c)' = Rows(c) /\ (Retaken(c)' <=> Retaken(c))
         /\ \A i : (Recorded(c, i)' <=> Recorded(c, i)) /\ Entry(c, i)' = Entry(c, i)
  BY <1>4 DEF Entity, Records, Rows, Retaken, Recorded, Entry
<1>6. KnewInv'
  <2>1. Range(n.knew) \subseteq Range(applied) /\ Len(n.knew) <= Len(applied)
    BY <1>1 DEF HistoryInv, KnewInv
  <2> QED
    BY <1>1, <1>2, <1>4, <1>5, <2>1 DEF HistoryInv, KnewInv
<1>7. OriginInv'
  BY <1>2, <1>3, <1>5 DEF HistoryInv, OriginInv
<1>8. EnteredInv'
  BY <1>2, <1>3, <1>5 DEF HistoryInv, EnteredInv
<1>9. OnceInv'
  <2> SUFFICES ASSUME NEW c \in Batches, NEW x \in DOMAIN catalog.history, NEW y \in DOMAIN catalog.history,
                      x # y, catalog.history[x].by = c, catalog.history[y].by = c, ~Retaken(c)'
               PROVE  \E m, l \in DOMAIN Rows(c)' :
                         /\ m # l /\ Recorded(c, m)' /\ Recorded(c, l)'
                         /\ catalog.history[x] = Entry(c, m)' /\ catalog.history[y] = Entry(c, l)'
    BY <1>2 DEF OnceInv
  <2>1. c \in Batches \ {b}
    BY <1>3 DEF HistoryInv, OriginInv
  <2> QED
    BY <1>5, <2>1 DEF HistoryInv, OnceInv
<1>10. ASSUME Entity(b) = "PRICE_OBSERVATION"
       PROVE  /\ \A i \in DOMAIN n.rows : n.rows[i].validation = "VALID" =>
                   \A x \in DOMAIN catalog.history :
                      catalog.history[x].by \in Range(n.knew) => ~Observes(catalog.history[x], Records(b)[i])
              /\ \A i, j \in DOMAIN n.rows :
                   i # j /\ n.rows[i].validation = "VALID" /\ n.rows[j].validation = "VALID" =>
                      Records(b)[i].offer # Records(b)[j].offer \/ Records(b)[i].at # Records(b)[j].at
  <2> DEFINE records == Records(b)
             rows == Rows(b)
             next == n.rows
             last == Len(rows) + 1
  <2>1. IsCatalog(catalog) /\ rows \in Seq(StagedRow)
        /\ \A i \in DOMAIN rows : RowHolds(catalog, "PRICE_OBSERVATION", records[i], rows[i])
    <3>1. batch[b] \in BatchRecord
      BY DEF BatchInv, TypeInv
    <3>2. RowsHold(catalog, batch[b])
      BY DEF BatchInv, RowsInv
    <3> QED
      BY <1>10, <3>1, <3>2, RecordFields DEF BatchInv, TypeInv, RowsHold, Rows, Records, Entity
  <2>2. "PRICE_OBSERVATION" \in Entities /\ next = StageNext(catalog, "PRICE_OBSERVATION", records, rows)
    BY <1>1, <1>10 DEF Entities
  <2> HIDE DEF records, rows, next
  <2>3. /\ next \in Seq(StagedRow) /\ Len(next) = Len(rows) + 1
        /\ \A i \in DOMAIN rows : next[i].validation = "VALID" => next[i] = rows[i]
        /\ next[last].validation = "VALID" =>
              /\ next[last] = Match(catalog, "PRICE_OBSERVATION", records[last])
              /\ Priors("PRICE_OBSERVATION", records, last) = {}
    BY <2>1, <2>2, StageNextHolds
  <2>4. last \in Nat /\ DOMAIN rows = 1..(last - 1) /\ \A i \in DOMAIN next : i \in DOMAIN rows \/ i = last
    BY <2>1, <2>3
  <2> HIDE DEF last
  <2>5. ASSUME NEW i \in DOMAIN next, next[i].validation = "VALID", NEW x \in DOMAIN catalog.history,
               catalog.history[x].by \in Range(n.knew)
        PROVE  ~Observes(catalog.history[x], records[i])
    <3>1. CASE i = last
      BY <2>3, <2>5, <3>1, ObservationIsNew
    <3>2. CASE i \in DOMAIN rows
      <4>1. n.knew = batch[b].knew
        BY <1>1, <3>2 DEF HistoryInv, KnewInv, rows
      <4> QED
        BY <1>10, <2>3, <2>5, <3>2, <4>1 DEF HistoryInv, NewsInv, rows, records
    <3> QED
      BY <2>4, <3>1, <3>2
  <2>6. ASSUME NEW m \in DOMAIN rows, next[last].validation = "VALID"
        PROVE  records[m].offer # records[last].offer \/ records[m].at # records[last].at
    <3> DEFINE k == <<records[last].offer, records[last].at>>
    <3>1. k \in Identities("PRICE_OBSERVATION", records[last])
      BY DEF Identities
    <3>2. k \notin Identities("PRICE_OBSERVATION", records[m])
      <4> HIDE DEF k
      <4> QED
        BY <2>3, <2>4, <2>6, <3>1, NoPriorsIs
    <3> QED
      BY <3>2 DEF Identities
  <2>7. ASSUME NEW i \in DOMAIN next, NEW j \in DOMAIN next,
               i # j, next[i].validation = "VALID", next[j].validation = "VALID"
        PROVE  records[i].offer # records[j].offer \/ records[i].at # records[j].at
    <3>1. CASE i = last
      BY <2>4, <2>6, <2>7, <3>1
    <3>2. CASE j = last
      BY <2>4, <2>6, <2>7, <3>2
    <3>3. CASE i \in DOMAIN rows /\ j \in DOMAIN rows
      <4>1. rows[i].validation = "VALID" /\ rows[j].validation = "VALID"
        BY <2>3, <2>7, <3>3
      <4> QED
        BY <1>10, <2>7, <3>3, <4>1 DEF HistoryInv, NewsInv, rows, records
    <3> QED
      BY <2>4, <3>1, <3>2, <3>3
  <2> QED
    BY <2>5, <2>7 DEF next, records
<1>11. NewsInv'
  <2>1. Entity(b)' = Entity(b) /\ Records(b)' = Records(b) /\ Rows(b)' = n.rows
    BY <1>1, <1>4 DEF Entity, Records, Rows
  <2>2. ASSUME NEW c \in Batches \ {b}, Entity(c)' = "PRICE_OBSERVATION"
        PROVE  /\ \A i \in DOMAIN Rows(c)' : Rows(c)'[i].validation = "VALID" =>
                    \A x \in DOMAIN catalog'.history :
                       catalog'.history[x].by \in Range(batch'[c].knew) => ~Observes(catalog'.history[x], Records(c)'[i])
               /\ \A m, l \in DOMAIN Rows(c)' :
                    m # l /\ Rows(c)'[m].validation = "VALID" /\ Rows(c)'[l].validation = "VALID" =>
                       Records(c)'[m].offer # Records(c)'[l].offer \/ Records(c)'[m].at # Records(c)'[l].at
    BY <1>2, <1>4, <1>5, <2>2 DEF HistoryInv, NewsInv
  <2> QED
    BY <1>2, <1>4, <1>10, <2>1, <2>2 DEF NewsInv, Observes
<1> QED
  BY <1>6, <1>7, <1>8, <1>9, <1>11 DEF HistoryInv

LEMMA HistoryApply ==
    ASSUME BatchInv, HistoryInv, NEW q \in Requests, NEW b \in Batches, Apply(q, b), \A c \in Batches : Kept(c)
    PROVE  HistoryInv'
<1> DEFINE old == catalog.history
           new == catalog'.history
           N == Len(Rows(b))
<1>1. Range(applied') = Range(applied) \cup {b} /\ Range(applied) \subseteq Batches
  <2>1. applied' = Append(applied, b) /\ applied \in Seq(Range(applied)) /\ Range(applied) \subseteq Batches
    BY ApplyIs DEF BatchInv, TypeInv, Range
  <2> QED
    BY <2>1, Longer
<1>2. N \in Nat /\ DOMAIN Rows(b) = 1..N
  <2>1. Rows(b) \in Seq(StagedRow)
    BY RecordFields DEF BatchInv, TypeInv, Rows
  <2> QED
    BY <2>1
<1>3. /\ DOMAIN old \subseteq DOMAIN new /\ \A x \in DOMAIN old : new[x] = old[x]
      /\ \A x \in DOMAIN new : x \in DOMAIN old \/ \E m \in 1..N : Recorded(b, m) /\ new[x] = Entry(b, m)
      /\ \A m \in 1..N : Recorded(b, m) => \E x \in DOMAIN new : new[x] = Entry(b, m)
      /\ \A x, y \in DOMAIN new \ DOMAIN old : x # y =>
            \E m, k \in 1..N : /\ m # k /\ Recorded(b, m) /\ Recorded(b, k)
                               /\ new[x] = Entry(b, m) /\ new[y] = Entry(b, k)
  <2>1. Told(b, N) /\ new = AfterRows(b)[N].history
    BY ResultTold, ApplyIs DEF BatchInv, Result
  <2> QED
    BY <2>1 DEF Told
<1>4. \A m : Entry(b, m).by = b
  BY DEF Entry
<1>5. \A c \in Batches :
         /\ Kept(c) /\ batch'[c].knew = batch[c].knew /\ (Retaken(c) => Retaken(c)')
         /\ batch'[c].status = "absent" => batch[c].status = "absent"
         /\ Entity(c)' = Entity(c) /\ Records(c)' = Records(c) /\ DOMAIN Rows(c)' = DOMAIN Rows(c)
         /\ \A i \in DOMAIN Rows(c) : Rows(c)'[i].validation = Rows(c)[i].validation
         /\ \A i \in DOMAIN Rows(c) : (Recorded(c, i)' <=> Recorded(c, i)) /\ Entry(c, i)' = Entry(c, i)
  BY KeptIs DEF Kept
<1> HIDE DEF old, new, N
<1>6. KnewInv'
  <2>1. Len(applied') = Len(applied) + 1 /\ Len(applied) \in Nat
    <3>1. applied' = Append(applied, b) /\ applied \in Seq(Batches)
      BY ApplyIs DEF BatchInv, TypeInv
    <3> QED
      BY <3>1
  <2>2. \A c \in Batches : Len(batch[c].knew) \in Nat
    <3>1. \A c \in Batches : batch[c].knew \in Seq(Batches)
      BY RecordFields DEF BatchInv, TypeInv
    <3> QED
      BY <3>1
  <2> SUFFICES ASSUME NEW c \in Batches
               PROVE  /\ Range(batch'[c].knew) \subseteq Range(applied') /\ Len(batch'[c].knew) <= Len(applied')
                      /\ batch'[c].status = "absent" => DOMAIN Rows(c)' = {}
    BY DEF KnewInv
  <2>3. batch'[c].knew = batch[c].knew /\ Range(batch[c].knew) \subseteq Range(applied) /\ Len(batch[c].knew) <= Len(applied)
    BY <1>5 DEF HistoryInv, KnewInv
  <2>4. Len(batch'[c].knew) <= Len(applied')
    BY <2>1, <2>2, <2>3
  <2>5. Range(batch'[c].knew) \subseteq Range(applied')
    BY <1>1, <2>3
  <2> QED
    BY <1>5, <2>4, <2>5 DEF HistoryInv, KnewInv
<1>7. OriginInv'
  <2> SUFFICES ASSUME NEW c \in Batches, NEW x \in DOMAIN new, new[x].by = c
               PROVE  c \in Range(applied') /\ \E i \in DOMAIN Rows(c)' : Recorded(c, i)' /\ new[x] = Entry(c, i)'
    BY DEF OriginInv, new
  <2>1. c \in Range(applied') /\ \E i \in DOMAIN Rows(c) : Recorded(c, i) /\ new[x] = Entry(c, i)
    <3>1. CASE x \in DOMAIN old
      BY <1>1, <1>3, <3>1 DEF HistoryInv, OriginInv, old
    <3>2. CASE x \notin DOMAIN old
      BY <1>1, <1>2, <1>3, <1>4, <3>2
    <3> QED
      BY <3>1, <3>2
  <2> QED
    BY <1>5, <2>1
<1>8. EnteredInv'
  <2> SUFFICES ASSUME NEW c \in Range(applied'), NEW i \in DOMAIN Rows(c)', Recorded(c, i)'
               PROVE  \E x \in DOMAIN new : new[x] = Entry(c, i)'
    BY DEF EnteredInv, new
  <2>1. c \in Batches /\ i \in DOMAIN Rows(c) /\ Recorded(c, i) /\ Entry(c, i)' = Entry(c, i)
    BY <1>1, <1>5
  <2>2. \E x \in DOMAIN new : new[x] = Entry(c, i)
    <3>1. CASE c = b
      BY <1>2, <1>3, <2>1, <3>1
    <3>2. CASE c # b
      BY <1>1, <1>3, <2>1, <3>2 DEF HistoryInv, EnteredInv, old
    <3> QED
      BY <3>1, <3>2
  <2> QED
    BY <2>1, <2>2
<1>9. NewsInv'
  <2>1. ASSUME NEW c \in Batches, Entity(c) = "PRICE_OBSERVATION", NEW i \in DOMAIN Rows(c),
               Rows(c)[i].validation = "VALID", NEW x \in DOMAIN new, new[x].by \in Range(batch[c].knew)
        PROVE  ~Observes(new[x], Records(c)[i])
    <3>1. PICK y \in DOMAIN old : new[x] = old[y]
      <4>1. CASE x \in DOMAIN old
        BY <1>3, <4>1
      <4>2. CASE x \notin DOMAIN old
        <5>1. PICK m \in DOMAIN Rows(b) : Recorded(b, m) /\ new[x] = Entry(b, m)
          BY <1>2, <1>3, <4>2
        <5>2. b \in Range(applied)
          BY <1>4, <2>1, <5>1 DEF HistoryInv, KnewInv
        <5> QED
          BY <5>1, <5>2 DEF HistoryInv, EnteredInv, old
      <4> QED
        BY <4>1, <4>2
    <3> QED
      BY <2>1, <3>1 DEF HistoryInv, NewsInv, old
  <2>2. \A c \in Batches : Entity(c) = "PRICE_OBSERVATION" =>
           \A m, n \in DOMAIN Rows(c) :
             m # n /\ Rows(c)[m].validation = "VALID" /\ Rows(c)[n].validation = "VALID" =>
                Records(c)[m].offer # Records(c)[n].offer \/ Records(c)[m].at # Records(c)[n].at
    BY DEF HistoryInv, NewsInv
  <2> QED
    BY <1>5, <2>1, <2>2 DEF NewsInv, Observes, new
<1>10. OnceInv'
  <2> SUFFICES ASSUME NEW c \in Batches, NEW x \in DOMAIN new, NEW y \in DOMAIN new,
                      x # y, new[x].by = c, new[y].by = c, ~Retaken(c)'
               PROVE  \E m, l \in DOMAIN Rows(c)' :
                         /\ m # l /\ Recorded(c, m)' /\ Recorded(c, l)'
                         /\ new[x] = Entry(c, m)' /\ new[y] = Entry(c, l)'
    BY DEF OnceInv, new
  <2>1. \E m, l \in DOMAIN Rows(c) :
           m # l /\ Recorded(c, m) /\ Recorded(c, l) /\ new[x] = Entry(c, m) /\ new[y] = Entry(c, l)
    <3>1. CASE c # b
      <4>1. x \in DOMAIN old /\ y \in DOMAIN old
        BY <1>3, <1>4, <3>1
      <4>2. old[x].by = c /\ old[y].by = c /\ ~Retaken(c)
        BY <1>3, <1>5, <4>1
      <4> QED
        BY <1>3, <4>1, <4>2 DEF HistoryInv, OnceInv, old
    <3>2. CASE c = b
      <4>1. b \notin Range(applied)
        BY <1>5, <3>2, ApplyIs DEF BatchInv, CommitInv, Open
      <4>2. x \notin DOMAIN old /\ y \notin DOMAIN old
        BY <1>3, <3>2, <4>1 DEF HistoryInv, OriginInv, old
      <4> QED
        BY <1>2, <1>3, <3>2, <4>2
    <3> QED
      BY <3>1, <3>2
  <2> QED
    BY <1>5, <2>1
<1> QED
  BY <1>6, <1>7, <1>8, <1>9, <1>10 DEF HistoryInv

(* What every state of the price history satisfies: every entry has its     *)
(* origin in an applied row, and what a row knew when it was staged is      *)
(* still in the history when it is applied.                                 *)
THEOREM HistoriesKeep == Spec => []HistoryInv
<1>1. Init => HistoryInv
  BY HistoryInit
<1>2. BatchInv /\ HistoryInv /\ [Next]_vars => HistoryInv'
  BY StepKinds, HistoryQuiet, HistoryStage, HistoryApply
<1> QED
  BY <1>1, <1>2, BatchesKeep, PTL DEF Spec

(* Price observations are duplicate-safe: an entry that comes of one equals *)
(* no other entry of the batches that were applied before it was matched,   *)
(* and no other entry of its own batch unless that was taken up again.      *)
THEOREM ObservationsAreRecordedOnce == Spec => []ObservedOnce
<1>1. BatchInv /\ HistoryInv => ObservedOnce
  <2> SUFFICES ASSUME BatchInv, HistoryInv, NEW i \in DOMAIN catalog.history, NEW j \in DOMAIN catalog.history,
                      LET h == catalog.history[i]
                          k == catalog.history[j]
                      IN  /\ i # j /\ h.offer = k.offer /\ h.price = k.price /\ h.at = k.at
                          /\ k.by \in Batches /\ Entity(k.by) = "PRICE_OBSERVATION"
               PROVE  LET h == catalog.history[i]
                          k == catalog.history[j]
                      IN  h.by \notin Range(batch[k.by].knew) /\ (h.by = k.by => Retaken(k.by))
    BY DEF ObservedOnce
  <2> DEFINE h == catalog.history[i]
             k == catalog.history[j]
             b == k.by
  <2>1. \A n \in DOMAIN Rows(b) : Recorded(b, n) =>
           /\ Rows(b)[n].validation = "VALID"
           /\ Entry(b, n).offer = Records(b)[n].offer /\ Entry(b, n).at = Records(b)[n].at
           /\ Entry(b, n).price = Records(b)[n].price
    <3> SUFFICES ASSUME NEW n \in DOMAIN Rows(b), Recorded(b, n)
                 PROVE  /\ Rows(b)[n].validation = "VALID" /\ Rows(b)[n].offer = Records(b)[n].offer
      BY DEF Entry
    <3>1. LookedAt(batch[b]) /\ RowsHold(catalog, batch[b])
      BY DEF BatchInv, AppliedInv, RowsInv, HistoryInv, OriginInv
    <3>2. Rows(b)[n].validation = "VALID"
      BY <3>1 DEF LookedAt, Recorded, Rows
    <3> QED
      BY <3>1, <3>2 DEF RowsHold, RowHolds, Rows, Records, Entity
  <2>2. PICK n \in DOMAIN Rows(b) : Recorded(b, n) /\ k = Entry(b, n)
    BY DEF HistoryInv, OriginInv
  <2>3. h.by \notin Range(batch[b].knew)
    <3>1. Observes(h, Records(b)[n])
      BY <2>1, <2>2 DEF Observes
    <3> QED
      BY <2>1, <2>2, <3>1 DEF HistoryInv, NewsInv
  <2>4. ASSUME h.by = b, ~Retaken(b) PROVE FALSE
    <3>1. PICK m \in DOMAIN Rows(b), l \in DOMAIN Rows(b) :
             m # l /\ Recorded(b, m) /\ Recorded(b, l) /\ h = Entry(b, m) /\ k = Entry(b, l)
      BY <2>4 DEF HistoryInv, OnceInv
    <3>2. Records(b)[m].offer = Records(b)[l].offer /\ Records(b)[m].at = Records(b)[l].at
      BY <2>1, <3>1
    <3>3. Rows(b)[m].validation = "VALID" /\ Rows(b)[l].validation = "VALID"
      BY <2>1, <3>1
    <3> HIDE DEF b
    <3>4. b \in Batches /\ Entity(b) = "PRICE_OBSERVATION"
      BY DEF b
    <3> QED
      BY <3>1, <3>2, <3>3, <3>4 DEF HistoryInv, NewsInv
  <2> QED
    BY <2>3, <2>4
<1> QED
  BY <1>1, BatchesKeep, HistoriesKeep, PTL

-----------------------------------------------------------------------------
(* What the offers of a catalog owe to observations of them.                *)
Known(cat) ==
    \A o \in DOMAIN cat.offers : cat.offers[o].store \in DOMAIN cat.stores /\ cat.offers[o].at \in Int
Listed(cat, o, r) == cat.stores[cat.offers[o].store] = r.store /\ cat.offers[o].sku = r.sku
Shows(cat, o, r) == Listed(cat, o, r) /\ cat.offers[o].at = r.at /\ cat.offers[o].price = r.price
Newer(old, new, seen) ==
    /\ Known(new)
    /\ \A o \in DOMAIN old.offers : old.offers[o].at <= new.offers[o].at
    /\ \A r \in seen : \E o \in DOMAIN new.offers : Listed(new, o, r) /\ r.at <= new.offers[o].at
    /\ \A o \in DOMAIN new.offers :
          \/ o \in DOMAIN old.offers /\ new.offers[o] = old.offers[o]
          \/ \E r \in seen : Shows(new, o, r)

LEMMA NewerOn ==
    ASSUME NEW a, NEW b, NEW c, Known(a), Grows(a, b), Grows(b, c),
           NEW R, NEW Q, Newer(a, b, R), Newer(b, c, Q), \A r \in R : r.at \in Int
    PROVE  Newer(a, c, R \cup Q)
<1>1. ASSUME NEW o \in DOMAIN b.offers
      PROVE  /\ o \in DOMAIN c.offers /\ c.offers[o].store = b.offers[o].store /\ c.offers[o].sku = b.offers[o].sku
             /\ c.stores[c.offers[o].store] = b.stores[b.offers[o].store]
             /\ b.offers[o].at \in Int /\ c.offers[o].at \in Int /\ b.offers[o].at <= c.offers[o].at
  BY DEF Newer, Known, Grows
<1>2. Known(c)
  BY DEF Newer
<1>3. ASSUME NEW o \in DOMAIN a.offers PROVE a.offers[o].at <= c.offers[o].at
  <2>1. o \in DOMAIN b.offers /\ a.offers[o].at \in Int /\ a.offers[o].at <= b.offers[o].at
    BY DEF Newer, Known, Grows
  <2> QED
    BY <1>1, <2>1
<1>4. ASSUME NEW r \in R \cup Q PROVE \E o \in DOMAIN c.offers : Listed(c, o, r) /\ r.at <= c.offers[o].at
  <2>1. CASE r \in R
    <3>1. PICK o \in DOMAIN b.offers : Listed(b, o, r) /\ r.at <= b.offers[o].at
      BY <2>1 DEF Newer
    <3>2. Listed(c, o, r)
      BY <1>1, <3>1 DEF Listed
    <3>3. r.at \in Int
      BY <2>1
    <3> QED
      BY <1>1, <3>1, <3>2, <3>3
  <2>2. CASE r \in Q
    BY <2>2 DEF Newer
  <2> QED
    BY <2>1, <2>2
<1>5. ASSUME NEW o \in DOMAIN c.offers
      PROVE  \/ o \in DOMAIN a.offers /\ c.offers[o] = a.offers[o]
             \/ \E r \in R \cup Q : Shows(c, o, r)
  <2>1. CASE \E r \in Q : Shows(c, o, r)
    BY <2>1
  <2>2. CASE o \in DOMAIN b.offers /\ c.offers[o] = b.offers[o]
    <3>1. \A r : Shows(b, o, r) => Shows(c, o, r)
      BY <1>1, <2>2 DEF Shows, Listed
    <3>2. (o \in DOMAIN a.offers /\ b.offers[o] = a.offers[o]) \/ \E r \in R : Shows(b, o, r)
      BY <2>2 DEF Newer
    <3> QED
      BY <2>2, <3>1, <3>2
  <2> QED
    BY <2>1, <2>2 DEF Newer
<1> QED
  BY <1>2, <1>3, <1>4, <1>5 DEF Newer

(* A catalog whose offers stay owes nothing new.                            *)
LEMMA NewerSame ==
    ASSUME NEW old, NEW new, Known(old), Grows(old, new), new.offers = old.offers
    PROVE  Newer(old, new, {})
<1>1. \A o \in DOMAIN old.offers : old.offers[o].at \in Int /\ old.offers[o].at <= old.offers[o].at
  BY DEF Known
<1>2. Known(new)
  BY DEF Known, Grows
<1> QED
  BY <1>1, <1>2 DEF Newer

LEMMA OffersStay ==
    ASSUME NEW cat, IsCatalog(cat), NEW entity \in Entities \ {"STORE_OFFER"}, NEW r, NEW row, NEW by
    PROVE  CommitRow(cat, entity, r, row, by).offers = cat.offers
<1> DEFINE new == CommitRow(cat, entity, r, row, by)
<1>1. DOMAIN cat = {"products", "stores", "specs", "images", "offers", "history"}
  BY DEF IsCatalog, Tables
<1>2. \/ new = cat
      \/ \E s : \/ new = [cat EXCEPT !.products = s] \/ new = [cat EXCEPT !.stores = s]
                \/ new = [cat EXCEPT !.specs = s] \/ new = [cat EXCEPT !.images = s]
                \/ new = [cat EXCEPT !.history = s]
  <2>1. CASE entity = "PRODUCT"
    <3>1. \E s : new = [cat EXCEPT !.products = s]
      BY <2>1, Zenon DEF CommitRow, CommitProduct
    <3> QED
      BY <3>1
  <2>2. CASE entity = "STORE"
    <3>1. new = cat \/ \E s : new = [cat EXCEPT !.stores = s]
      BY <2>2, Zenon DEF CommitRow, CommitStore
    <3> QED
      BY <3>1
  <2>3. CASE entity \in {"PRODUCT_SPECIFICATION", "PRODUCT_IMAGE_METADATA", "PRICE_OBSERVATION"}
    <3>1. \E s : \/ new = [cat EXCEPT !.specs = s] \/ new = [cat EXCEPT !.images = s]
                 \/ new = [cat EXCEPT !.history = s]
      BY <2>3, Zenon DEF CommitRow
    <3> QED
      BY <3>1
  <2> QED
    BY <2>1, <2>2, <2>3 DEF Entities
<1> HIDE DEF new
<1>3. new.offers = cat.offers
  BY <1>1, <1>2
<1> QED
  BY <1>3 DEF new

(* A valid observation of an offer: a new offer shows it; an offer that was *)
(* there shows it too, unless it is older.                                  *)
LEMMA CommitNewer ==
    ASSUME NEW cat, IsCatalog(cat), Known(cat), NEW r, r.at \in Int, NEW row, NEW by,
           RowHolds(cat, "STORE_OFFER", r, row), row.validation = "VALID"
    PROVE  Newer(cat, CommitRow(cat, "STORE_OFFER", r, row, by), {r})
<1> DEFINE new == CommitRow(cat, "STORE_OFFER", r, row, by)
<1>1. DOMAIN cat = {"products", "stores", "specs", "images", "offers", "history"}
  BY DEF IsCatalog, Tables
<1>2. \A o \in DOMAIN cat.offers : /\ cat.offers[o].at \in Int /\ cat.offers[o].at <= cat.offers[o].at
                                   /\ cat.offers[o].store \in DOMAIN cat.stores
  BY DEF Known
<1>3. cat.offers \in Seq(Range(cat.offers)) /\ \A o \in DOMAIN cat.offers : DOMAIN cat.offers[o] = OfferColumns
  BY DEF IsCatalog, Tables
<1>4. StoreIds(cat, r) # {} /\ row.offer \in {NoId} \cup OfferIds(cat, r)
  BY DEF RowHolds
<1>5. CASE row.offer = NoId
  <2> DEFINE store == TheId(StoreIds(cat, r))
             e == [product |-> row.product, store |-> store, sku |-> r.sku, price |-> r.price, at |-> r.at]
             s == Append(cat.offers, e)
  <2>1. new = [cat EXCEPT !.offers = s]
    BY <1>5, Zenon DEF CommitRow, CommitOffer
  <2>2. store \in DOMAIN cat.stores /\ cat.stores[store] = r.store
    BY <1>4, TheIdIs DEF StoreIds
  <2> HIDE DEF store
  <2>3. e.store = store /\ e.sku = r.sku /\ e.price = r.price /\ e.at = r.at
    OBVIOUS
  <2> HIDE DEF e
  <2>4. /\ DOMAIN s = 1..(Len(cat.offers) + 1) /\ DOMAIN cat.offers = 1..Len(cat.offers) /\ Len(cat.offers) \in Nat
        /\ s[Len(cat.offers) + 1] = e
        /\ \A o \in DOMAIN cat.offers : s[o] = cat.offers[o] /\ o \in DOMAIN s
    BY <1>3, Longer
  <2> HIDE DEF new, s
  <2>5. new.offers = s /\ new.stores = cat.stores
    BY <1>1, <2>1
  <2>6. PICK last \in DOMAIN s : s[last] = e /\ \A o \in DOMAIN s : o \in DOMAIN cat.offers \/ o = last
    BY <2>4
  <2>7. Known(new)
    BY <1>2, <2>2, <2>3, <2>4, <2>5, <2>6 DEF Known
  <2>8. Shows(new, last, r) /\ r.at <= new.offers[last].at
    BY <2>2, <2>3, <2>5, <2>6 DEF Shows, Listed
  <2>9. Newer(cat, new, {r})
    BY <1>2, <2>4, <2>5, <2>6, <2>7, <2>8 DEF Newer, Shows
  <2> QED
    BY <2>9 DEF new
<1>6. CASE row.offer \in OfferIds(cat, r) /\ row.offer # NoId
  <2> DEFINE k == row.offer
             old == cat.offers[k]
             e == IF Supersedes(r, old) THEN [old EXCEPT !.price = r.price, !.at = r.at] ELSE old
             s == [cat.offers EXCEPT ![k] = e]
  <2>1. k \in DOMAIN cat.offers /\ cat.stores[old.store] = r.store /\ old.sku = r.sku /\ old.store \in DOMAIN cat.stores
    BY <1>2, <1>6 DEF OfferIds, StoreIds
  <2>2. \E h : new = [cat EXCEPT !.history = h, !.offers[k] = e]
    BY <1>6, Zenon DEF CommitRow, CommitOffer
  <2>3. \E h : new = [cat EXCEPT !.history = h, !.offers = s]
    <3>1. PICK h : new = [cat EXCEPT !.history = h, !.offers[k] = e]
      BY <2>2
    <3> HIDE DEF e, new
    <3>2. [cat EXCEPT !.history = h].offers = cat.offers
      BY <1>1
    <3>3. new = [[cat EXCEPT !.history = h] EXCEPT !.offers = [[cat EXCEPT !.history = h].offers EXCEPT ![k] = e]]
      BY <3>1, Zenon
    <3>4. new = [[cat EXCEPT !.history = h] EXCEPT !.offers = s]
      BY <3>2, <3>3, Zenon
    <3> QED
      BY <3>4, Zenon
  <2>4. DOMAIN old = OfferColumns /\ old.at \in Int
    BY <1>2, <1>3, <2>1
  <2>5. /\ e.store = old.store /\ e.sku = old.sku
        /\ Supersedes(r, old) => e.at = r.at /\ e.price = r.price
        /\ ~Supersedes(r, old) => e = old
    BY <2>4, Zenon DEF OfferColumns
  <2>6. Supersedes(r, old) <=> r.at >= old.at
    BY DEF Supersedes
  <2> HIDE DEF e
  <2>7. e.at \in Int /\ old.at <= e.at /\ r.at <= e.at
    BY <2>4, <2>5, <2>6
  <2>8. DOMAIN s = DOMAIN cat.offers /\ s[k] = e /\ \A o \in DOMAIN cat.offers : o # k => s[o] = cat.offers[o]
    BY <1>3, <2>1
  <2> HIDE DEF new, s
  <2>9. new.offers = s /\ new.stores = cat.stores
    BY <1>1, <2>3, Zenon
  <2>10. Known(new)
    BY <1>2, <2>1, <2>5, <2>7, <2>8, <2>9 DEF Known
  <2>11. \A o \in DOMAIN cat.offers : cat.offers[o].at <= new.offers[o].at
    BY <1>2, <2>7, <2>8, <2>9
  <2>12. Listed(new, k, r) /\ r.at <= new.offers[k].at /\ k \in DOMAIN new.offers
    BY <2>1, <2>5, <2>7, <2>8, <2>9 DEF Listed
  <2>13. new.offers[k] = cat.offers[k] \/ Shows(new, k, r)
    BY <2>5, <2>8, <2>9, <2>12 DEF Shows
  <2>14. Newer(cat, new, {r})
    BY <2>8, <2>9, <2>10, <2>11, <2>12, <2>13 DEF Newer
  <2> QED
    BY <2>14 DEF new
<1> QED
  BY <1>4, <1>5, <1>6

(* The offers' observations among the first rows of a batch, and all that   *)
(* were applied.                                                            *)
ObservedBy(b, n) ==
    {Records(b)[m] : m \in {l \in 1..n : Entity(b) = "STORE_OFFER" /\ Rows(b)[l].action # "SKIP"}}
AllObserved == UNION {ObservedBy(b, Len(Rows(b))) : b \in Range(applied)}

LEMMA ObservedAt ==
    ASSUME TypeInv, RowsInv, NEW b \in Batches, LookedAt(batch[b])
    PROVE  \A r \in ObservedBy(b, Len(Rows(b))) : r.at \in Int
<1> SUFFICES ASSUME NEW m \in 1..Len(Rows(b)), Entity(b) = "STORE_OFFER", Rows(b)[m].action # "SKIP"
             PROVE  Records(b)[m].at \in Int
  BY DEF ObservedBy
<1>1. batch[b].file \in Files /\ Rows(b) \in Seq(StagedRow)
  BY RecordFields DEF TypeInv, Rows
<1>2. Len(Records(b)) \in Nat /\ DOMAIN Records(b) = 1..Len(Records(b))
      /\ \A i \in DOMAIN Records(b) : Records(b)[i] \in Range(Records(b))
  BY <1>1, FileIs DEF Records
<1>3. Len(Rows(b)) <= Len(Records(b)) /\ Len(Rows(b)) \in Nat
  BY <1>1 DEF RowsInv, RowsHold, Rows, Records
<1>4. Records(b)[m] \in Range(Records(b))
  BY <1>2, <1>3
<1>5. Records(b)[m].wellFormed
  <2>1. m \in DOMAIN Rows(b)
    BY <1>1, <1>3
  <2> QED
    BY <2>1 DEF RowsInv, RowsHold, RowHolds, LookedAt, Rows, Records
<1> QED
  BY <1>1, <1>4, <1>5, FilesAssumption DEF Entity, Records

LEMMA ResultNewer ==
    ASSUME TypeInv, RowsInv, NEW b \in Batches, LookedAt(batch[b]), Known(catalog)
    PROVE  Newer(catalog, Result(b), ObservedBy(b, Len(Rows(b))))
<1> DEFINE N == Len(Rows(b))
           S == {n \in Nat : Newer(catalog, AfterRows(b)[n], ObservedBy(b, n))}
<1>1. N \in Nat /\ \A n \in 0..N : Grows(catalog, AfterRows(b)[n])
  BY ResultGrows
<1>2. /\ AfterRows(b)[0] = catalog
      /\ \A n \in 1..N : AfterRows(b)[n] =
            IF Rows(b)[n].action = "SKIP" THEN AfterRows(b)[n - 1]
            ELSE CommitRow(AfterRows(b)[n - 1], Entity(b), Records(b)[n], Rows(b)[n], b)
  BY <1>1, AfterRowsFollow
<1>3. Entity(b) \in Entities /\ DOMAIN Rows(b) = 1..N
  <2>1. batch[b] \in BatchRecord
    BY DEF TypeInv
  <2>2. Entity(b) \in Entities /\ Rows(b) \in Seq(StagedRow)
    BY <2>1, RecordFields, FileIs, Zenon DEF Entity, Rows
  <2> QED
    BY <2>2
<1>4. 0 \in S
  <2>1. ObservedBy(b, 0) = {} /\ Grows(catalog, catalog)
    BY <1>1, <1>2 DEF ObservedBy
  <2> QED
    BY <1>2, <2>1, NewerSame
<1>5. ASSUME NEW n \in 1..N, n - 1 \in S PROVE n \in S
  <2> DEFINE c == AfterRows(b)[n - 1]
             d == AfterRows(b)[n]
             r == Records(b)[n]
             more == IF Entity(b) = "STORE_OFFER" /\ Rows(b)[n].action # "SKIP" THEN {r} ELSE {}
  <2>1. n - 1 \in 0..N /\ n \in 0..N /\ n \in DOMAIN Rows(b)
    BY <1>1, <1>3
  <2>2. Grows(catalog, c) /\ Grows(catalog, d) /\ IsCatalog(c)
    BY <1>1, <2>1 DEF Grows
  <2>3. Newer(catalog, c, ObservedBy(b, n - 1)) /\ Known(c)
    BY <1>5 DEF Newer
  <2>4. RowHolds(c, Entity(b), r, Rows(b)[n])
    <3>1. RowHolds(catalog, Entity(b), r, Rows(b)[n])
      BY <2>1 DEF RowsInv, RowsHold, Entity, Records, Rows
    <3> QED
      BY <2>2, <3>1, HoldsOn
  <2>5. Grows(c, c) /\ Matched(c, Rows(b)[n])
    BY <2>2, <2>4 DEF Grows, RowHolds
  <2>6. Grows(c, d) /\ Newer(c, d, more)
    <3>1. CASE Rows(b)[n].action = "SKIP"
      <4>1. d = c /\ more = {}
        BY <1>2, <3>1
      <4> HIDE DEF c, d, more
      <4> QED
        BY <2>3, <2>5, <4>1, NewerSame
    <3>2. CASE Rows(b)[n].action # "SKIP"
      <4>1. d = CommitRow(c, Entity(b), r, Rows(b)[n], b)
        BY <1>2, <3>2
      <4> HIDE DEF c, d
      <4>2. Grows(c, d)
        BY <1>3, <2>2, <2>5, <4>1, CommitGrows
      <4>3. CASE Entity(b) # "STORE_OFFER"
        <5>1. d.offers = c.offers /\ more = {}
          BY <1>3, <2>2, <4>1, <4>3, OffersStay
        <5> QED
          BY <2>3, <4>2, <5>1, NewerSame
      <4>4. CASE Entity(b) = "STORE_OFFER"
        <5>1. more = {r} /\ Rows(b)[n].validation = "VALID"
          BY <2>1, <3>2, <4>4 DEF LookedAt, Rows
        <5>2. r.at \in Int
          <6>1. n \in 1..Len(Rows(b)) /\ r \in ObservedBy(b, Len(Rows(b)))
            BY <3>2, <4>4 DEF ObservedBy
          <6> QED
            BY <6>1, ObservedAt
        <5> HIDE DEF r, more
        <5>3. Newer(c, d, {r})
          BY <2>2, <2>3, <2>4, <4>1, <4>4, <5>1, <5>2, CommitNewer
        <5> QED
          BY <4>2, <5>1, <5>3
      <4> QED
        BY <4>2, <4>3, <4>4
    <3> QED
      BY <3>1, <3>2
  <2>7. ObservedBy(b, n) = ObservedBy(b, n - 1) \cup more
    <3>1. \A m : m \in 1..n <=> m \in 1..(n - 1) \/ m = n
      BY <1>1
    <3> QED
      BY <3>1 DEF ObservedBy
  <2>8. \A x \in ObservedBy(b, n - 1) : x.at \in Int
    <3>1. ObservedBy(b, n - 1) \subseteq ObservedBy(b, N)
      BY <1>1 DEF ObservedBy
    <3> QED
      BY <3>1, ObservedAt
  <2> HIDE DEF c, d, more
  <2>9. Newer(catalog, d, ObservedBy(b, n))
    BY <2>2, <2>3, <2>6, <2>7, <2>8, NewerOn
  <2> QED
    BY <2>9 DEF d
<1> HIDE DEF S, N
<1>6. \A n \in 0..N : n \in S
  BY <1>1, <1>4, <1>5, RowByRow
<1>7. N \in 0..N
  BY <1>1
<1> QED
  BY <1>6, <1>7 DEF N, S, Result

(* The offers follow what was applied since the first catalog.              *)
OffersInv ==
    /\ Known(FirstCatalog) /\ Grows(FirstCatalog, catalog)
    /\ Newer(FirstCatalog, catalog, AllObserved)
    /\ Consistent(catalog)

LEMMA OffersInit == Init => OffersInv
<1> SUFFICES ASSUME Init PROVE OffersInv
  OBVIOUS
<1>1. catalog = FirstCatalog /\ AllObserved = {}
  BY DEF Init, AllObserved, Range
<1>2. Known(FirstCatalog)
  BY FirstCatalogAssumption DEF Known, Range
<1>3. Grows(FirstCatalog, FirstCatalog)
  BY FirstCatalogAssumption DEF Grows
<1>4. Newer(FirstCatalog, FirstCatalog, {})
  BY <1>2, <1>3, NewerSame
<1> QED
  BY <1>1, <1>2, <1>3, <1>4, FirstCatalogAssumption DEF OffersInv

LEMMA ObservedKept ==
    ASSUME NEW b, Kept(b), TypeInv, TypeInv', b \in Batches
    PROVE  ObservedBy(b, Len(Rows(b)))' = ObservedBy(b, Len(Rows(b)))
<1>1. /\ Entity(b)' = Entity(b) /\ Records(b)' = Records(b) /\ DOMAIN Rows(b)' = DOMAIN Rows(b)
      /\ \A i \in DOMAIN Rows(b) : Rows(b)'[i].action = Rows(b)[i].action
  BY KeptIs
<1>2. Rows(b) \in Seq(StagedRow) /\ Rows(b)' \in Seq(StagedRow)
  BY RecordFields DEF TypeInv, Rows
<1>3. DOMAIN Rows(b) = 1..Len(Rows(b)) /\ DOMAIN Rows(b)' = 1..Len(Rows(b)')
  BY <1>2
<1>4. Len(Rows(b)') = Len(Rows(b))
  BY <1>1, <1>2
<1> QED
  BY <1>1, <1>3, <1>4 DEF ObservedBy

LEMMA OffersNext == ASSUME BatchInv, BatchInv', OffersInv, [Next]_vars PROVE OffersInv'
<1>1. TypeInv /\ TypeInv' /\ RowsInv /\ Range(applied) \subseteq Batches
  BY DEF BatchInv, TypeInv, Range
<1>2. ASSUME catalog' = catalog, applied' = applied,
             \A c \in Range(applied) : ObservedBy(c, Len(Rows(c)))' = ObservedBy(c, Len(Rows(c)))
      PROVE  OffersInv'
  <2>1. AllObserved' = AllObserved
    BY <1>2 DEF AllObserved
  <2> QED
    BY <1>2, <2>1 DEF OffersInv
<1>3. CASE Quiet
  BY <1>1, <1>2, <1>3, ObservedKept DEF Quiet
<1>4. ASSUME NEW b \in Batches, StageRow(b) PROVE OffersInv'
  <2>1. batch[b].status \in {"absent", "staging"} /\ catalog' = catalog /\ applied' = applied
    BY <1>1, <1>4, StageRowIs
  <2>2. b \notin Range(applied)
    BY <2>1 DEF BatchInv, AppliedInv, LookedAt
  <2>3. \A c \in Range(applied) : batch'[c] = batch[c]
    BY <1>1, <1>4, <2>2, StageRowIs DEF TypeInv
  <2>4. \A c \in Range(applied) : ObservedBy(c, Len(Rows(c)))' = ObservedBy(c, Len(Rows(c)))
    BY <2>3 DEF ObservedBy, Entity, Records, Rows
  <2> QED
    BY <1>2, <2>1, <2>4
<1>5. ASSUME NEW q \in Requests, NEW b \in Batches, Apply(q, b), \A c \in Batches : Kept(c) PROVE OffersInv'
  <2> DEFINE R == AllObserved
             Q == ObservedBy(b, Len(Rows(b)))
  <2>1. Grows(catalog, catalog') /\ catalog' = Result(b) /\ Consistent(catalog')
    BY <1>1, <1>5, ApplyIs
  <2>2. LookedAt(batch[b])
    BY <1>1, <1>5, ApplyIs DEF BatchInv, CommitInv, Open
  <2>3. Newer(catalog, catalog', Q)
    BY <1>1, <2>1, <2>2, ResultNewer DEF OffersInv, Newer
  <2>4. \A r \in R : r.at \in Int
    BY <1>1, ObservedAt DEF AllObserved, BatchInv, AppliedInv
  <2>5. AllObserved' = R \cup Q
    <3>1. Range(applied') = Range(applied) \cup {b}
      <4>1. applied' = Append(applied, b) /\ applied \in Seq(Range(applied))
        BY <1>1, <1>5, ApplyIs DEF TypeInv, Range
      <4> QED
        BY <4>1, Longer
    <3>2. \A c \in Range(applied') : ObservedBy(c, Len(Rows(c)))' = ObservedBy(c, Len(Rows(c)))
      BY <1>1, <1>5, <3>1, ObservedKept
    <3> QED
      BY <3>1, <3>2 DEF AllObserved
  <2> HIDE DEF R, Q
  <2>6. Newer(FirstCatalog, catalog', R \cup Q)
    BY <2>1, <2>3, <2>4, NewerOn DEF OffersInv, R
  <2>7. Grows(FirstCatalog, catalog')
    BY <2>1, GrowsOn DEF OffersInv
  <2> QED
    BY <2>1, <2>5, <2>6, <2>7 DEF OffersInv
<1> QED
  BY <1>3, <1>4, <1>5, StepKinds

(* What every state of the offers satisfies: none is older than an applied  *)
(* observation of its store and SKU, and each says what one of them said.   *)
THEOREM OffersFollow == Spec => []OffersInv
<1>1. Init => OffersInv
  BY OffersInit
<1>2. BatchInv /\ BatchInv' /\ OffersInv /\ [Next]_vars => OffersInv'
  BY OffersNext
<1> QED
  BY <1>1, <1>2, BatchesKeep, PTL DEF Spec

(* Whatever the order in which batches are staged and applied: an offer     *)
(* shows the newest of all observations of its store and SKU that were      *)
(* applied, and nothing but what the first catalog or one of them said.     *)
THEOREM OffersShowTheNewest == Spec => []OfferIsNewest
<1>1. BatchInv /\ OffersInv => OfferIsNewest
  <2> SUFFICES ASSUME BatchInv, OffersInv, NEW x \in DOMAIN catalog.offers
               PROVE  LET o == catalog.offers[x]
                          seen == AppliedOffers(catalog.stores[o.store], o.sku)
                      IN  /\ \A r \in seen : r.at <= o.at
                          /\ \/ o \in Range(FirstCatalog.offers)
                             \/ \E r \in seen : r.at = o.at /\ r.price = o.price
    BY DEF OfferIsNewest, Range
  <2> DEFINE o == catalog.offers[x]
             seen == AppliedOffers(catalog.stores[o.store], o.sku)
  <2>1. seen = {r \in AllObserved : r.store = catalog.stores[o.store] /\ r.sku = o.sku}
    <3>1. \A b \in Range(applied) : DOMAIN Rows(b) = 1..Len(Rows(b))
      <4>1. \A b \in Range(applied) : Rows(b) \in Seq(StagedRow)
        BY RecordFields DEF BatchInv, TypeInv, Range, Rows
      <4> QED
        BY <4>1
    <3> QED
      BY <3>1 DEF AppliedOffers, AllObserved, ObservedBy
  <2>2. /\ \A i, j \in DOMAIN catalog.stores : catalog.stores[i] = catalog.stores[j] => i = j
        /\ \A p, u \in DOMAIN catalog.offers :
              catalog.offers[p].store = catalog.offers[u].store /\ catalog.offers[p].sku = catalog.offers[u].sku => p = u
    BY DEF OffersInv, Consistent
  <2>3. ASSUME NEW r \in seen PROVE r.at <= o.at
    <3>1. PICK p \in DOMAIN catalog.offers : Listed(catalog, p, r) /\ r.at <= catalog.offers[p].at
      BY <2>1 DEF OffersInv, Newer
    <3>2. p = x
      BY <2>1, <2>2, <3>1 DEF Listed, OffersInv, Newer, Known
    <3> QED
      BY <3>1, <3>2
  <2>4. o \in Range(FirstCatalog.offers) \/ \E r \in seen : r.at = o.at /\ r.price = o.price
    BY <2>1 DEF OffersInv, Newer, Shows, Listed, Range
  <2> QED
    BY <2>3, <2>4
<1> QED
  BY <1>1, BatchesKeep, OffersFollow, PTL
-----------------------------------------------------------------------------
(* Keys that are not free are apart.  A table that grows row by row keeps   *)
(* them apart if no live row brings the key of another one, or one that the *)
(* table had from the start elsewhere.                                      *)
Apart(keys, free) == \A i, j \in DOMAIN keys : keys[i] = keys[j] /\ keys[i] \notin free => i = j
Brings(first, old, new, at, key, free) ==
    /\ DOMAIN new = DOMAIN old \cup {at}
    /\ \A i \in DOMAIN old : i # at => new[i] = old[i]
    /\ new[at] = key \/ (at \in DOMAIN old /\ new[at] = old[at])
    /\ key \notin free => \A i \in DOMAIN first : first[i] = key => i = at

LEMMA KeysStayApart ==
    ASSUME NEW N \in Nat, NEW k, NEW live, NEW key, NEW at, NEW free,
           Apart(k[0], free),
           \A n \in 1..N : n \notin live => k[n] = k[n - 1],
           \A n \in 1..N : n \in live => Brings(k[0], k[n - 1], k[n], at[n], key[n], free),
           \A m, n \in 1..N : m < n /\ m \in live /\ n \in live /\ key[m] = key[n] => key[n] \in free
    PROVE  Apart(k[N], free)
<1> DEFINE apart(n) == \A i, j \in DOMAIN k[n] : k[n][i] = k[n][j] /\ k[n][i] \notin free => i = j
           known(n) == \A i \in DOMAIN k[n] : k[n][i] \notin free =>
                          \/ i \in DOMAIN k[0] /\ k[n][i] = k[0][i]
                          \/ \E m \in 1..n : m \in live /\ k[n][i] = key[m]
           S == {n \in Nat : apart(n) /\ known(n)}
<1>1. 0 \in S
  BY DEF Apart
<1>2. ASSUME NEW n \in 1..N, n - 1 \in S PROVE n \in S
  <2>1. apart(n - 1) /\ known(n - 1) /\ n \in Nat /\ n - 1 \in Nat /\ \A m \in 1..(n - 1) : m \in 1..n /\ m \in 1..N /\ m < n
    BY <1>2
  <2>2. CASE n \notin live
    <3>1. k[n] = k[n - 1]
      BY <2>2
    <3>2. apart(n)
      BY <2>1, <3>1
    <3>3. known(n)
      BY <2>1, <3>1
    <3> QED
      BY <2>1, <3>2, <3>3
  <2>3. CASE n \in live
    <3>1. /\ DOMAIN k[n] = DOMAIN k[n - 1] \cup {at[n]}
          /\ \A i \in DOMAIN k[n - 1] : i # at[n] => k[n][i] = k[n - 1][i]
          /\ k[n][at[n]] = key[n] \/ (at[n] \in DOMAIN k[n - 1] /\ k[n][at[n]] = k[n - 1][at[n]])
          /\ key[n] \notin free => \A i \in DOMAIN k[0] : k[0][i] = key[n] => i = at[n]
      BY <2>3 DEF Brings
    <3>2. known(n)
      <4> SUFFICES ASSUME NEW i \in DOMAIN k[n], k[n][i] \notin free
                   PROVE  \/ i \in DOMAIN k[0] /\ k[n][i] = k[0][i]
                          \/ \E m \in 1..n : m \in live /\ k[n][i] = key[m]
        OBVIOUS
      <4>1. CASE k[n][i] = key[n]
        BY <2>1, <2>3, <4>1
      <4>2. CASE i \in DOMAIN k[n - 1] /\ k[n][i] = k[n - 1][i]
        BY <2>1, <4>2
      <4> QED
        BY <3>1, <4>1, <4>2
    <3>3. ASSUME NEW i \in DOMAIN k[n - 1], i # at[n], k[n - 1][i] = key[n], key[n] \notin free PROVE FALSE
      <4>1. CASE i \in DOMAIN k[0] /\ k[n - 1][i] = k[0][i]
        BY <3>1, <3>3, <4>1
      <4>2. CASE \E m \in 1..(n - 1) : m \in live /\ k[n - 1][i] = key[m]
        BY <2>1, <2>3, <3>3, <4>2
      <4> QED
        BY <2>1, <3>3, <4>1, <4>2
    <3>4. apart(n)
      <4> SUFFICES ASSUME NEW i \in DOMAIN k[n], NEW j \in DOMAIN k[n], k[n][i] = k[n][j], k[n][i] \notin free, i # j
                   PROVE  FALSE
        OBVIOUS
      <4>1. CASE i # at[n] /\ j # at[n]
        BY <2>1, <3>1, <4>1
      <4>2. CASE i = at[n] /\ k[n][i] = key[n]
        BY <3>1, <3>3, <4>2
      <4>3. CASE j = at[n] /\ k[n][j] = key[n]
        BY <3>1, <3>3, <4>3
      <4>4. CASE /\ at[n] \in DOMAIN k[n - 1] /\ k[n][at[n]] = k[n - 1][at[n]]
                 /\ i = at[n] \/ j = at[n]
        BY <2>1, <3>1, <4>4
      <4> QED
        BY <3>1, <4>1, <4>2, <4>3, <4>4
    <3> QED
      BY <2>1, <3>2, <3>4
  <2> QED
    BY <2>2, <2>3
<1> HIDE DEF S
<1>3. N \in S
  <2>1. \A n \in 1..N : n - 1 \in S => n \in S
    BY <1>2
  <2>2. \A n \in 0..N : n \in S
    BY <1>1, <2>1, RowByRow
  <2> QED
    BY <2>2
<1> QED
  BY <1>3 DEF S, Apart

-----------------------------------------------------------------------------
(* Rows that say the same up to their review.                               *)
SameMatch(row, match) ==
    /\ row.validation = match.validation /\ row.action = match.action
    /\ row.product = match.product /\ row.offer = match.offer

(* Of a batch to which the catalog is as it was when its matching began,    *)
(* every valid row is what matching makes of it now; the valid rows of any  *)
(* batch share no identity with a row before them.                          *)
MatchedInv ==
    /\ Consistent(catalog)
    /\ \A b \in Batches :
        /\ batch[b].knew = applied => \A i \in DOMAIN Rows(b) :
              Rows(b)[i].validation = "VALID" => SameMatch(Rows(b)[i], Match(catalog, Entity(b), Records(b)[i]))
        /\ \A m, n \in DOMAIN Rows(b) :
              m < n /\ Rows(b)[n].validation = "VALID" =>
                 Identities(Entity(b), Records(b)[m]) \cap Identities(Entity(b), Records(b)[n]) = {}

LEMMA MatchedInit == Init => MatchedInv
<1> SUFFICES ASSUME Init PROVE MatchedInv
  OBVIOUS
<1>1. \A b \in Batches : DOMAIN Rows(b) = {}
  BY DEF Init, Absent, Rows
<1>2. Consistent(catalog)
  BY FirstCatalogAssumption DEF Init
<1> QED
  BY <1>1, <1>2 DEF MatchedInv

LEMMA MatchedQuiet == ASSUME MatchedInv, Quiet PROVE MatchedInv'
<1>1. /\ catalog' = catalog /\ applied' = applied
      /\ \A b \in Batches : Kept(b) /\ batch'[b].knew = batch[b].knew
  BY DEF Quiet, Kept
<1>2. \A b \in Batches :
         /\ Entity(b)' = Entity(b) /\ Records(b)' = Records(b) /\ DOMAIN Rows(b)' = DOMAIN Rows(b)
         /\ \A i \in DOMAIN Rows(b) :
              /\ Rows(b)'[i].validation = Rows(b)[i].validation /\ Rows(b)'[i].action = Rows(b)[i].action
              /\ Rows(b)'[i].product = Rows(b)[i].product /\ Rows(b)'[i].offer = Rows(b)[i].offer
  BY <1>1 DEF Kept, SameRows, Entity, Records, Rows
<1>3. Consistent(catalog)'
  BY <1>1 DEF MatchedInv
<1>4. ASSUME NEW b \in Batches, (batch[b].knew = applied)', NEW i \in DOMAIN Rows(b)', Rows(b)'[i].validation = "VALID"
      PROVE  SameMatch(Rows(b)'[i], Match(catalog', Entity(b)', Records(b)'[i]))
  <2>1. SameMatch(Rows(b)[i], Match(catalog, Entity(b), Records(b)[i]))
    BY <1>1, <1>2, <1>4 DEF MatchedInv
  <2> QED
    BY <1>1, <1>2, <1>4, <2>1 DEF SameMatch
<1>5. ASSUME NEW b \in Batches, NEW m \in DOMAIN Rows(b)', NEW n \in DOMAIN Rows(b)', m < n, Rows(b)'[n].validation = "VALID"
      PROVE  Identities(Entity(b)', Records(b)'[m]) \cap Identities(Entity(b)', Records(b)'[n]) = {}
  BY <1>2, <1>5 DEF MatchedInv
<1> QED
  BY <1>3, <1>4, <1>5 DEF MatchedInv

LEMMA MatchedStage == ASSUME BatchInv, KnewInv, MatchedInv, NEW b \in Batches, StageRow(b) PROVE MatchedInv'
<1>1. PICK n \in BatchRecord :
         /\ batch' = [batch EXCEPT ![b] = n] /\ n.file = batch[b].file
         /\ n.rows = StageNext(catalog, Entity(b), Records(b), Rows(b))
         /\ n.knew = IF batch[b].status = "absent" THEN applied ELSE batch[b].knew
  BY StageRowIs DEF BatchInv
<1>2. catalog' = catalog /\ applied' = applied
  BY StageRowIs DEF BatchInv
<1>3. batch'[b] = n /\ \A c \in Batches \ {b} : batch'[c] = batch[c]
  BY <1>1 DEF BatchInv, TypeInv
<1> DEFINE entity == Entity(b)
           records == Records(b)
           rows == Rows(b)
           next == n.rows
           last == Len(rows) + 1
<1>4. /\ IsCatalog(catalog) /\ entity \in Entities /\ rows \in Seq(StagedRow)
      /\ \A i \in DOMAIN rows : RowHolds(catalog, entity, records[i], rows[i])
  <2>1. batch[b] \in BatchRecord
    BY DEF BatchInv, TypeInv
  <2>2. RowsHold(catalog, batch[b])
    BY DEF BatchInv, RowsInv
  <2>3. batch[b].file \in Files /\ batch[b].rows \in Seq(StagedRow)
    BY <2>1, RecordFields
  <2>4. entity \in Entities
    BY <2>3, FileIs DEF Entity
  <2> QED
    BY <2>2, <2>3, <2>4 DEF BatchInv, TypeInv, RowsHold, Rows, Records, Entity
<1>5. next = StageNext(catalog, entity, records, rows)
  BY <1>1
<1>6. /\ Entity(b)' = entity /\ Records(b)' = records /\ Rows(b)' = next
      /\ \A c \in Batches \ {b} : Entity(c)' = Entity(c) /\ Records(c)' = Records(c) /\ Rows(c)' = Rows(c)
  BY <1>1, <1>3 DEF Entity, Records, Rows
<1>7. DOMAIN rows = {} \/ n.knew = batch[b].knew
  BY <1>1 DEF KnewInv
<1>8. batch[b].knew = applied => \A i \in DOMAIN rows :
         rows[i].validation = "VALID" => SameMatch(rows[i], Match(catalog, entity, records[i]))
  BY DEF MatchedInv
<1>9. \A m, l \in DOMAIN rows : m < l /\ rows[l].validation = "VALID" =>
         Identities(entity, records[m]) \cap Identities(entity, records[l]) = {}
  BY DEF MatchedInv
<1> HIDE DEF entity, records, rows, next
<1>10. /\ next \in Seq(StagedRow) /\ Len(next) = Len(rows) + 1
       /\ \A i \in DOMAIN rows : next[i].validation = "VALID" => next[i] = rows[i]
       /\ next[last].validation = "VALID" =>
             next[last] = Match(catalog, entity, records[last]) /\ Priors(entity, records, last) = {}
  BY <1>4, <1>5, StageNextHolds
<1>11. last \in Nat /\ DOMAIN rows = 1..(last - 1) /\ \A i \in DOMAIN next : i \in DOMAIN rows \/ i = last
  BY <1>4, <1>10
<1> HIDE DEF last
<1>12. ASSUME n.knew = applied, NEW i \in DOMAIN next, next[i].validation = "VALID"
       PROVE  SameMatch(next[i], Match(catalog, entity, records[i]))
  <2>1. CASE i = last
    BY <1>10, <1>12, <2>1 DEF SameMatch
  <2>2. CASE i \in DOMAIN rows
    BY <1>7, <1>8, <1>10, <1>12, <2>2
  <2> QED
    BY <1>11, <2>1, <2>2
<1>13. ASSUME NEW m \in DOMAIN next, NEW l \in DOMAIN next, m < l, next[l].validation = "VALID"
       PROVE  Identities(entity, records[m]) \cap Identities(entity, records[l]) = {}
  <2>1. CASE l = last
    <3>1. m \in 1..(last - 1)
      BY <1>11, <1>13, <2>1
    <3>2. \A x \in Identities(entity, records[last]) : x \notin Identities(entity, records[m])
      BY <1>10, <1>11, <1>13, <2>1, <3>1, NoPriorsIs
    <3> QED
      BY <2>1, <3>2
  <2>2. CASE l \in DOMAIN rows
    <3>1. m \in DOMAIN rows
      BY <1>11, <1>13, <2>2
    <3> QED
      BY <1>9, <1>10, <1>13, <2>2, <3>1
  <2> QED
    BY <1>11, <2>1, <2>2
<1>14. Consistent(catalog)'
  BY <1>2 DEF MatchedInv
<1>15. ASSUME NEW c \in Batches
       PROVE  /\ batch'[c].knew = applied' => \A i \in DOMAIN Rows(c)' :
                    Rows(c)'[i].validation = "VALID" => SameMatch(Rows(c)'[i], Match(catalog', Entity(c)', Records(c)'[i]))
              /\ \A m, l \in DOMAIN Rows(c)' : m < l /\ Rows(c)'[l].validation = "VALID" =>
                    Identities(Entity(c)', Records(c)'[m]) \cap Identities(Entity(c)', Records(c)'[l]) = {}
  <2>1. CASE c = b
    BY <1>2, <1>3, <1>6, <1>12, <1>13, <2>1
  <2>2. CASE c # b
    BY <1>2, <1>3, <1>6, <2>2 DEF MatchedInv
  <2> QED
    BY <2>1, <2>2
<1> QED
  BY <1>14, <1>15 DEF MatchedInv

LEMMA MatchedApply ==
    ASSUME BatchInv, KnewInv, MatchedInv, NEW q \in Requests, NEW b \in Batches, Apply(q, b), \A c \in Batches : Kept(c)
    PROVE  MatchedInv'
<1>1. Consistent(catalog)' /\ applied' = Append(applied, b)
  BY ApplyIs DEF BatchInv
<1>2. \A c \in Batches : batch'[c].knew # applied'
  <2> SUFFICES ASSUME NEW c \in Batches PROVE batch'[c].knew # applied'
    OBVIOUS
  <2>1. Len(applied') = Len(applied) + 1 /\ Len(applied) \in Nat
    <3>1. applied \in Seq(Batches)
      BY DEF BatchInv, TypeInv
    <3> QED
      BY <1>1, <3>1
  <2>2. batch'[c].knew = batch[c].knew /\ Len(batch[c].knew) <= Len(applied)
    BY DEF Kept, KnewInv
  <2>3. Len(batch[c].knew) \in Nat
    <3>1. batch[c].knew \in Seq(Batches)
      BY RecordFields DEF BatchInv, TypeInv
    <3> QED
      BY <3>1
  <2> QED
    BY <2>1, <2>2, <2>3
<1>3. ASSUME NEW c \in Batches, NEW m \in DOMAIN Rows(c)', NEW n \in DOMAIN Rows(c)', m < n, Rows(c)'[n].validation = "VALID"
      PROVE  Identities(Entity(c)', Records(c)'[m]) \cap Identities(Entity(c)', Records(c)'[n]) = {}
  <2>1. /\ Entity(c)' = Entity(c) /\ Records(c)' = Records(c) /\ DOMAIN Rows(c)' = DOMAIN Rows(c)
        /\ \A i \in DOMAIN Rows(c) : Rows(c)'[i].validation = Rows(c)[i].validation
    BY DEF Kept, SameRows, Entity, Records, Rows
  <2> QED
    BY <1>3, <2>1 DEF MatchedInv
<1> QED
  BY <1>1, <1>2, <1>3 DEF MatchedInv
-----------------------------------------------------------------------------
(* What a valid match says of the catalog: which key it does not have yet,  *)
(* or which one row has it.                                                 *)
LEMMA NoConflictIs ==
    ASSUME NEW cat, IsCatalog(cat), NEW r, ~ProductConflict(cat, r),
           NEW i \in Products(cat, r), NEW j \in Products(cat, r)
    PROVE  i = j
<1> SUFFICES ASSUME i # j PROVE FALSE
  OBVIOUS
<1> DEFINE S == Products(cat, r)
<1>1. IsFiniteSet(S)
  <2>1. cat["products"] \in Seq(Range(cat["products"]))
    BY DEF IsCatalog, Tables
  <2>2. Len(cat.products) \in Nat /\ DOMAIN cat.products = 1..Len(cat.products)
    BY <2>1
  <2>3. IsFiniteSet(1..Len(cat.products))
    BY <2>2, FS_Interval
  <2>4. S \subseteq 1..Len(cat.products)
    BY <2>2 DEF Products
  <2> QED
    BY <2>3, <2>4, FS_Subset
<1>2. ~(Cardinality(S) > 1)
  BY DEF ProductConflict
<1> HIDE DEF S
<1>3. {i, j} \subseteq S
  BY DEF S
<1>4. IsFiniteSet({i, j}) /\ Cardinality({i, j}) = 2
  <2>1. IsFiniteSet({i}) /\ Cardinality({i}) = 1
    BY FS_Singleton
  <2>2. {i, j} = {i} \cup {j} /\ j \notin {i}
    OBVIOUS
  <2>3. IsFiniteSet({i} \cup {j}) /\ Cardinality({i} \cup {j}) = Cardinality({i}) + 1
    BY <2>1, <2>2, FS_AddElement
  <2> QED
    BY <2>1, <2>2, <2>3
<1>5. Cardinality({i, j}) <= Cardinality(S) /\ Cardinality(S) \in Nat
  BY <1>1, <1>3, FS_Subset, FS_CardinalityType
<1> QED
  BY <1>2, <1>4, <1>5

LEMMA VerdictsAre ==
    /\ Create \in StagedRow /\ Invalid \in StagedRow /\ Blocked \in StagedRow /\ Ambiguous \in StagedRow /\ Duplicate \in StagedRow
    /\ Invalid.validation # "VALID" /\ Blocked.validation # "VALID" /\ Ambiguous.validation # "VALID" /\ Duplicate.validation # "VALID"
    /\ \A w \in {"PENDING", "NOT_REQUIRED"} : \A a \in {"CREATE", "UPDATE", "REVIEW"} :
          Outcome("VALID", w, a) \in StagedRow /\ Outcome("VALID", w, a).product = NoId /\ Outcome("VALID", w, a).action = a
    /\ Create.product = NoId
<1>1. /\ "VALID" \in Validations /\ "INVALID" \in Validations /\ "DUPLICATE" \in Validations
      /\ "AMBIGUOUS" \in Validations /\ "BLOCKED" \in Validations
      /\ "PENDING" \in Reviews /\ "NOT_REQUIRED" \in Reviews
      /\ "CREATE" \in Actions /\ "UPDATE" \in Actions /\ "SKIP" \in Actions
      /\ "REVIEW" \in Actions /\ "REJECT" \in Actions
  BY DEF Validations, Reviews, Actions
<1> QED
  BY <1>1, OutcomeIs DEF Create, Invalid, Blocked, Ambiguous, Duplicate

LEMMA ForNames ==
    ASSUME NEW cat, NEW r, NEW row \in StagedRow
    PROVE  LET f == For(cat, r, row)
           IN  f.product = TheId(Products(cat, r)) /\ f.validation = row.validation /\ f.action = row.action /\ f.offer = row.offer
<1> DEFINE p == TheId(Products(cat, r))
<1> HIDE DEF p
<1>1. For(cat, r, row) = [row EXCEPT !.product = p]
  BY DEF For, p
<1>2. DOMAIN row = {"validation", "review", "action", "product", "offer"}
  BY DEF StagedRow
<1> QED
  BY <1>1, <1>2 DEF p

LEMMA ValidProductIs ==
    ASSUME NEW cat, IsCatalog(cat), NEW r, MatchProduct(cat, r).validation = "VALID"
    PROVE  \A i \in Products(cat, r) : i = MatchProduct(cat, r).product
<1>1. ~ProductConflict(cat, r)
  <2>1. ProductConflict(cat, r) => MatchProduct(cat, r) = Ambiguous
    BY DEF MatchProduct, Resolved
  <2> QED
    BY <2>1, VerdictsAre
<1> SUFFICES ASSUME NEW i \in Products(cat, r) PROVE i = MatchProduct(cat, r).product
  OBVIOUS
<1>2. MatchProduct(cat, r) = For(cat, r, Outcome("VALID", "PENDING", "UPDATE"))
  BY <1>1 DEF MatchProduct, Resolved
<1>3. MatchProduct(cat, r).product = TheId(Products(cat, r))
  BY <1>2, VerdictsAre, ForNames
<1>4. TheId(Products(cat, r)) \in Products(cat, r)
  BY DEF TheId
<1> QED
  BY <1>1, <1>3, <1>4, NoConflictIs

LEMMA ValidStoreIs ==
    ASSUME NEW cat, NEW r, MatchStore(cat, r).action # "UPDATE"
    PROVE  StoreIds(cat, r) = {}
<1>1. Outcome("VALID", "NOT_REQUIRED", "UPDATE").action = "UPDATE"
  BY DEF Outcome
<1> QED
  BY <1>1, Zenon DEF MatchStore

LEMMA ValidSpecificationIs ==
    ASSUME NEW cat, NEW r, MatchSpecification(cat, r).validation = "VALID"
    PROVE  \A s \in Range(cat.specs) : ~(s.product = MatchSpecification(cat, r).product /\ s.key = r.key)
<1> DEFINE known == {s \in Range(cat.specs) : s.product = TheId(Products(cat, r)) /\ s.key = r.key}
           m == MatchSpecification(cat, r)
<1>1. Resolved(cat, r)
  BY VerdictsAre DEF MatchSpecification, Unresolved
<1>2. m = For(cat, r, IF known = {} THEN Create ELSE IF \E s \in known : s.value = r.value THEN Duplicate ELSE Ambiguous)
  BY <1>1, Zenon DEF MatchSpecification
<1> HIDE DEF m
<1>3. known = {} /\ m.product = TheId(Products(cat, r))
  <2>1. CASE known = {}
    BY <1>2, <2>1, VerdictsAre, ForNames
  <2>2. CASE known # {}
    <3>1. PICK o \in {Duplicate, Ambiguous} : m = For(cat, r, o)
      <4> HIDE DEF known
      <4> QED
        BY <1>2, <2>2, Zenon
    <3>2. m.validation # "VALID"
      BY <3>1, VerdictsAre, ForNames
    <3> QED
      BY <3>2 DEF m
  <2> QED
    BY <2>1, <2>2
<1> QED
  BY <1>3 DEF m

LEMMA ValidImageIs ==
    ASSUME NEW cat, NEW r, MatchImage(cat, r).validation = "VALID", r.primary
    PROVE  \A i \in Range(cat.images) : ~(i.product = MatchImage(cat, r).product /\ i.primary /\ i.approved)
<1> DEFINE p == TheId(Products(cat, r))
           images == Range(cat.images)
           taken == r.primary /\ \E i \in images : i.product = p /\ i.primary /\ i.approved
           m == MatchImage(cat, r)
<1>1. Resolved(cat, r)
  BY VerdictsAre DEF MatchImage, Unresolved
<1>2. m = For(cat, r,
               IF r.verdict = "REJECTED" THEN Invalid
               ELSE IF \E i \in images : i.sum = r.sum THEN Duplicate
               ELSE IF taken THEN Ambiguous
               ELSE IF r.verdict = "REVIEW_REQUIRED" \/ ~r.rights THEN Outcome("VALID", "PENDING", "REVIEW")
               ELSE Create)
  BY <1>1, Zenon DEF MatchImage
<1> HIDE DEF m
<1>3. PICK o \in {Invalid, Duplicate, Ambiguous, Outcome("VALID", "PENDING", "REVIEW"), Create} :
         m = For(cat, r, o) /\ (taken => o \in {Invalid, Duplicate, Ambiguous})
  <2> HIDE DEF taken, images
  <2> QED
    BY <1>2, Zenon
<1>4. o \in StagedRow /\ (taken => o.validation # "VALID")
  BY <1>3, VerdictsAre
<1>5. m.product = p /\ m.validation = o.validation
  BY <1>3, <1>4, ForNames
<1>6. ~taken
  BY <1>4, <1>5 DEF m
<1> QED
  BY <1>5, <1>6 DEF m

LEMMA ValidOfferIs ==
    ASSUME NEW cat, IsCatalog(cat), NEW r, MatchOffer(cat, r).validation = "VALID", MatchOffer(cat, r).offer = NoId
    PROVE  OfferIds(cat, r) = {}
<1> DEFINE o == TheId(OfferIds(cat, r))
           m == MatchOffer(cat, r)
<1>1. NoId \notin OfferIds(cat, r)
  <2>1. cat["offers"] \in Seq(Range(cat["offers"]))
    BY DEF IsCatalog, Tables
  <2>2. NoId \notin DOMAIN cat.offers
    BY <2>1 DEF NoId
  <2> QED
    BY <2>2 DEF OfferIds
<1>2. OfferIds(cat, r) # {} => o \in OfferIds(cat, r)
  BY DEF TheId
<1> SUFFICES ASSUME OfferIds(cat, r) # {} PROVE FALSE
  OBVIOUS
<1>3. o # NoId /\ o \in DOMAIN cat.offers /\ DOMAIN cat.offers \subseteq Nat
  <2>1. cat["offers"] \in Seq(Range(cat["offers"]))
    BY DEF IsCatalog, Tables
  <2>2. OfferIds(cat, r) \subseteq DOMAIN cat.offers /\ DOMAIN cat.offers \subseteq Nat
    BY <2>1 DEF OfferIds
  <2> HIDE DEF o
  <2> QED
    BY <1>1, <1>2, <2>2
<1>4. StoreIds(cat, r) # {} /\ Resolved(cat, r)
  BY VerdictsAre DEF MatchOffer, Unresolved
<1>5. cat.offers[o].product = TheId(Products(cat, r))
  <2> SUFFICES ASSUME cat.offers[o].product # TheId(Products(cat, r)) PROVE FALSE
    OBVIOUS
  <2>1. m = For(cat, r, Ambiguous)
    BY <1>3, <1>4, Zenon DEF MatchOffer
  <2> QED
    BY <2>1, VerdictsAre, ForNames
<1>6. PICK base \in {Duplicate, Outcome("VALID", "NOT_REQUIRED", "UPDATE")} : m = [For(cat, r, base) EXCEPT !.offer = o]
  BY <1>3, <1>4, <1>5, Zenon DEF MatchOffer
<1>7. base \in StagedRow
  BY <1>6, VerdictsAre
<1>8. For(cat, r, base) \in StagedRow
  BY <1>7, ForIs
<1>9. m.offer = o
  BY <1>3, <1>6, <1>8, OfferSet
<1> QED
  BY <1>3, <1>9

-----------------------------------------------------------------------------
(* A row that is committed touches the tables of its kind only.             *)
LEMMA CommitTouches ==
    ASSUME NEW cat, IsCatalog(cat), NEW entity \in Entities, NEW r, NEW row, NEW by
    PROVE  LET new == CommitRow(cat, entity, r, row, by)
           IN  /\ entity # "PRODUCT" => new.products = cat.products
               /\ entity # "STORE" => new.stores = cat.stores
               /\ entity # "PRODUCT_SPECIFICATION" => new.specs = cat.specs
               /\ entity # "PRODUCT_IMAGE_METADATA" => new.images = cat.images
               /\ entity # "STORE_OFFER" => new.offers = cat.offers
<1> DEFINE new == CommitRow(cat, entity, r, row, by)
<1>0. DOMAIN cat = {"products", "stores", "specs", "images", "offers", "history"}
  BY DEF IsCatalog, Tables
<1>1. CASE entity = "PRODUCT"
  <2>1. \E s : new = [cat EXCEPT !.products = s]
    BY <1>1, Zenon DEF CommitRow, CommitProduct
  <2> HIDE DEF new
  <2>2. new.stores = cat.stores /\ new.specs = cat.specs /\ new.images = cat.images /\ new.offers = cat.offers
    BY <1>0, <2>1
  <2> QED
    BY <1>1, <2>2 DEF new
<1>2. CASE entity = "STORE"
  <2>1. new = cat \/ \E s : new = [cat EXCEPT !.stores = s]
    BY <1>2, Zenon DEF CommitRow, CommitStore
  <2> HIDE DEF new
  <2>2. new.products = cat.products /\ new.specs = cat.specs /\ new.images = cat.images /\ new.offers = cat.offers
    BY <1>0, <2>1
  <2> QED
    BY <1>2, <2>2 DEF new
<1>3. CASE entity = "PRODUCT_SPECIFICATION"
  <2>1. \E s : new = [cat EXCEPT !.specs = s]
    BY <1>3, Zenon DEF CommitRow
  <2> HIDE DEF new
  <2>2. new.products = cat.products /\ new.stores = cat.stores /\ new.images = cat.images /\ new.offers = cat.offers
    BY <1>0, <2>1
  <2> QED
    BY <1>3, <2>2 DEF new
<1>4. CASE entity = "PRODUCT_IMAGE_METADATA"
  <2>1. \E s : new = [cat EXCEPT !.images = s]
    BY <1>4, Zenon DEF CommitRow
  <2> HIDE DEF new
  <2>2. new.products = cat.products /\ new.stores = cat.stores /\ new.specs = cat.specs /\ new.offers = cat.offers
    BY <1>0, <2>1
  <2> QED
    BY <1>4, <2>2 DEF new
<1>5. CASE entity = "STORE_OFFER"
  <2>1. \E s, h : new = [cat EXCEPT !.offers = s] \/ new = [cat EXCEPT !.history = h, !.offers = s]
    BY <1>5, Zenon DEF CommitRow, CommitOffer
  <2> HIDE DEF new
  <2>2. new.products = cat.products /\ new.stores = cat.stores /\ new.specs = cat.specs /\ new.images = cat.images
    BY <1>0, <2>1
  <2> QED
    BY <1>5, <2>2 DEF new
<1>6. CASE entity = "PRICE_OBSERVATION"
  <2>1. \E s : new = [cat EXCEPT !.history = s]
    BY <1>6, Zenon DEF CommitRow
  <2> HIDE DEF new
  <2>2. new.products = cat.products /\ new.stores = cat.stores /\ new.specs = cat.specs /\ new.images = cat.images /\ new.offers = cat.offers
    BY <1>0, <2>1
  <2> QED
    BY <1>6, <2>2 DEF new
<1> QED
  BY <1>1, <1>2, <1>3, <1>4, <1>5, <1>6 DEF Entities
-----------------------------------------------------------------------------
(* A batch whose rows may be applied to the catalog they were matched with. *)
Live(b, n) == Rows(b)[n].action # "SKIP"
Foreseen(b) ==
    /\ IsCatalog(catalog) /\ Consistent(catalog) /\ Entity(b) \in Entities
    /\ Len(Rows(b)) \in Nat /\ DOMAIN Rows(b) = 1..Len(Rows(b))
    /\ \A n \in 0..Len(Rows(b)) : Grows(catalog, AfterRows(b)[n])
    /\ \A n \in 1..Len(Rows(b)) : RowHolds(catalog, Entity(b), Records(b)[n], Rows(b)[n])
    /\ \A n \in 1..Len(Rows(b)) : Live(b, n) =>
          /\ Rows(b)[n].validation = "VALID" /\ Records(b)[n].wellFormed
          /\ SameMatch(Rows(b)[n], Match(catalog, Entity(b), Records(b)[n]))
    /\ \A m, n \in 1..Len(Rows(b)) : m < n /\ Live(b, n) =>
          Identities(Entity(b), Records(b)[m]) \cap Identities(Entity(b), Records(b)[n]) = {}

(* One row after the other.                                                 *)
LEMMA OneRow ==
    ASSUME NEW b, Foreseen(b), NEW n \in 1..Len(Rows(b))
    PROVE  /\ AfterRows(b)[0] = catalog /\ IsCatalog(AfterRows(b)[n - 1])
           /\ Grows(catalog, AfterRows(b)[n - 1])
           /\ ~Live(b, n) => AfterRows(b)[n] = AfterRows(b)[n - 1]
           /\ Live(b, n) => AfterRows(b)[n] = CommitRow(AfterRows(b)[n - 1], Entity(b), Records(b)[n], Rows(b)[n], b)
           /\ Matched(AfterRows(b)[n - 1], Rows(b)[n])
<1>1. n - 1 \in 0..Len(Rows(b)) /\ Len(Rows(b)) \in Nat
  BY DEF Foreseen
<1>2. Grows(catalog, AfterRows(b)[n - 1]) /\ Matched(catalog, Rows(b)[n])
  BY <1>1 DEF Foreseen, RowHolds
<1>3. Matched(AfterRows(b)[n - 1], Rows(b)[n])
  BY <1>2, MatchedStays
<1>4. /\ AfterRows(b)[0] = catalog
      /\ AfterRows(b)[n] = IF Rows(b)[n].action = "SKIP" THEN AfterRows(b)[n - 1]
                           ELSE CommitRow(AfterRows(b)[n - 1], Entity(b), Records(b)[n], Rows(b)[n], b)
  BY <1>1, AfterRowsFollow
<1> QED
  BY <1>2, <1>3, <1>4 DEF Live, Grows

LEMMA OtherTablesStay ==
    ASSUME NEW b, Foreseen(b)
    PROVE  \A n \in 0..Len(Rows(b)) :
              /\ Entity(b) # "PRODUCT" => AfterRows(b)[n].products = catalog.products
              /\ Entity(b) # "STORE" => AfterRows(b)[n].stores = catalog.stores
              /\ Entity(b) # "PRODUCT_SPECIFICATION" => AfterRows(b)[n].specs = catalog.specs
              /\ Entity(b) # "PRODUCT_IMAGE_METADATA" => AfterRows(b)[n].images = catalog.images
              /\ Entity(b) # "STORE_OFFER" => AfterRows(b)[n].offers = catalog.offers
<1> DEFINE N == Len(Rows(b))
           same(c) == /\ Entity(b) # "PRODUCT" => c.products = catalog.products
                      /\ Entity(b) # "STORE" => c.stores = catalog.stores
                      /\ Entity(b) # "PRODUCT_SPECIFICATION" => c.specs = catalog.specs
                      /\ Entity(b) # "PRODUCT_IMAGE_METADATA" => c.images = catalog.images
                      /\ Entity(b) # "STORE_OFFER" => c.offers = catalog.offers
           S == {n \in Nat : same(AfterRows(b)[n])}
<1>1. N \in Nat /\ Entity(b) \in Entities
  BY DEF Foreseen
<1>2. 0 \in S
  <2>1. AfterRows(b)[0] = catalog
    BY <1>1, AfterRowsFollow
  <2> QED
    BY <2>1
<1>3. ASSUME NEW n \in 1..N, n - 1 \in S PROVE n \in S
  <2> DEFINE c == AfterRows(b)[n - 1]
             d == AfterRows(b)[n]
  <2>1. IsCatalog(c) /\ (d = c \/ d = CommitRow(c, Entity(b), Records(b)[n], Rows(b)[n], b)) /\ same(c) /\ n \in Nat
    BY <1>3, OneRow
  <2>2. /\ Entity(b) # "PRODUCT" => d.products = c.products
        /\ Entity(b) # "STORE" => d.stores = c.stores
        /\ Entity(b) # "PRODUCT_SPECIFICATION" => d.specs = c.specs
        /\ Entity(b) # "PRODUCT_IMAGE_METADATA" => d.images = c.images
        /\ Entity(b) # "STORE_OFFER" => d.offers = c.offers
    <3> HIDE DEF c, d, same
    <3> QED
      BY <1>1, <2>1, CommitTouches
  <2> QED
    BY <2>1, <2>2
<1> HIDE DEF N, S
<1>4. \A n \in 0..N : n \in S
  BY <1>1, <1>2, <1>3, RowByRow
<1> QED
  BY <1>4 DEF N, S

(* What the rows of a batch do to the table of their kind.                  *)
LEMMA CommitProductIs ==
    ASSUME NEW cat, IsCatalog(cat), NEW r, NEW row, Matched(cat, row)
    PROVE  LET old == cat.products
               new == CommitProduct(cat, r, row).products
               at == IF row.product = NoId THEN Len(old) + 1 ELSE row.product
           IN  /\ DOMAIN new = DOMAIN old \cup {at} /\ \A i \in DOMAIN old : i # at => new[i] = old[i]
               /\ new[at].part = r.part
               /\ new[at].gtin = r.gtin \/ (r.gtin = NoGtin /\ at \in DOMAIN old /\ new[at].gtin = old[at].gtin)
<1> DEFINE old == cat.products
           new == CommitProduct(cat, r, row).products
           at == IF row.product = NoId THEN Len(old) + 1 ELSE row.product
<1>0. old \in Seq(Range(old)) /\ "products" \in DOMAIN cat
  BY DEF IsCatalog, Tables
<1>1. CASE row.product = NoId
  <2> DEFINE e == [part |-> r.part, gtin |-> r.gtin]
  <2>1. new = Append(old, e)
    BY <1>0, <1>1, Zenon DEF CommitProduct
  <2>2. e.part = r.part /\ e.gtin = r.gtin
    OBVIOUS
  <2>3. at = Len(old) + 1
    BY <1>1
  <2> HIDE DEF new, old, e, at
  <2>4. /\ DOMAIN new = 1..(Len(old) + 1) /\ DOMAIN old = 1..Len(old) /\ Len(old) \in Nat
        /\ new[Len(old) + 1] = e /\ \A i \in DOMAIN old : new[i] = old[i]
    BY <1>0, <2>1, Longer
  <2> QED
    BY <2>2, <2>3, <2>4 DEF new, old, at
<1>2. CASE row.product # NoId
  <2> DEFINE e == [part |-> r.part, gtin |-> IF r.gtin = NoGtin THEN old[row.product].gtin ELSE r.gtin]
  <2>1. new = [old EXCEPT ![row.product] = e]
    BY <1>0, <1>2, Zenon DEF CommitProduct
  <2>2. e.part = r.part /\ e.gtin = IF r.gtin = NoGtin THEN old[row.product].gtin ELSE r.gtin
    OBVIOUS
  <2>3. at = row.product /\ row.product \in DOMAIN old
    BY <1>2 DEF Matched
  <2> HIDE DEF new, old, e, at
  <2>4. DOMAIN new = DOMAIN old /\ \A i \in DOMAIN old : new[i] = IF i = row.product THEN e ELSE old[i]
    BY <1>0, <2>1, <2>3, Changed
  <2> QED
    BY <2>2, <2>3, <2>4 DEF new, old, at
<1> QED
  BY <1>1, <1>2

LEMMA ProductsApart ==
    ASSUME NEW b, Foreseen(b), Entity(b) = "PRODUCT", \A n \in 1..Len(Rows(b)) : Live(b, n) => Records(b)[n].part # NoPart
    PROVE  \A i, j \in DOMAIN Result(b).products :
              LET p == Result(b).products[i]
                  o == Result(b).products[j]
              IN  p.part = o.part \/ (p.gtin # NoGtin /\ p.gtin = o.gtin) => i = j
<1> DEFINE N == Len(Rows(b))
           T(n) == AfterRows(b)[n].products
           at == [n \in 1..N |-> IF Rows(b)[n].product = NoId THEN Len(T(n - 1)) + 1 ELSE Rows(b)[n].product]
           live == {n \in 1..N : Live(b, n)}
           parts == [n \in 0..N |-> [i \in DOMAIN T(n) |-> T(n)[i].part]]
           gtins == [n \in 0..N |-> [i \in DOMAIN T(n) |-> T(n)[i].gtin]]
           part == [n \in 1..N |-> Records(b)[n].part]
           gtin == [n \in 1..N |-> Records(b)[n].gtin]
<1>1. N \in Nat /\ \A n \in 1..N : n - 1 \in 0..N /\ n \in 0..N
  BY DEF Foreseen
<1>2. T(0) = catalog.products
  BY <1>1, AfterRowsFollow
<1>3. \A i, j \in DOMAIN T(0) : T(0)[i].part = T(0)[j].part \/ (T(0)[i].gtin # NoGtin /\ T(0)[i].gtin = T(0)[j].gtin) => i = j
  BY <1>2 DEF Foreseen, Consistent
<1>4. ASSUME NEW n \in 1..N, ~Live(b, n) PROVE T(n) = T(n - 1)
  BY <1>4, OneRow
<1>5. ASSUME NEW n \in 1..N, Live(b, n)
      PROVE  /\ DOMAIN T(n) = DOMAIN T(n - 1) \cup {at[n]}
             /\ \A i \in DOMAIN T(n - 1) : i # at[n] => T(n)[i] = T(n - 1)[i]
             /\ T(n)[at[n]].part = part[n]
             /\ \/ T(n)[at[n]].gtin = gtin[n]
                \/ gtin[n] = NoGtin /\ at[n] \in DOMAIN T(n - 1) /\ T(n)[at[n]].gtin = T(n - 1)[at[n]].gtin
  <2> DEFINE c == AfterRows(b)[n - 1]
  <2>1. IsCatalog(c) /\ Matched(c, Rows(b)[n]) /\ AfterRows(b)[n] = CommitRow(c, Entity(b), Records(b)[n], Rows(b)[n], b)
    BY <1>5, OneRow
  <2>2. AfterRows(b)[n] = CommitProduct(c, Records(b)[n], Rows(b)[n])
    BY <2>1 DEF CommitRow
  <2>3. at[n] = IF Rows(b)[n].product = NoId THEN Len(c.products) + 1 ELSE Rows(b)[n].product
    OBVIOUS
  <2>4. part[n] = Records(b)[n].part /\ gtin[n] = Records(b)[n].gtin
    OBVIOUS
  <2> HIDE DEF c, at, part, gtin
  <2>5. T(n) = CommitProduct(c, Records(b)[n], Rows(b)[n]).products /\ T(n - 1) = c.products
    BY <2>2 DEF c
  <2> HIDE DEF T
  <2> QED
    BY <2>1, <2>3, <2>4, <2>5, CommitProductIs
<1>6. ASSUME NEW n \in 1..N, Live(b, n), NEW i \in DOMAIN T(0), T(0)[i].part = part[n] \/ (gtin[n] # NoGtin /\ T(0)[i].gtin = gtin[n])
      PROVE  i = at[n]
  <2> DEFINE r == Records(b)[n]
  <2>1. r.part # NoPart /\ part[n] = r.part /\ gtin[n] = r.gtin
    BY <1>6
  <2>2. i \in Products(catalog, r)
    BY <1>2, <1>6, <2>1 DEF Products, SamePart
  <2>3. /\ IsCatalog(catalog) /\ r.wellFormed /\ Rows(b)[n].validation = "VALID"
        /\ SameMatch(Rows(b)[n], Match(catalog, "PRODUCT", r))
    BY <1>6 DEF Foreseen
  <2>4. Match(catalog, "PRODUCT", r) = MatchProduct(catalog, r)
    BY <2>3 DEF Match
  <2>5. i = Rows(b)[n].product
    BY <2>2, <2>3, <2>4, ValidProductIs DEF SameMatch
  <2>6. i # NoId
    <3>1. catalog["products"] \in Seq(Range(catalog["products"]))
      BY <2>3 DEF IsCatalog, Tables
    <3> QED
      BY <1>2, <1>6, <3>1 DEF NoId
  <2> QED
    BY <2>5, <2>6
<1>7. ASSUME NEW m \in 1..N, NEW n \in 1..N, m < n, Live(b, n)
      PROVE  part[m] # part[n] /\ (gtin[m] = gtin[n] => gtin[n] = NoGtin)
  <2>1. Identities("PRODUCT", Records(b)[m]) \cap Identities("PRODUCT", Records(b)[n]) = {}
    BY <1>7 DEF Foreseen
  <2>2. \A r : Identities("PRODUCT", r) = {<<"part", r.part>>, <<"gtin", r.gtin>>} \ {<<"gtin", NoGtin>>}
    BY DEF Identities
  <2>3. \A x : <<"part", x>> # <<"gtin", NoGtin>>
    OBVIOUS
  <2> QED
    BY <2>1, <2>2, <2>3
<1>8. \A n \in 0..N : /\ DOMAIN parts[n] = DOMAIN T(n) /\ DOMAIN gtins[n] = DOMAIN T(n)
                      /\ \A i \in DOMAIN T(n) : parts[n][i] = T(n)[i].part /\ gtins[n][i] = T(n)[i].gtin
  OBVIOUS
<1>9. \A n \in 1..N : T(n) = T(n - 1) => parts[n] = parts[n - 1] /\ gtins[n] = gtins[n - 1]
  <2> HIDE DEF T
  <2> QED
    BY <1>1
<1>10. \A n \in 1..N : n \in live <=> Live(b, n)
  OBVIOUS
<1>11. T(N) = Result(b).products
  BY DEF Result
<1>12. 0 \in 0..N /\ N \in 0..N
  BY <1>1
<1> HIDE DEF T, N, parts, gtins, part, gtin, at, live
<1>13. Apart(parts[N], {})
  <2>1. Apart(parts[0], {})
    BY <1>3, <1>8, <1>12 DEF Apart
  <2>2. \A n \in 1..N : n \notin live => parts[n] = parts[n - 1]
    BY <1>4, <1>9, <1>10
  <2>3. ASSUME NEW n \in 1..N, n \in live
        PROVE  Brings(parts[0], parts[n - 1], parts[n], at[n], part[n], {})
    <3>1. Live(b, n) /\ n \in 0..N /\ n - 1 \in 0..N
      BY <1>1, <1>10, <2>3
    <3>2. DOMAIN parts[n] = DOMAIN parts[n - 1] \cup {at[n]} /\ at[n] \in DOMAIN T(n)
      BY <1>5, <1>8, <3>1
    <3>3. ASSUME NEW i \in DOMAIN parts[n - 1], i # at[n] PROVE parts[n][i] = parts[n - 1][i]
      <4>1. i \in DOMAIN T(n - 1) /\ i \in DOMAIN T(n)
        BY <1>8, <3>1, <3>2, <3>3
      <4>2. T(n)[i] = T(n - 1)[i]
        BY <1>5, <3>1, <3>3, <4>1
      <4> QED
        BY <1>8, <3>1, <4>1, <4>2
    <3>4. parts[n][at[n]] = part[n] \/ (at[n] \in DOMAIN parts[n - 1] /\ parts[n][at[n]] = parts[n - 1][at[n]])
      BY <1>5, <1>8, <3>1, <3>2
    <3>5. part[n] \notin {} => \A i \in DOMAIN parts[0] : parts[0][i] = part[n] => i = at[n]
      BY <1>6, <1>8, <1>12, <3>1
    <3> QED
      BY <3>2, <3>3, <3>4, <3>5 DEF Brings
  <2>4. \A m, n \in 1..N : m < n /\ m \in live /\ n \in live /\ part[m] = part[n] => part[n] \in {}
    BY <1>7, <1>10
  <2> QED
    BY <1>1, <2>1, <2>2, <2>3, <2>4, KeysStayApart
<1>14. Apart(gtins[N], {NoGtin})
  <2>1. Apart(gtins[0], {NoGtin})
    BY <1>3, <1>8, <1>12 DEF Apart
  <2>2. \A n \in 1..N : n \notin live => gtins[n] = gtins[n - 1]
    BY <1>4, <1>9, <1>10
  <2>3. ASSUME NEW n \in 1..N, n \in live
        PROVE  Brings(gtins[0], gtins[n - 1], gtins[n], at[n], gtin[n], {NoGtin})
    <3>1. Live(b, n) /\ n \in 0..N /\ n - 1 \in 0..N
      BY <1>1, <1>10, <2>3
    <3>2. DOMAIN gtins[n] = DOMAIN gtins[n - 1] \cup {at[n]} /\ at[n] \in DOMAIN T(n)
      BY <1>5, <1>8, <3>1
    <3>3. ASSUME NEW i \in DOMAIN gtins[n - 1], i # at[n] PROVE gtins[n][i] = gtins[n - 1][i]
      <4>1. i \in DOMAIN T(n - 1) /\ i \in DOMAIN T(n)
        BY <1>8, <3>1, <3>2, <3>3
      <4>2. T(n)[i] = T(n - 1)[i]
        BY <1>5, <3>1, <3>3, <4>1
      <4> QED
        BY <1>8, <3>1, <4>1, <4>2
    <3>4. gtins[n][at[n]] = gtin[n] \/ (at[n] \in DOMAIN gtins[n - 1] /\ gtins[n][at[n]] = gtins[n - 1][at[n]])
      BY <1>5, <1>8, <3>1, <3>2
    <3>5. gtin[n] \notin {NoGtin} => \A i \in DOMAIN gtins[0] : gtins[0][i] = gtin[n] => i = at[n]
      BY <1>6, <1>8, <1>12, <3>1
    <3> QED
      BY <3>2, <3>3, <3>4, <3>5 DEF Brings
  <2>4. \A m, n \in 1..N : m < n /\ m \in live /\ n \in live /\ gtin[m] = gtin[n] => gtin[n] \in {NoGtin}
    BY <1>7, <1>10
  <2> QED
    BY <1>1, <2>1, <2>2, <2>3, <2>4, KeysStayApart
<1> QED
  BY <1>8, <1>11, <1>12, <1>13, <1>14 DEF Apart
-----------------------------------------------------------------------------
(* A table that one row is appended to.                                     *)
LEMMA AppendBrings ==
    ASSUME NEW s, s \in Seq(Range(s)), NEW e, NEW first, NEW old, NEW new, NEW key, NEW free,
           DOMAIN old = DOMAIN s, DOMAIN new = DOMAIN Append(s, e), \A i \in DOMAIN s : new[i] = old[i],
           new[Len(s) + 1] = key, key \notin free => \A i \in DOMAIN first : first[i] # key
    PROVE  Brings(first, old, new, Len(s) + 1, key, free)
<1>1. DOMAIN Append(s, e) = 1..(Len(s) + 1) /\ DOMAIN s = 1..Len(s) /\ Len(s) \in Nat
  BY Longer
<1>2. DOMAIN new = DOMAIN old \cup {Len(s) + 1}
  BY <1>1
<1> QED
  BY <1>2 DEF Brings

LEMMA StoresApart ==
    ASSUME NEW b, Foreseen(b), Entity(b) = "STORE"
    PROVE  \A i, j \in DOMAIN Result(b).stores : Result(b).stores[i] = Result(b).stores[j] => i = j
<1> DEFINE N == Len(Rows(b))
           T(n) == AfterRows(b)[n].stores
           live == {n \in 1..N : Live(b, n) /\ Rows(b)[n].action # "UPDATE"}
           keys == [n \in 0..N |-> [i \in DOMAIN T(n) |-> T(n)[i]]]
           key == [n \in 1..N |-> Records(b)[n].store]
           at == [n \in 1..N |-> Len(T(n - 1)) + 1]
<1>1. N \in Nat /\ (\A n \in 1..N : n - 1 \in 0..N /\ n \in 0..N) /\ 0 \in 0..N /\ N \in 0..N
  BY DEF Foreseen
<1>2. T(0) = catalog.stores /\ T(N) = Result(b).stores
  BY <1>1, AfterRowsFollow DEF Result
<1>3. \A n \in 1..N : T(n - 1) \in Seq(Range(T(n - 1)))
  <2>1. \A n \in 1..N : IsCatalog(AfterRows(b)[n - 1])
    BY OneRow
  <2> QED
    BY <2>1 DEF IsCatalog, Tables
<1>4. Apart(keys[0], {})
  BY <1>1, <1>2 DEF Foreseen, Consistent, Apart
<1>5. ASSUME NEW n \in 1..N, ~(Live(b, n) /\ Rows(b)[n].action # "UPDATE") PROVE keys[n] = keys[n - 1]
  <2>1. T(n) = T(n - 1)
    <3>1. CASE ~Live(b, n)
      BY <3>1, OneRow
    <3>2. CASE Live(b, n)
      <4>1. AfterRows(b)[n] = CommitRow(AfterRows(b)[n - 1], Entity(b), Records(b)[n], Rows(b)[n], b)
        BY <3>2, OneRow
      <4> QED
        BY <1>5, <3>2, <4>1 DEF CommitRow, CommitStore
    <3> QED
      BY <3>1, <3>2
  <2> HIDE DEF T
  <2> QED
    BY <1>1, <2>1
<1>6. ASSUME NEW n \in 1..N, Live(b, n) /\ Rows(b)[n].action # "UPDATE"
      PROVE  \E e : T(n) = Append(T(n - 1), e) /\ e = Records(b)[n].store
  <2> DEFINE c == AfterRows(b)[n - 1]
  <2>1. IsCatalog(c) /\ AfterRows(b)[n] = CommitRow(c, Entity(b), Records(b)[n], Rows(b)[n], b)
    BY <1>6, OneRow
  <2>2. AfterRows(b)[n] = [c EXCEPT !.stores = Append(@, Records(b)[n].store)]
    BY <1>6, <2>1, Zenon DEF CommitRow, CommitStore
  <2>3. "stores" \in DOMAIN c
    BY <2>1 DEF IsCatalog, Tables
  <2> HIDE DEF c
  <2>4. AfterRows(b)[n].stores = Append(c.stores, Records(b)[n].store)
    BY <2>2, <2>3
  <2> QED
    BY <2>4 DEF c
<1>7. ASSUME NEW n \in 1..N, Live(b, n) /\ Rows(b)[n].action # "UPDATE", NEW i \in DOMAIN T(0) PROVE T(0)[i] # Records(b)[n].store
  <2> DEFINE r == Records(b)[n]
  <2>1. r.wellFormed /\ SameMatch(Rows(b)[n], Match(catalog, "STORE", r))
    BY <1>7 DEF Foreseen
  <2>2. Match(catalog, "STORE", r) = MatchStore(catalog, r)
    BY <2>1 DEF Match
  <2>3. StoreIds(catalog, r) = {}
    BY <1>7, <2>1, <2>2, ValidStoreIs DEF SameMatch
  <2> QED
    BY <1>2, <1>7, <2>3 DEF StoreIds
<1>8. ASSUME NEW m \in 1..N, NEW n \in 1..N, m < n, Live(b, n) PROVE Records(b)[m].store # Records(b)[n].store
  <2>1. Identities("STORE", Records(b)[m]) \cap Identities("STORE", Records(b)[n]) = {}
    BY <1>8 DEF Foreseen
  <2> QED
    BY <2>1 DEF Identities
<1>9. \A n \in 0..N : DOMAIN keys[n] = DOMAIN T(n) /\ \A i \in DOMAIN T(n) : keys[n][i] = T(n)[i]
  OBVIOUS
<1>10. \A n \in 1..N : (n \in live <=> Live(b, n) /\ Rows(b)[n].action # "UPDATE") /\ at[n] = Len(T(n - 1)) + 1 /\ key[n] = Records(b)[n].store
  OBVIOUS
<1> HIDE DEF T, N, keys, key, at, live
<1>11. ASSUME NEW n \in 1..N, n \in live PROVE Brings(keys[0], keys[n - 1], keys[n], at[n], key[n], {})
  <2> DEFINE s == T(n - 1)
  <2>1. PICK e : T(n) = Append(s, e) /\ e = Records(b)[n].store
    BY <1>6, <1>10, <1>11
  <2>2. s \in Seq(Range(s))
    BY <1>3
  <2> HIDE DEF s
  <2>3. /\ DOMAIN T(n) = 1..(Len(s) + 1) /\ DOMAIN s = 1..Len(s) /\ Len(s) \in Nat
        /\ T(n)[Len(s) + 1] = e /\ \A i \in DOMAIN s : T(n)[i] = s[i] /\ i \in DOMAIN T(n)
    BY <2>1, <2>2, Longer
  <2>4. DOMAIN keys[n - 1] = DOMAIN s /\ DOMAIN keys[n] = DOMAIN Append(s, e)
    BY <1>1, <1>9, <2>1 DEF s
  <2>5. \A i \in DOMAIN s : keys[n][i] = keys[n - 1][i]
    BY <1>1, <1>9, <2>3 DEF s
  <2>6. keys[n][Len(s) + 1] = key[n]
    <3>1. Len(s) + 1 \in DOMAIN T(n)
      BY <2>3
    <3> QED
      BY <1>1, <1>9, <1>10, <2>1, <2>3, <3>1
  <2>7. key[n] \notin {} => \A i \in DOMAIN keys[0] : keys[0][i] # key[n]
    BY <1>1, <1>7, <1>9, <1>10, <1>11
  <2>8. at[n] = Len(s) + 1
    BY <1>10 DEF s
  <2> QED
    BY <2>2, <2>4, <2>5, <2>6, <2>7, <2>8, AppendBrings
<1>12. Apart(keys[N], {})
  <2>1. \A n \in 1..N : n \notin live => keys[n] = keys[n - 1]
    BY <1>5, <1>10
  <2>2. \A m, n \in 1..N : m < n /\ m \in live /\ n \in live /\ key[m] = key[n] => key[n] \in {}
    BY <1>8, <1>10
  <2> QED
    BY <1>1, <1>4, <1>11, <2>1, <2>2, KeysStayApart
<1> QED
  BY <1>1, <1>2, <1>9, <1>12 DEF Apart

LEMMA SpecificationsApart ==
    ASSUME NEW b, Foreseen(b), Entity(b) = "PRODUCT_SPECIFICATION", ~Blind(b)
    PROVE  \A i, j \in DOMAIN Result(b).specs :
              Result(b).specs[i].product = Result(b).specs[j].product /\ Result(b).specs[i].key = Result(b).specs[j].key => i = j
<1> DEFINE N == Len(Rows(b))
           T(n) == AfterRows(b)[n].specs
           live == {n \in 1..N : Live(b, n)}
           keys == [n \in 0..N |-> [i \in DOMAIN T(n) |-> <<T(n)[i].product, T(n)[i].key>>]]
           key == [n \in 1..N |-> <<Rows(b)[n].product, Records(b)[n].key>>]
           at == [n \in 1..N |-> Len(T(n - 1)) + 1]
<1>1. N \in Nat /\ (\A n \in 1..N : n - 1 \in 0..N /\ n \in 0..N) /\ 0 \in 0..N /\ N \in 0..N
  BY DEF Foreseen
<1>2. T(0) = catalog.specs /\ T(N) = Result(b).specs
  BY <1>1, AfterRowsFollow DEF Result
<1>3. \A n \in 1..N : T(n - 1) \in Seq(Range(T(n - 1)))
  <2>1. \A n \in 1..N : IsCatalog(AfterRows(b)[n - 1])
    BY OneRow
  <2> QED
    BY <2>1 DEF IsCatalog, Tables
<1>4. Apart(keys[0], {})
  BY <1>1, <1>2 DEF Foreseen, Consistent, Apart
<1>5. ASSUME NEW n \in 1..N, ~(Live(b, n)) PROVE keys[n] = keys[n - 1]
  <2>1. T(n) = T(n - 1)
    <3>1. CASE ~Live(b, n)
      BY <3>1, OneRow
    <3>2. CASE Live(b, n)
      BY <1>5, <3>2
    <3> QED
      BY <3>1, <3>2
  <2> HIDE DEF T
  <2> QED
    BY <1>1, <2>1
<1>6. ASSUME NEW n \in 1..N, Live(b, n)
      PROVE  \E e : T(n) = Append(T(n - 1), e) /\ e.product = Rows(b)[n].product /\ e.key = Records(b)[n].key
  <2> DEFINE c == AfterRows(b)[n - 1]
             e == [product |-> Rows(b)[n].product, key |-> Records(b)[n].key, value |-> Records(b)[n].value]
  <2>1. IsCatalog(c) /\ AfterRows(b)[n] = CommitRow(c, Entity(b), Records(b)[n], Rows(b)[n], b)
    BY <1>6, OneRow
  <2>2. AfterRows(b)[n] = [c EXCEPT !.specs = Append(@, e)]
    BY <2>1, Zenon DEF CommitRow
  <2>3. "specs" \in DOMAIN c
    BY <2>1 DEF IsCatalog, Tables
  <2>4. e.product = Rows(b)[n].product /\ e.key = Records(b)[n].key
    OBVIOUS
  <2> HIDE DEF c, e
  <2>5. AfterRows(b)[n].specs = Append(c.specs, e)
    BY <2>2, <2>3
  <2> QED
    BY <2>4, <2>5 DEF c
<1>7. ASSUME NEW n \in 1..N, Live(b, n), NEW i \in DOMAIN T(0)
      PROVE  <<T(0)[i].product, T(0)[i].key>> # <<Rows(b)[n].product, Records(b)[n].key>>
  <2> DEFINE r == Records(b)[n]
  <2>1. r.wellFormed /\ Rows(b)[n].validation = "VALID" /\ SameMatch(Rows(b)[n], Match(catalog, "PRODUCT_SPECIFICATION", r))
    BY <1>7 DEF Foreseen
  <2>2. Match(catalog, "PRODUCT_SPECIFICATION", r) = MatchSpecification(catalog, r)
    BY <2>1 DEF Match
  <2>3. \A s \in Range(catalog.specs) : ~(s.product = Rows(b)[n].product /\ s.key = r.key)
    BY <2>1, <2>2, ValidSpecificationIs DEF SameMatch
  <2>4. T(0)[i] \in Range(catalog.specs)
    BY <1>2, <1>7 DEF Range
  <2> QED
    BY <2>3, <2>4
<1>8. ASSUME NEW m \in 1..N, NEW n \in 1..N, m < n, Live(b, n)
      PROVE  <<Rows(b)[m].product, Records(b)[m].key>> # <<Rows(b)[n].product, Records(b)[n].key>>
  <2>1. Identities("PRODUCT_SPECIFICATION", Records(b)[m]) \cap Identities("PRODUCT_SPECIFICATION", Records(b)[n]) = {}
    BY <1>8 DEF Foreseen
  <2>2. Records(b)[m].key = Records(b)[n].key => Records(b)[m].gtin # Records(b)[n].gtin
    BY <2>1 DEF Identities
  <2>3. m \in DOMAIN Rows(b) /\ n \in DOMAIN Rows(b) /\ m # n
    BY <1>8 DEF Foreseen
  <2> QED
    BY <2>2, <2>3 DEF Blind
<1>9. \A n \in 0..N : DOMAIN keys[n] = DOMAIN T(n) /\ \A i \in DOMAIN T(n) : keys[n][i] = <<T(n)[i].product, T(n)[i].key>>
  OBVIOUS
<1>10. \A n \in 1..N : (n \in live <=> Live(b, n)) /\ at[n] = Len(T(n - 1)) + 1 /\ key[n] = <<Rows(b)[n].product, Records(b)[n].key>>
  OBVIOUS
<1> HIDE DEF T, N, keys, key, at, live
<1>11. ASSUME NEW n \in 1..N, n \in live PROVE Brings(keys[0], keys[n - 1], keys[n], at[n], key[n], {})
  <2> DEFINE s == T(n - 1)
  <2>1. PICK e : T(n) = Append(s, e) /\ e.product = Rows(b)[n].product /\ e.key = Records(b)[n].key
    BY <1>6, <1>10, <1>11
  <2>2. s \in Seq(Range(s))
    BY <1>3
  <2> HIDE DEF s
  <2>3. /\ DOMAIN T(n) = 1..(Len(s) + 1) /\ DOMAIN s = 1..Len(s) /\ Len(s) \in Nat
        /\ T(n)[Len(s) + 1] = e /\ \A i \in DOMAIN s : T(n)[i] = s[i] /\ i \in DOMAIN T(n)
    BY <2>1, <2>2, Longer
  <2>4. DOMAIN keys[n - 1] = DOMAIN s /\ DOMAIN keys[n] = DOMAIN Append(s, e)
    BY <1>1, <1>9, <2>1 DEF s
  <2>5. \A i \in DOMAIN s : keys[n][i] = keys[n - 1][i]
    BY <1>1, <1>9, <2>3 DEF s
  <2>6. keys[n][Len(s) + 1] = key[n]
    <3>1. Len(s) + 1 \in DOMAIN T(n)
      BY <2>3
    <3> QED
      BY <1>1, <1>9, <1>10, <2>1, <2>3, <3>1
  <2>7. key[n] \notin {} => \A i \in DOMAIN keys[0] : keys[0][i] # key[n]
    BY <1>1, <1>7, <1>9, <1>10, <1>11
  <2>8. at[n] = Len(s) + 1
    BY <1>10 DEF s
  <2> QED
    BY <2>2, <2>4, <2>5, <2>6, <2>7, <2>8, AppendBrings
<1>12. Apart(keys[N], {})
  <2>1. \A n \in 1..N : n \notin live => keys[n] = keys[n - 1]
    BY <1>5, <1>10
  <2>2. \A m, n \in 1..N : m < n /\ m \in live /\ n \in live /\ key[m] = key[n] => key[n] \in {}
    BY <1>8, <1>10
  <2> QED
    BY <1>1, <1>4, <1>11, <2>1, <2>2, KeysStayApart
<1> QED
  BY <1>1, <1>2, <1>9, <1>12 DEF Apart

(* The key of an image is its product if it is the approved primary one.    *)
ImageKey(image) == IF image.primary /\ image.approved THEN <<image.product>> ELSE <<>>

LEMMA ImageKeyIs ==
    ASSUME NEW x, NEW y, ImageKey(x) = ImageKey(y), ImageKey(x) # <<>>
    PROVE  x.primary /\ x.approved /\ y.primary /\ y.approved /\ x.product = y.product
<1>1. x.primary /\ x.approved /\ y.primary /\ y.approved
  BY DEF ImageKey
<1>2. <<x.product>> = <<y.product>>
  BY <1>1, Zenon DEF ImageKey
<1>3. \A p, q : <<p>> = <<q>> => p = q
  OBVIOUS
<1> QED
  BY <1>1, <1>2, <1>3

LEMMA ImageKeyOf ==
    ASSUME NEW x, x.primary, x.approved
    PROVE  ImageKey(x) = <<x.product>> /\ ImageKey(x) # <<>>
<1>1. ImageKey(x) = <<x.product>>
  BY Zenon DEF ImageKey
<1> QED
  BY <1>1

LEMMA ImagesApart ==
    ASSUME NEW b, Foreseen(b), Entity(b) = "PRODUCT_IMAGE_METADATA", ~Blind(b)
    PROVE  \A i, j \in {l \in DOMAIN Result(b).images : Result(b).images[l].primary /\ Result(b).images[l].approved} :
              Result(b).images[i].product = Result(b).images[j].product => i = j
<1> DEFINE N == Len(Rows(b))
           T(n) == AfterRows(b)[n].images
           live == {n \in 1..N : Live(b, n)}
           keys == [n \in 0..N |-> [i \in DOMAIN T(n) |-> ImageKey(T(n)[i])]]
           img(n) == [product |-> Rows(b)[n].product, primary |-> Records(b)[n].primary, approved |-> Records(b)[n].approved]
           key == [n \in 1..N |-> ImageKey(img(n))]
           at == [n \in 1..N |-> Len(T(n - 1)) + 1]
<1>1. N \in Nat /\ (\A n \in 1..N : n - 1 \in 0..N /\ n \in 0..N) /\ 0 \in 0..N /\ N \in 0..N
  BY DEF Foreseen
<1>2. T(0) = catalog.images /\ T(N) = Result(b).images
  BY <1>1, AfterRowsFollow DEF Result
<1>3. \A n \in 1..N : T(n - 1) \in Seq(Range(T(n - 1)))
  <2>1. \A n \in 1..N : IsCatalog(AfterRows(b)[n - 1])
    BY OneRow
  <2> QED
    BY <2>1 DEF IsCatalog, Tables
<1>4. Apart(keys[0], {<<>>})
  <2>1. \A i \in DOMAIN T(0) : keys[0][i] = ImageKey(T(0)[i])
    BY <1>1
  <2>2. DOMAIN keys[0] = DOMAIN catalog.images
    BY <1>1, <1>2
  <2> HIDE DEF keys, T
  <2> SUFFICES ASSUME NEW i \in DOMAIN catalog.images, NEW j \in DOMAIN catalog.images,
                      keys[0][i] = keys[0][j], keys[0][i] \notin {<<>>}
               PROVE  i = j
    BY <2>2 DEF Apart
  <2>3. ImageKey(catalog.images[i]) = ImageKey(catalog.images[j]) /\ ImageKey(catalog.images[i]) # <<>>
    BY <1>2, <2>1
  <2>4. /\ catalog.images[i].primary /\ catalog.images[i].approved
        /\ catalog.images[j].primary /\ catalog.images[j].approved
        /\ catalog.images[i].product = catalog.images[j].product
    BY <2>3, ImageKeyIs
  <2> QED
    BY <2>4 DEF Foreseen, Consistent
<1>5. ASSUME NEW n \in 1..N, ~(Live(b, n)) PROVE keys[n] = keys[n - 1]
  <2>1. T(n) = T(n - 1)
    <3>1. CASE ~Live(b, n)
      BY <3>1, OneRow
    <3>2. CASE Live(b, n)
      BY <1>5, <3>2
    <3> QED
      BY <3>1, <3>2
  <2> HIDE DEF T
  <2> QED
    BY <1>1, <2>1
<1>6. ASSUME NEW n \in 1..N, Live(b, n)
      PROVE  \E e : /\ T(n) = Append(T(n - 1), e)
                    /\ e.product = Rows(b)[n].product /\ e.primary = Records(b)[n].primary /\ e.approved = Records(b)[n].approved
  <2> DEFINE c == AfterRows(b)[n - 1]
             e == [product |-> Rows(b)[n].product, sum |-> Records(b)[n].sum,
                   primary |-> Records(b)[n].primary, approved |-> Records(b)[n].approved]
  <2>1. IsCatalog(c) /\ AfterRows(b)[n] = CommitRow(c, Entity(b), Records(b)[n], Rows(b)[n], b)
    BY <1>6, OneRow
  <2>2. AfterRows(b)[n] = [c EXCEPT !.images = Append(@, e)]
    BY <2>1, Zenon DEF CommitRow
  <2>3. "images" \in DOMAIN c
    BY <2>1 DEF IsCatalog, Tables
  <2>4. e.product = Rows(b)[n].product /\ e.primary = Records(b)[n].primary /\ e.approved = Records(b)[n].approved
    OBVIOUS
  <2> HIDE DEF c, e
  <2>5. AfterRows(b)[n].images = Append(c.images, e)
    BY <2>2, <2>3
  <2> QED
    BY <2>4, <2>5 DEF c
<1>7. ASSUME NEW n \in 1..N, Live(b, n), Records(b)[n].primary, Records(b)[n].approved,
             NEW i \in DOMAIN T(0), T(0)[i].primary, T(0)[i].approved
      PROVE  T(0)[i].product # Rows(b)[n].product
  <2> DEFINE r == Records(b)[n]
  <2>1. r.wellFormed /\ Rows(b)[n].validation = "VALID" /\ SameMatch(Rows(b)[n], Match(catalog, "PRODUCT_IMAGE_METADATA", r))
    BY <1>7 DEF Foreseen
  <2>2. Match(catalog, "PRODUCT_IMAGE_METADATA", r) = MatchImage(catalog, r)
    BY <2>1 DEF Match
  <2>3. \A s \in Range(catalog.images) : ~(s.product = Rows(b)[n].product /\ s.primary /\ s.approved)
    BY <1>7, <2>1, <2>2, ValidImageIs DEF SameMatch
  <2>4. T(0)[i] \in Range(catalog.images)
    BY <1>2, <1>7 DEF Range
  <2> QED
    BY <1>7, <2>3, <2>4
<1>8. ASSUME NEW m \in 1..N, NEW n \in 1..N, m < n, Rows(b)[m].product = Rows(b)[n].product,
             \A l \in {m, n} : Records(b)[l].primary /\ Records(b)[l].approved
      PROVE  FALSE
  <2>1. m \in DOMAIN Rows(b) /\ n \in DOMAIN Rows(b) /\ m # n
    BY <1>8 DEF Foreseen
  <2> QED
    BY <1>8, <2>1 DEF Blind
<1>9. \A n \in 0..N : DOMAIN keys[n] = DOMAIN T(n) /\ \A i \in DOMAIN T(n) : keys[n][i] = ImageKey(T(n)[i])
  OBVIOUS
<1>10. \A n \in 1..N : (n \in live <=> Live(b, n)) /\ at[n] = Len(T(n - 1)) + 1 /\ key[n] = ImageKey(img(n))
  OBVIOUS
<1>13. \A n : img(n).product = Rows(b)[n].product /\ img(n).primary = Records(b)[n].primary /\ img(n).approved = Records(b)[n].approved
  OBVIOUS
<1> HIDE DEF T, N, keys, key, at, live, img
<1>11. ASSUME NEW n \in 1..N, n \in live PROVE Brings(keys[0], keys[n - 1], keys[n], at[n], key[n], {<<>>})
  <2> DEFINE s == T(n - 1)
  <2>1. PICK e : T(n) = Append(s, e) /\ e.product = Rows(b)[n].product /\ e.primary = Records(b)[n].primary /\ e.approved = Records(b)[n].approved
    BY <1>6, <1>10, <1>11
  <2>2. s \in Seq(Range(s))
    BY <1>3
  <2> HIDE DEF s
  <2>3. /\ DOMAIN T(n) = 1..(Len(s) + 1) /\ DOMAIN s = 1..Len(s) /\ Len(s) \in Nat
        /\ T(n)[Len(s) + 1] = e /\ \A i \in DOMAIN s : T(n)[i] = s[i] /\ i \in DOMAIN T(n)
    BY <2>1, <2>2, Longer
  <2>4. DOMAIN keys[n - 1] = DOMAIN s /\ DOMAIN keys[n] = DOMAIN Append(s, e)
    BY <1>1, <1>9, <2>1 DEF s
  <2>5. \A i \in DOMAIN s : keys[n][i] = keys[n - 1][i]
    BY <1>1, <1>9, <2>3 DEF s
  <2>6. keys[n][Len(s) + 1] = key[n]
    <3>1. Len(s) + 1 \in DOMAIN T(n)
      BY <2>3
    <3>2. keys[n][Len(s) + 1] = ImageKey(e) /\ key[n] = ImageKey(img(n))
      BY <1>1, <1>9, <1>10, <2>3, <3>1
    <3>3. e.product = img(n).product /\ e.primary = img(n).primary /\ e.approved = img(n).approved
      BY <1>13, <2>1
    <3>4. ImageKey(e) = ImageKey(img(n))
      BY <3>3, Zenon DEF ImageKey
    <3> QED
      BY <3>2, <3>4
  <2>7. key[n] \notin {<<>>} => \A i \in DOMAIN keys[0] : keys[0][i] # key[n]
    <3> SUFFICES ASSUME key[n] \notin {<<>>}, NEW i \in DOMAIN keys[0], keys[0][i] = key[n] PROVE FALSE
      OBVIOUS
    <3>1. i \in DOMAIN T(0) /\ keys[0][i] = ImageKey(T(0)[i])
      BY <1>1, <1>9
    <3>2. Live(b, n) /\ key[n] = ImageKey(img(n))
      BY <1>10, <1>11
    <3>3. ImageKey(T(0)[i]) = ImageKey(img(n)) /\ ImageKey(T(0)[i]) # <<>>
      BY <3>1, <3>2
    <3>4. /\ T(0)[i].primary /\ T(0)[i].approved /\ img(n).primary /\ img(n).approved
          /\ T(0)[i].product = img(n).product
      BY <3>3, ImageKeyIs
    <3> QED
      BY <1>7, <1>13, <3>1, <3>2, <3>4
  <2>8. at[n] = Len(s) + 1
    BY <1>10 DEF s
  <2> QED
    BY <2>2, <2>4, <2>5, <2>6, <2>7, <2>8, AppendBrings
<1>12. Apart(keys[N], {<<>>})
  <2>1. \A n \in 1..N : n \notin live => keys[n] = keys[n - 1]
    BY <1>5, <1>10
  <2>2. \A m, n \in 1..N : m < n /\ m \in live /\ n \in live /\ key[m] = key[n] => key[n] \in {<<>>}
    <3> SUFFICES ASSUME NEW m \in 1..N, NEW n \in 1..N, m < n, key[m] = key[n], key[m] \notin {<<>>} PROVE FALSE
      OBVIOUS
    <3>1. ImageKey(img(m)) = ImageKey(img(n)) /\ ImageKey(img(m)) # <<>>
      BY <1>10
    <3>2. img(m).primary /\ img(m).approved /\ img(n).primary /\ img(n).approved /\ img(m).product = img(n).product
      BY <3>1, ImageKeyIs
    <3> QED
      BY <1>8, <1>13, <3>2
  <2> DEFINE free == {<<>>}
  <2>3. /\ Apart(keys[0], free)
        /\ \A n \in 1..N : n \in live => Brings(keys[0], keys[n - 1], keys[n], at[n], key[n], free)
        /\ \A m, n \in 1..N : m < n /\ m \in live /\ n \in live /\ key[m] = key[n] => key[n] \in free
    BY <1>4, <1>11, <2>2
  <2> HIDE DEF free
  <2>4. Apart(keys[N], free)
    BY <1>1, <2>1, <2>3, KeysStayApart
  <2> QED
    BY <2>4 DEF free
<1> SUFFICES ASSUME NEW i \in DOMAIN T(N), NEW j \in DOMAIN T(N), T(N)[i].primary, T(N)[i].approved,
                    T(N)[j].primary, T(N)[j].approved, T(N)[i].product = T(N)[j].product
             PROVE  i = j
  BY <1>2
<1>14. ImageKey(T(N)[i]) = <<T(N)[i].product>> /\ ImageKey(T(N)[j]) = <<T(N)[j].product>> /\ ImageKey(T(N)[i]) # <<>>
  BY ImageKeyOf
<1> QED
  BY <1>1, <1>9, <1>12, <1>14 DEF Apart

(* A row of a known offer changes the price history and that offer, which   *)
(* keeps its store and its sku.                                             *)
OnlyOfferChanges(cat, new, k) ==
    \E h, e : /\ new = [cat EXCEPT !.history = h, !.offers = [cat.offers EXCEPT ![k] = e]]
              /\ e.store = cat.offers[k].store /\ e.sku = cat.offers[k].sku

LEMMA OfferIsUpdated ==
    ASSUME NEW cat, NEW r, NEW row, NEW by, "offers" \in DOMAIN cat, "history" \in DOMAIN cat,
           row.offer # NoId, DOMAIN cat.offers[row.offer] = OfferColumns
    PROVE  OnlyOfferChanges(cat, CommitRow(cat, "STORE_OFFER", r, row, by), row.offer)
<1> DEFINE new == CommitRow(cat, "STORE_OFFER", r, row, by)
           k == row.offer
           old == cat.offers[k]
           e == IF Supersedes(r, old) THEN [old EXCEPT !.price = r.price, !.at = r.at] ELSE old
<1>1. \E h : new = [cat EXCEPT !.history = h, !.offers[k] = e]
  BY Zenon DEF CommitRow, CommitOffer
<1>2. PICK h : new = [cat EXCEPT !.history = h, !.offers[k] = e]
  BY <1>1
<1>6. e.store = old.store /\ e.sku = old.sku
  BY Zenon DEF OfferColumns
<1> SUFFICES new = [cat EXCEPT !.history = h, !.offers = [cat.offers EXCEPT ![k] = e]]
  BY <1>6, Zenon DEF OnlyOfferChanges
<1> HIDE DEF e, new
<1>3. [cat EXCEPT !.history = h].offers = cat.offers
  OBVIOUS
<1>4. new = [[cat EXCEPT !.history = h] EXCEPT !.offers = [[cat EXCEPT !.history = h].offers EXCEPT ![k] = e]]
  BY <1>2, Zenon
<1>5. new = [[cat EXCEPT !.history = h] EXCEPT !.offers = [cat.offers EXCEPT ![k] = e]]
  BY <1>3, <1>4, Zenon
<1> QED
  BY <1>5, Zenon

LEMMA OffersApart ==
    ASSUME NEW b, Foreseen(b), Entity(b) = "STORE_OFFER"
    PROVE  \A i, j \in DOMAIN Result(b).offers :
              Result(b).offers[i].store = Result(b).offers[j].store /\ Result(b).offers[i].sku = Result(b).offers[j].sku => i = j
<1> DEFINE N == Len(Rows(b))
           T(n) == AfterRows(b)[n].offers
           live == {n \in 1..N : Live(b, n) /\ Rows(b)[n].offer = NoId}
           keys == [n \in 0..N |-> [i \in DOMAIN T(n) |-> <<T(n)[i].store, T(n)[i].sku>>]]
           key == [n \in 1..N |-> <<TheId(StoreIds(catalog, Records(b)[n])), Records(b)[n].sku>>]
           at == [n \in 1..N |-> Len(T(n - 1)) + 1]
<1>1. N \in Nat /\ (\A n \in 1..N : n - 1 \in 0..N /\ n \in 0..N) /\ 0 \in 0..N /\ N \in 0..N
  BY DEF Foreseen
<1>2. T(0) = catalog.offers /\ T(N) = Result(b).offers
  BY <1>1, AfterRowsFollow DEF Result
<1>3. \A n \in 1..N : T(n - 1) \in Seq(Range(T(n - 1)))
  <2>1. \A n \in 1..N : IsCatalog(AfterRows(b)[n - 1])
    BY OneRow
  <2> QED
    BY <2>1 DEF IsCatalog, Tables
<1>4. Apart(keys[0], {})
  BY <1>1, <1>2 DEF Foreseen, Consistent, Apart
<1>5. ASSUME NEW n \in 1..N, ~(Live(b, n) /\ Rows(b)[n].offer = NoId) PROVE keys[n] = keys[n - 1]
  <2>1. DOMAIN T(n) = DOMAIN T(n - 1) /\ \A i \in DOMAIN T(n) : T(n)[i].store = T(n - 1)[i].store /\ T(n)[i].sku = T(n - 1)[i].sku
    <3>1. CASE ~Live(b, n)
      BY <3>1, OneRow
    <3>2. CASE Live(b, n)
      <4> DEFINE c == AfterRows(b)[n - 1]
                 o == Rows(b)[n].offer
      <4>1. IsCatalog(c) /\ Matched(c, Rows(b)[n]) /\ AfterRows(b)[n] = CommitRow(c, "STORE_OFFER", Records(b)[n], Rows(b)[n], b)
        BY <3>2, OneRow
      <4>2. o # NoId /\ o \in DOMAIN c.offers /\ "offers" \in DOMAIN c /\ "history" \in DOMAIN c /\ c.offers \in Seq(Range(c.offers))
        BY <1>5, <3>2, <4>1 DEF Matched, IsCatalog, Tables
      <4>3. DOMAIN c.offers[o] = OfferColumns
        BY <4>1, <4>2 DEF IsCatalog
      <4> HIDE DEF c
      <4>4. OnlyOfferChanges(c, AfterRows(b)[n], o)
        BY <4>1, <4>2, <4>3, OfferIsUpdated
      <4>5. PICK h, e : /\ AfterRows(b)[n] = [c EXCEPT !.history = h, !.offers = [c.offers EXCEPT ![o] = e]]
                        /\ e.store = c.offers[o].store /\ e.sku = c.offers[o].sku
        BY <4>4, Zenon DEF OnlyOfferChanges
      <4>6. AfterRows(b)[n].offers = [c.offers EXCEPT ![o] = e]
        <5> HIDE DEF o
        <5> DEFINE new == [c.offers EXCEPT ![o] = e]
        <5>1. AfterRows(b)[n] = [c EXCEPT !.history = h, !.offers = new]
          BY <4>5
        <5> HIDE DEF new
        <5>2. AfterRows(b)[n].offers = new
          BY <4>2, <5>1
        <5> QED
          BY <5>2 DEF new
      <4>7. /\ DOMAIN AfterRows(b)[n].offers = DOMAIN c.offers
            /\ \A i \in DOMAIN c.offers : AfterRows(b)[n].offers[i] = IF i = o THEN e ELSE c.offers[i]
        BY <4>2, <4>6, Changed
      <4>8. T(n - 1) = c.offers
        BY DEF c
      <4> QED
        BY <4>5, <4>7, <4>8
    <3> QED
      BY <3>1, <3>2
  <2> HIDE DEF T
  <2>2. keys[n] = [i \in DOMAIN T(n) |-> <<T(n)[i].store, T(n)[i].sku>>] /\ keys[n - 1] = [i \in DOMAIN T(n - 1) |-> <<T(n - 1)[i].store, T(n - 1)[i].sku>>]
    BY <1>1
  <2> HIDE DEF keys
  <2> QED
    BY <2>1, <2>2
<1>6. ASSUME NEW n \in 1..N, Live(b, n), Rows(b)[n].offer = NoId
      PROVE  \E e : T(n) = Append(T(n - 1), e) /\ e.store = TheId(StoreIds(catalog, Records(b)[n])) /\ e.sku = Records(b)[n].sku
  <2> DEFINE c == AfterRows(b)[n - 1]
             r == Records(b)[n]
             e == [product |-> Rows(b)[n].product, store |-> TheId(StoreIds(c, r)), sku |-> r.sku, price |-> r.price, at |-> r.at]
  <2>1. IsCatalog(c) /\ AfterRows(b)[n] = CommitRow(c, Entity(b), r, Rows(b)[n], b)
    BY <1>6, OneRow
  <2>2. AfterRows(b)[n] = [c EXCEPT !.offers = Append(@, e)]
    BY <1>6, <2>1, Zenon DEF CommitRow, CommitOffer
  <2>3. "offers" \in DOMAIN c
    BY <2>1 DEF IsCatalog, Tables
  <2>4. e.store = TheId(StoreIds(c, r)) /\ e.sku = r.sku
    OBVIOUS
  <2>5. c.stores = catalog.stores
    BY <1>1, OtherTablesStay
  <2>6. StoreIds(c, r) = StoreIds(catalog, r)
    BY <2>5 DEF StoreIds
  <2> HIDE DEF c, e, r
  <2>7. AfterRows(b)[n].offers = Append(c.offers, e)
    BY <2>2, <2>3
  <2> QED
    BY <2>4, <2>6, <2>7 DEF c, r
<1>7. ASSUME NEW n \in 1..N, Live(b, n), Rows(b)[n].offer = NoId, NEW i \in DOMAIN T(0)
      PROVE  <<T(0)[i].store, T(0)[i].sku>> # <<TheId(StoreIds(catalog, Records(b)[n])), Records(b)[n].sku>>
  <2> DEFINE r == Records(b)[n]
  <2>1. IsCatalog(catalog) /\ r.wellFormed /\ Rows(b)[n].validation = "VALID" /\ SameMatch(Rows(b)[n], Match(catalog, "STORE_OFFER", r))
    BY <1>7 DEF Foreseen
  <2>2. Match(catalog, "STORE_OFFER", r) = MatchOffer(catalog, r)
    BY <2>1 DEF Match
  <2>3. OfferIds(catalog, r) = {}
    BY <1>7, <2>1, <2>2, ValidOfferIs DEF SameMatch
  <2>4. TheId(StoreIds(catalog, r)) \in StoreIds(catalog, r)
    <3>1. StoreIds(catalog, r) # {}
      BY <1>7, <2>1 DEF Foreseen, RowHolds
    <3> QED
      BY <3>1 DEF TheId
  <2> QED
    BY <1>2, <1>7, <2>3, <2>4 DEF OfferIds
<1>8. ASSUME NEW m \in 1..N, NEW n \in 1..N, m < n, Live(b, m), Live(b, n)
      PROVE  <<TheId(StoreIds(catalog, Records(b)[m])), Records(b)[m].sku>> # <<TheId(StoreIds(catalog, Records(b)[n])), Records(b)[n].sku>>
  <2>1. Identities("STORE_OFFER", Records(b)[m]) \cap Identities("STORE_OFFER", Records(b)[n]) = {}
    BY <1>8 DEF Foreseen
  <2>2. Records(b)[m].store # Records(b)[n].store \/ Records(b)[m].sku # Records(b)[n].sku
    BY <2>1 DEF Identities
  <2>3. \A l \in {m, n} : TheId(StoreIds(catalog, Records(b)[l])) \in StoreIds(catalog, Records(b)[l])
    <3>1. \A l \in {m, n} : StoreIds(catalog, Records(b)[l]) # {}
      BY <1>8 DEF Foreseen, RowHolds
    <3> QED
      BY <3>1 DEF TheId
  <2>4. \A l \in {m, n} : catalog.stores[TheId(StoreIds(catalog, Records(b)[l]))] = Records(b)[l].store
    BY <2>3 DEF StoreIds
  <2> QED
    BY <2>2, <2>4
<1>9. \A n \in 0..N : DOMAIN keys[n] = DOMAIN T(n) /\ \A i \in DOMAIN T(n) : keys[n][i] = <<T(n)[i].store, T(n)[i].sku>>
  OBVIOUS
<1>10. \A n \in 1..N : (n \in live <=> Live(b, n) /\ Rows(b)[n].offer = NoId) /\ at[n] = Len(T(n - 1)) + 1 /\ key[n] = <<TheId(StoreIds(catalog, Records(b)[n])), Records(b)[n].sku>>
  OBVIOUS
<1> HIDE DEF T, N, keys, key, at, live
<1>11. ASSUME NEW n \in 1..N, n \in live PROVE Brings(keys[0], keys[n - 1], keys[n], at[n], key[n], {})
  <2> DEFINE s == T(n - 1)
  <2>1. PICK e : T(n) = Append(s, e) /\ e.store = TheId(StoreIds(catalog, Records(b)[n])) /\ e.sku = Records(b)[n].sku
    BY <1>6, <1>10, <1>11
  <2>2. s \in Seq(Range(s))
    BY <1>3
  <2> HIDE DEF s
  <2>3. /\ DOMAIN T(n) = 1..(Len(s) + 1) /\ DOMAIN s = 1..Len(s) /\ Len(s) \in Nat
        /\ T(n)[Len(s) + 1] = e /\ \A i \in DOMAIN s : T(n)[i] = s[i] /\ i \in DOMAIN T(n)
    BY <2>1, <2>2, Longer
  <2>4. DOMAIN keys[n - 1] = DOMAIN s /\ DOMAIN keys[n] = DOMAIN Append(s, e)
    BY <1>1, <1>9, <2>1 DEF s
  <2>5. \A i \in DOMAIN s : keys[n][i] = keys[n - 1][i]
    BY <1>1, <1>9, <2>3 DEF s
  <2>6. keys[n][Len(s) + 1] = key[n]
    <3>1. Len(s) + 1 \in DOMAIN T(n)
      BY <2>3
    <3> QED
      BY <1>1, <1>9, <1>10, <2>1, <2>3, <3>1
  <2>7. key[n] \notin {} => \A i \in DOMAIN keys[0] : keys[0][i] # key[n]
    BY <1>1, <1>7, <1>9, <1>10, <1>11
  <2>8. at[n] = Len(s) + 1
    BY <1>10 DEF s
  <2> QED
    BY <2>2, <2>4, <2>5, <2>6, <2>7, <2>8, AppendBrings
<1>12. Apart(keys[N], {})
  <2>1. \A n \in 1..N : n \notin live => keys[n] = keys[n - 1]
    BY <1>5, <1>10
  <2>2. \A m, n \in 1..N : m < n /\ m \in live /\ n \in live /\ key[m] = key[n] => key[n] \in {}
    BY <1>8, <1>10
  <2> QED
    BY <1>1, <1>4, <1>11, <2>1, <2>2, KeysStayApart
<1> QED
  BY <1>1, <1>2, <1>9, <1>12 DEF Apart

-----------------------------------------------------------------------------
(* Foreseen batches break no constraint.                                    *)
LEMMA ForeseenIsConsistent ==
    ASSUME NEW b, Foreseen(b), ~Blind(b), Entity(b) = "PRODUCT" => \A n \in 1..Len(Rows(b)) : Live(b, n) => Records(b)[n].part # NoPart
    PROVE  Consistent(Result(b))
<1>1. /\ Entity(b) # "PRODUCT" => Result(b).products = catalog.products
      /\ Entity(b) # "STORE" => Result(b).stores = catalog.stores
      /\ Entity(b) # "PRODUCT_SPECIFICATION" => Result(b).specs = catalog.specs
      /\ Entity(b) # "PRODUCT_IMAGE_METADATA" => Result(b).images = catalog.images
      /\ Entity(b) # "STORE_OFFER" => Result(b).offers = catalog.offers
  <2>1. Len(Rows(b)) \in 0..Len(Rows(b))
    BY DEF Foreseen
  <2> QED
    BY <2>1, OtherTablesStay DEF Result
<1> DEFINE c == Result(b)
<1> HIDE DEF c
<1>2. \A i, j \in DOMAIN c.products :
         LET p == c.products[i]
             o == c.products[j]
         IN  p.part = o.part \/ (p.gtin # NoGtin /\ p.gtin = o.gtin) => i = j
  <2>1. CASE Entity(b) = "PRODUCT"
    BY <2>1, ProductsApart DEF c
  <2>2. CASE Entity(b) # "PRODUCT"
    BY <1>1, <2>2 DEF Foreseen, Consistent, c
  <2> QED
    BY <2>1, <2>2
<1>3. \A i, j \in DOMAIN c.stores : c.stores[i] = c.stores[j] => i = j
  <2>1. CASE Entity(b) = "STORE"
    BY <2>1, StoresApart DEF c
  <2>2. CASE Entity(b) # "STORE"
    BY <1>1, <2>2 DEF Foreseen, Consistent, c
  <2> QED
    BY <2>1, <2>2
<1>4. \A i, j \in DOMAIN c.specs : c.specs[i].product = c.specs[j].product /\ c.specs[i].key = c.specs[j].key => i = j
  <2>1. CASE Entity(b) = "PRODUCT_SPECIFICATION"
    BY <2>1, SpecificationsApart DEF c
  <2>2. CASE Entity(b) # "PRODUCT_SPECIFICATION"
    BY <1>1, <2>2 DEF Foreseen, Consistent, c
  <2> QED
    BY <2>1, <2>2
<1>5. \A i, j \in DOMAIN c.offers : c.offers[i].store = c.offers[j].store /\ c.offers[i].sku = c.offers[j].sku => i = j
  <2>1. CASE Entity(b) = "STORE_OFFER"
    BY <2>1, OffersApart DEF c
  <2>2. CASE Entity(b) # "STORE_OFFER"
    BY <1>1, <2>2 DEF Foreseen, Consistent, c
  <2> QED
    BY <2>1, <2>2
<1>6. \A i, j \in {l \in DOMAIN c.images : c.images[l].primary /\ c.images[l].approved} :
         c.images[i].product = c.images[j].product => i = j
  <2>1. CASE Entity(b) = "PRODUCT_IMAGE_METADATA"
    BY <2>1, ImagesApart DEF c
  <2>2. CASE Entity(b) # "PRODUCT_IMAGE_METADATA"
    BY <1>1, <2>2 DEF Foreseen, Consistent, c
  <2> QED
    BY <2>1, <2>2
<1> QED
  BY <1>2, <1>3, <1>4, <1>5, <1>6 DEF Consistent, c

(* The invariant about what was matched is kept.                            *)
THEOREM MatchesHold == Spec => []MatchedInv
<1>1. Init => MatchedInv
  BY MatchedInit
<1>2. BatchInv /\ HistoryInv /\ MatchedInv /\ [Next]_vars => MatchedInv'
  BY StepKinds, MatchedQuiet, MatchedStage, MatchedApply DEF HistoryInv
<1> QED
  BY <1>1, <1>2, BatchesKeep, HistoriesKeep, PTL DEF Spec

(* Staging foresees the constraints: a batch that passed the check of       *)
(* commit_batch breaks none, unless one was applied since its matching      *)
(* began or its file has a conflict of the two kinds that the marks miss.   *)
THEOREM StagingForeseesConstraints == Spec => []CheckedCommits
<1>1. BatchInv /\ MatchedInv => CheckedCommits
  <2> SUFFICES ASSUME BatchInv, MatchedInv, NEW q \in Requests, NEW b \in commit[q].of,
                      commit[q].at = "checked", applied = batch[b].knew, ~Blind(b)
               PROVE  Consistent(Result(b))
    BY DEF CheckedCommits
  <2>1. b \in Batches
    BY DEF BatchInv, TypeInv, CommitRecord
  <2>2. batch[b] \in BatchRecord /\ IsCatalog(catalog)
    BY <2>1 DEF BatchInv, TypeInv
  <2>3. batch[b].file \in Files /\ Rows(b) \in Seq(StagedRow)
    BY <2>2, RecordFields DEF Rows
  <2>4. /\ Entity(b) \in Entities /\ Len(Rows(b)) \in Nat /\ DOMAIN Rows(b) = 1..Len(Rows(b))
        /\ Len(Records(b)) \in Nat /\ DOMAIN Records(b) = 1..Len(Records(b)) /\ Len(Rows(b)) <= Len(Records(b))
    BY <2>1, <2>3, FileIs DEF Entity, Records, BatchInv, RowsInv, RowsHold, Rows
  <2>5. \A n \in 0..Len(Rows(b)) : Grows(catalog, AfterRows(b)[n])
    BY <2>1, ResultGrows DEF BatchInv
  <2>6. \A n \in 1..Len(Rows(b)) : RowHolds(catalog, Entity(b), Records(b)[n], Rows(b)[n])
    BY <2>1, <2>4 DEF BatchInv, RowsInv, RowsHold, Entity, Records, Rows
  <2>7. LookedAt(batch[b])
    BY DEF BatchInv, CommitInv, Open
  <2>8. \A n \in 1..Len(Rows(b)) : Live(b, n) => Rows(b)[n].validation = "VALID"
    BY <2>4, <2>7 DEF LookedAt, Live, Rows
  <2>9. \A n \in 1..Len(Rows(b)) : Live(b, n) =>
           Records(b)[n].wellFormed /\ SameMatch(Rows(b)[n], Match(catalog, Entity(b), Records(b)[n]))
    BY <2>1, <2>4, <2>6, <2>8 DEF MatchedInv, RowHolds
  <2>10. \A m, n \in 1..Len(Rows(b)) : m < n /\ Live(b, n) =>
            Identities(Entity(b), Records(b)[m]) \cap Identities(Entity(b), Records(b)[n]) = {}
    BY <2>1, <2>4, <2>8 DEF MatchedInv
  <2>11. Foreseen(b)
    BY <2>2, <2>4, <2>5, <2>6, <2>8, <2>9, <2>10 DEF Foreseen, MatchedInv
  <2>12. Entity(b) = "PRODUCT" => \A n \in 1..Len(Rows(b)) : Live(b, n) => Records(b)[n].part # NoPart
    <3>1. \A n \in 1..Len(Rows(b)) : Records(b)[n] \in Range(Records(b))
      BY <2>4 DEF Range
    <3> QED
      BY <2>3, <2>9, <3>1, FilesAssumption DEF Entity, Records
  <2> QED
    BY <2>11, <2>12, ForeseenIsConsistent
<1> QED
  BY <1>1, BatchesKeep, MatchesHold, PTL
=============================================================================
