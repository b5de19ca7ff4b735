------------------------- MODULE ShoppingCartsProofs -------------------------
(***************************************************************************)
(* Theorems about ShoppingCarts, for every finite set of requests, every   *)
(* product and quantity, either store and any number of failing calls.     *)
(***************************************************************************)
EXTENDS ShoppingCarts, FiniteSetTheorems, SequenceTheorems, TLAPS

-----------------------------------------------------------------------------
(* Sums, as the cardinality of the set of units.                            *)

LEMMA UnitsOf ==
  ASSUME NEW f, NEW x, f[x] \in Nat
  PROVE  IsFiniteSet({x} \X (1 .. f[x])) /\ Cardinality({x} \X (1 .. f[x])) = f[x]
  <1>1. IsFiniteSet(1 .. f[x]) /\ Cardinality(1 .. f[x]) = f[x]
    <2>1. PICK n \in Nat : n = f[x]
      OBVIOUS
    <2>2. IsFiniteSet(1 .. n) /\ Cardinality(1 .. n) = IF 1 > n THEN 0 ELSE n - 1 + 1
      BY FS_Interval
    <2> QED
      BY <2>1, <2>2
  <1>2. IsFiniteSet({x}) /\ Cardinality({x}) = 1
    BY FS_Singleton
  <1>3. /\ IsFiniteSet({x} \X (1 .. f[x]))
        /\ Cardinality({x} \X (1 .. f[x])) = Cardinality({x}) * Cardinality(1 .. f[x])
    BY <1>1, <1>2, FS_Product
  <1> QED
    BY <1>1, <1>2, <1>3

LEMMA UnitsFinite ==
  ASSUME NEW f, NEW S, IsFiniteSet(S), \A x \in S : f[x] \in Nat
  PROVE  IsFiniteSet(Units(f, S))
  <1> DEFINE g == [x \in S |-> {x} \X (1 .. f[x])]
             T == {{x} \X (1 .. f[x]) : x \in S}
  <1>1. g \in Surjection(S, T)
    BY DEF Surjection
  <1>2. IsFiniteSet(T)
    BY <1>1, FS_Surjection
  <1>3. \A X \in T : IsFiniteSet(X)
    BY UnitsOf
  <1> HIDE DEF T
  <1>4. IsFiniteSet(UNION T)
    BY <1>2, <1>3, FS_UNION
  <1> QED
    BY <1>4 DEF T, Units

LEMMA SumEmpty ==
  ASSUME NEW f
  PROVE  SumOver(f, {}) = 0
  <1>1. Units(f, {}) = {}
    BY DEF Units
  <1> QED
    BY <1>1, FS_EmptySet DEF SumOver

LEMMA SumOne ==
  ASSUME NEW f, NEW x, f[x] \in Nat
  PROVE  SumOver(f, {x}) = f[x]
  <1>1. Units(f, {x}) = {x} \X (1 .. f[x])
    BY DEF Units
  <1> QED
    BY <1>1, UnitsOf DEF SumOver

LEMMA SumType ==
  ASSUME NEW f, NEW S, IsFiniteSet(S), \A x \in S : f[x] \in Nat
  PROVE  SumOver(f, S) \in Nat
  BY UnitsFinite, FS_CardinalityType DEF SumOver

LEMMA SumSame ==
  ASSUME NEW f, NEW g, NEW S, \A x \in S : f[x] = g[x]
  PROVE  SumOver(f, S) = SumOver(g, S)
  <1>1. Units(f, S) = Units(g, S)
    BY DEF Units
  <1> QED
    BY <1>1 DEF SumOver

LEMMA SumSubset ==
  ASSUME NEW f, NEW T, IsFiniteSet(T), \A x \in T : f[x] \in Nat, NEW S \in SUBSET T
  PROVE  SumOver(f, S) <= SumOver(f, T)
  <1>1. Units(f, S) \in SUBSET Units(f, T) /\ IsFiniteSet(Units(f, T))
    BY UnitsFinite DEF Units
  <1> QED
    BY <1>1, FS_Subset DEF SumOver

LEMMA SumAdd ==
  ASSUME NEW f, NEW S, IsFiniteSet(S), NEW x, x \notin S, \A y \in S \cup {x} : f[y] \in Nat
  PROVE  SumOver(f, S \cup {x}) = SumOver(f, S) + f[x]
  <1> DEFINE U == Units(f, S)
             V == {x} \X (1 .. f[x])
  <1>1. Units(f, S \cup {x}) = U \cup V
    BY DEF Units
  <1>2. U \cap V = {}
    BY DEF Units
  <1>3. IsFiniteSet(U) /\ IsFiniteSet(V) /\ Cardinality(V) = f[x]
    BY UnitsFinite, UnitsOf
  <1> HIDE DEF U, V
  <1>4. Cardinality(U \cup V) = Cardinality(U) + Cardinality(V) - Cardinality(U \cap V)
    BY <1>3, FS_Union
  <1>5. Cardinality(U \cap V) = 0
    BY <1>2, FS_EmptySet
  <1>6. Cardinality(U) \in Nat /\ Cardinality(V) \in Nat
    BY <1>3, FS_CardinalityType
  <1>7. Cardinality(U \cup V) = Cardinality(U) + f[x]
    BY <1>3, <1>4, <1>5, <1>6
  <1> QED
    BY <1>1, <1>7 DEF SumOver, U

-----------------------------------------------------------------------------
(* The quantities of a cart's lines.                                        *)

Unique(lines) ==
    \A j, k \in DOMAIN lines : lines[j].product = lines[k].product => j = k

LinesOf(lines, p) == {j \in DOMAIN lines : lines[j].product = p}

LEMMA LinesFacts ==
  ASSUME NEW lines \in Seq(Line), NEW p
  PROVE  /\ DOMAIN lines = 1 .. Len(lines) /\ Len(lines) \in Nat
         /\ \A j \in DOMAIN lines : lines[j] \in Line /\ lines[j].quantity \in Nat
         /\ IsFiniteSet(LinesOf(lines, p))
  <1>1. DOMAIN lines = 1 .. Len(lines) /\ Len(lines) \in Nat
    OBVIOUS
  <1>2. IsFiniteSet(DOMAIN lines)
    BY <1>1, FS_Interval
  <1>3. LinesOf(lines, p) \in SUBSET DOMAIN lines
    BY DEF LinesOf
  <1>4. IsFiniteSet(LinesOf(lines, p))
    BY <1>2, <1>3, FS_Subset
  <1>5. \A j \in DOMAIN lines : lines[j] \in Line
    BY <1>1
  <1>6. \A line \in Line : line.quantity \in Nat
    BY DEF Line
  <1> QED
    BY <1>1, <1>4, <1>5, <1>6

LEMMA QuantityType ==
  ASSUME NEW lines \in Seq(Line), NEW p
  PROVE  QuantityOf(lines, p) \in Nat
  <1> DEFINE f == [j \in DOMAIN lines |-> lines[j].quantity]
             S == LinesOf(lines, p)
  <1>1. IsFiniteSet(S) /\ \A j \in S : f[j] \in Nat
    BY LinesFacts DEF LinesOf
  <1>2. QuantityOf(lines, p) = SumOver(f, S)
    BY DEF QuantityOf, LinesOf
  <1> HIDE DEF f, S
  <1> QED
    BY <1>1, <1>2, SumType

LEMMA QuantityEmpty ==
  ASSUME NEW p
  PROVE  QuantityOf(<<>>, p) = 0
  <1>1. {j \in DOMAIN <<>> : <<>>[j].product = p} = {}
    OBVIOUS
  <1> QED
    BY <1>1, SumEmpty DEF QuantityOf

\* A new line counts for its product.
LEMMA QuantityAppend ==
  ASSUME NEW lines \in Seq(Line), NEW p \in Products, NEW q \in Nat, NEW r
  PROVE  /\ Append(lines, [product |-> p, quantity |-> q]) \in Seq(Line)
         /\ QuantityOf(Append(lines, [product |-> p, quantity |-> q]), r) =
               QuantityOf(lines, r) + (IF r = p THEN q ELSE 0)
  <1> DEFINE line == [product |-> p, quantity |-> q]
             after == Append(lines, line)
             n == Len(lines) + 1
             f == [j \in DOMAIN lines |-> lines[j].quantity]
             g == [j \in DOMAIN after |-> after[j].quantity]
             S == LinesOf(lines, r)
             T == LinesOf(after, r)
  <1>1. line \in Line /\ line.product = p /\ line.quantity = q
    BY DEF Line
  <1> HIDE DEF line
  <1>2. /\ after \in Seq(Line) /\ DOMAIN after = DOMAIN lines \cup {n} /\ n \notin DOMAIN lines
        /\ after[n] = line /\ \A j \in DOMAIN lines : after[j] = lines[j]
        /\ DOMAIN lines = 1 .. Len(lines)
    BY <1>1
  <1>3. T = IF r = p THEN S \cup {n} ELSE S
    BY <1>1, <1>2 DEF LinesOf
  <1>4. n \notin S /\ IsFiniteSet(S) /\ IsFiniteSet(T)
    BY <1>2, LinesFacts DEF LinesOf
  <1>5. /\ \A j \in S : g[j] = f[j]
        /\ \A j \in T : g[j] \in Nat
        /\ r = p => g[n] = q
    BY <1>1, <1>2, LinesFacts DEF LinesOf
  <1>6. QuantityOf(lines, r) = SumOver(f, S) /\ QuantityOf(after, r) = SumOver(g, T)
    BY DEF QuantityOf, LinesOf
  <1>7. QuantityOf(lines, r) \in Nat
    BY QuantityType
  <1> HIDE DEF f, g, S, T, n
  <1>8. SumOver(g, S) = SumOver(f, S)
    BY <1>5, SumSame
  <1>9. SumOver(g, T) = SumOver(g, S) + (IF r = p THEN q ELSE 0)
    <2>1. CASE r = p
      <3>1. SumOver(g, S \cup {n}) = SumOver(g, S) + g[n]
        BY <1>3, <1>4, <1>5, <2>1, SumAdd
      <3> QED
        BY <1>3, <1>5, <2>1, <3>1
    <2>2. CASE r # p
      BY <1>3, <1>6, <1>7, <1>8, <2>2
    <2> QED
      BY <2>1, <2>2
  <1> QED
    BY <1>2, <1>6, <1>8, <1>9 DEF line

LEMMA QuantityPrefix ==
  ASSUME NEW lines \in Seq(Line), NEW n \in 0 .. Len(lines), NEW p
  PROVE  /\ SubSeq(lines, 1, n) \in Seq(Line)
         /\ QuantityOf(SubSeq(lines, 1, n), p) <= QuantityOf(lines, p)
  <1> DEFINE part == SubSeq(lines, 1, n)
             f == [j \in DOMAIN lines |-> lines[j].quantity]
             g == [j \in DOMAIN part |-> part[j].quantity]
             S == LinesOf(part, p)
             T == LinesOf(lines, p)
  <1>1. /\ part \in Seq(Line) /\ DOMAIN part = 1 .. n /\ DOMAIN part \subseteq DOMAIN lines
        /\ \A j \in DOMAIN part : part[j] = lines[j]
    BY SubSeqProperties
  <1>2. S \in SUBSET T /\ \A j \in S : g[j] = f[j]
    BY <1>1 DEF LinesOf
  <1>3. IsFiniteSet(T) /\ \A j \in T : f[j] \in Nat
    BY LinesFacts DEF LinesOf
  <1>4. QuantityOf(lines, p) = SumOver(f, T) /\ QuantityOf(part, p) = SumOver(g, S)
    BY DEF QuantityOf, LinesOf
  <1> HIDE DEF f, g, S, T
  <1>5. SumOver(g, S) = SumOver(f, S) /\ SumOver(f, S) <= SumOver(f, T)
    BY <1>2, <1>3, SumSame, SumSubset
  <1> QED
    BY <1>1, <1>4, <1>5

\* With one line per product, the upsert adds to its product's quantity.
LEMMA UpsertFacts ==
  ASSUME NEW lines \in Seq(Line), Unique(lines), NEW p \in Products, NEW q \in Nat
  PROVE  /\ Upsert(lines, p, q) \in Seq(Line) /\ Unique(Upsert(lines, p, q))
         /\ \A r : QuantityOf(Upsert(lines, p, q), r) =
                     QuantityOf(lines, r) + (IF r = p THEN q ELSE 0)
  <1>1. CASE ~\E j \in DOMAIN lines : lines[j].product = p
    <2> DEFINE line == [product |-> p, quantity |-> q]
    <2>1. Upsert(lines, p, q) = Append(lines, line)
      BY <1>1 DEF Upsert
    <2>2. line \in Line /\ line.product = p
      BY DEF Line
    <2>3. Unique(Append(lines, line))
      <3> HIDE DEF line
      <3> SUFFICES ASSUME NEW j \in 1 .. Len(lines) + 1, NEW k \in 1 .. Len(lines) + 1,
                          Append(lines, line)[j].product = Append(lines, line)[k].product
                   PROVE  j = k
        BY <2>2 DEF Unique
      <3>1. \A i \in 1 .. Len(lines) : Append(lines, line)[i] = lines[i] /\ i \in DOMAIN lines
        BY <2>2
      <3>2. Append(lines, line)[Len(lines) + 1] = line
        BY <2>2
      <3> QED
        BY <1>1, <2>2, <3>1, <3>2 DEF Unique
    <2> QED
      BY <2>1, <2>3, QuantityAppend
  <1>2. CASE \E j \in DOMAIN lines : lines[j].product = p
    <2>1. PICK k \in DOMAIN lines : lines[k].product = p
      BY <1>2
    <2> DEFINE after == Upsert(lines, p, q)
               line == [lines[k] EXCEPT !.quantity = lines[k].quantity + q]
    <2>2. /\ DOMAIN lines = 1 .. Len(lines) /\ Len(lines) \in Nat
          /\ \A j \in DOMAIN lines : lines[j] \in Line /\ lines[j].quantity \in Nat
      BY LinesFacts
    <2>3. line \in Line /\ line.product = p /\ line.quantity = lines[k].quantity + q
      BY <2>1, <2>2 DEF Line
    <2>4. \A j \in DOMAIN lines : lines[j].product = p <=> j = k
      BY <2>1 DEF Unique
    <2>5. after = [j \in DOMAIN lines |-> IF j = k THEN line ELSE lines[j]]
      BY <1>2, <2>4 DEF Upsert, Merged
    <2> HIDE DEF line, after
    <2>6. /\ after \in Seq(Line) /\ DOMAIN after = DOMAIN lines /\ after[k] = line
          /\ \A j \in DOMAIN lines \ {k} : after[j] = lines[j]
      BY <2>1, <2>2, <2>3, <2>5
    <2>7. \A j \in DOMAIN lines : after[j].product = lines[j].product
      BY <2>1, <2>3, <2>6
    <2>8. Unique(after)
      BY <2>6, <2>7 DEF Unique
    <2>9. ASSUME NEW r
          PROVE  QuantityOf(after, r) = QuantityOf(lines, r) + (IF r = p THEN q ELSE 0)
      <3> DEFINE f == [j \in DOMAIN lines |-> lines[j].quantity]
                 g == [j \in DOMAIN after |-> after[j].quantity]
                 S == LinesOf(lines, r)
      <3>1. LinesOf(after, r) = S
        BY <2>6, <2>7 DEF LinesOf
      <3>2. QuantityOf(lines, r) = SumOver(f, S) /\ QuantityOf(after, r) = SumOver(g, S)
        BY <3>1 DEF QuantityOf, LinesOf
      <3>3. /\ f[k] \in Nat /\ g[k] \in Nat /\ g[k] = f[k] + q
            /\ \A j \in DOMAIN lines \ {k} : g[j] = f[j]
        BY <2>1, <2>2, <2>3, <2>6
      <3>4. QuantityOf(lines, r) \in Nat
        BY QuantityType
      <3>5. CASE r = p
        <4>1. S = {k}
          BY <2>1, <2>4, <3>5 DEF LinesOf
        <4> HIDE DEF f, g, S
        <4>2. SumOver(f, {k}) = f[k] /\ SumOver(g, {k}) = g[k]
          BY <3>3, SumOne
        <4> QED
          BY <3>2, <3>3, <3>5, <4>1, <4>2
      <3>6. CASE r # p
        <4>1. \A j \in S : g[j] = f[j]
          BY <2>1, <3>3, <3>6 DEF LinesOf
        <4> HIDE DEF f, g, S
        <4>2. SumOver(g, S) = SumOver(f, S)
          BY <4>1, SumSame
        <4> QED
          BY <3>2, <3>4, <3>6, <4>2
      <3> QED
        BY <3>5, <3>6
    <2> QED
      BY <2>6, <2>8, <2>9 DEF after
  <1> QED
    BY <1>1, <1>2

-----------------------------------------------------------------------------
(* The inductive invariant of the types.  With MySQL the carts are those    *)
(* below nextId; a cart that a client may know of is in the table, in       *)
(* either store, and stays there.                                           *)

TableOK ==
    /\ table \in [Ids -> {NoCart} \cup Seq(Line)]
    /\ past \in [Ids -> SUBSET ({NoCart} \cup Seq(Line))]

Numbered == {c \in Creates : create[c].id # 0}

CreateOK ==
    /\ backend = "mysql" =>
         /\ \A i \in Ids : table[i] # NoCart <=> i \in 1 .. nextId - 1
         /\ nextId = 1 + Cardinality(Numbered)
         /\ \A c \in Creates : create[c].pc \in {"idle", "sent"} => create[c].id = 0
    /\ \A c \in Creates :
         /\ create[c].pc = "stored" \/ create[c].answer = "created" =>
                table[create[c].id] # NoCart
         /\ create[c].answer = "created" => create[c].pc = "done"

AddOK ==
    \A a \in Adds :
        /\ add[a].known => Known(add[a].id)
        /\ add[a].pc = "stored" \/ add[a].answer = "added" => table[add[a].id] # NoCart
        /\ backend = "mysql" /\ add[a].pc = "sent" => table[add[a].id] # NoCart
        /\ add[a].pc = "idle" => ~add[a].known /\ add[a].attempt = 1
        /\ add[a].pc # "done" => add[a].answer = "none"

GetOK ==
    \A g \in Gets :
        /\ get[g].pc = "listing" => backend = "mysql" /\ table[get[g].id] # NoCart
        /\ get[g].known => Known(get[g].id)
        /\ get[g].pc # "done" => get[g].answer = "none"

TypeInv == TypeOK /\ TableOK /\ CreateOK /\ AddOK /\ GetOK

LEMMA IdFacts ==
  /\ Cardinality(Creates) \in Nat /\ Ids \subseteq Nat /\ 0 \in Ids
  /\ \A n \in 0 .. Cardinality(Creates) : n \in Ids
  /\ \A n \in Nat : n % Period \in Ids
  <1>1. Cardinality(Creates) \in Nat
    BY RequestAssumption, FS_CardinalityType
  <1>2. \A n \in Nat : n % Period \in 0 .. Period - 1
    BY CartAssumption
  <1>3. PICK m \in Nat : Ids = 0 .. m /\ m >= Period /\ m >= Cardinality(Creates)
    BY <1>1, CartAssumption DEF Ids
  <1>4. Ids \subseteq Nat /\ 0 \in Ids /\ \A n \in 0 .. Cardinality(Creates) : n \in Ids
    BY <1>1, <1>3
  <1>5. ASSUME NEW k \in 0 .. Period - 1 PROVE k \in Ids
    BY <1>3, CartAssumption
  <1> QED
    BY <1>1, <1>2, <1>4, <1>5

LEMMA TypeInit == Init => TypeInv
  <1> SUFFICES ASSUME Init PROVE TypeInv
    OBVIOUS
  <1>1. backend \in {"mysql", "dynamo"} /\ nextId = 1 /\ now = 1 /\ failures = 0
    BY DEF Init
  <1>2. \A i \in Ids : table[i] = NoCart /\ past[i] = {NoCart}
    BY DEF Init
  <1>3. TableOK
    BY DEF Init, TableOK
  <1>4. /\ create \in [Creates -> CreateRec]
        /\ \A c \in Creates : /\ create[c].pc = "idle" /\ create[c].id = 0
                               /\ create[c].answer = "none"
    BY IdFacts DEF Init, CreateRec
  <1>5. /\ add \in [Adds -> AddRec]
        /\ \A a \in Adds : /\ add[a].pc = "idle" /\ add[a].known = FALSE
                            /\ add[a].attempt = 1 /\ add[a].answer = "none"
    <2> DEFINE R == {[pc |-> "idle", id |-> 0, product |-> p, quantity |-> q, known |-> FALSE,
                      attempt |-> 1, answer |-> "none"] : p \in Products, q \in Quantities}
    <2>1. \A r \in R : /\ r \in AddRec /\ r.pc = "idle" /\ r.known = FALSE
                       /\ r.attempt = 1 /\ r.answer = "none"
      <3> SUFFICES ASSUME NEW p \in Products, NEW q \in Quantities
                   PROVE  [pc |-> "idle", id |-> 0, product |-> p, quantity |-> q,
                           known |-> FALSE, attempt |-> 1, answer |-> "none"] \in AddRec
        OBVIOUS
      <3>1. 1 \in 1 .. MaxAttempts
        BY CartAssumption
      <3> QED
        BY <3>1, IdFacts DEF AddRec
    <2>2. add \in [Adds -> R]
      BY DEF Init
    <2> HIDE DEF R
    <2> QED
      BY <2>1, <2>2
  <1>6. /\ get \in [Gets -> GetRec]
        /\ \A g \in Gets : /\ get[g].pc = "idle" /\ get[g].known = FALSE
                            /\ get[g].answer = "none"
    <2> DEFINE r == [pc |-> "idle", id |-> 0, known |-> FALSE, before |-> {},
                     lines |-> <<>>, cut |-> FALSE, answer |-> "none"]
    <2>1. r \in GetRec /\ r.pc = "idle" /\ r.known = FALSE /\ r.answer = "none"
      BY IdFacts DEF GetRec
    <2>2. get = [g \in Gets |-> r]
      BY DEF Init
    <2> HIDE DEF r
    <2> QED
      BY <2>1, <2>2
  <1>7. CreateOK
    <2>1. Cardinality(Numbered) = 0
      BY <1>4, FS_EmptySet DEF Numbered
    <2> QED
      BY <1>1, <1>2, <1>4, <2>1 DEF CreateOK
  <1>8. AddOK /\ GetOK
    BY <1>5, <1>6 DEF AddOK, GetOK
  <1>9. /\ nextId \in 1 .. (Cardinality(Creates) + 1) /\ now \in 1 .. MaxTime
        /\ failures \in 0 .. MaxFailures
    BY <1>1, IdFacts, CartAssumption
  <1> QED
    BY <1>1, <1>2, <1>3, <1>4, <1>5, <1>6, <1>7, <1>8, <1>9 DEF TypeInv, TypeOK

-----------------------------------------------------------------------------
(* What the actions do.                                                     *)

\* A step of one request: its record, and no other's.
CreateTo(c, pc, id, answer) ==
    /\ create' \in [Creates -> CreateRec]
    /\ create'[c].pc = pc /\ create'[c].id = id /\ create'[c].answer = answer
    /\ \A d \in Creates \ {c} : create'[d] = create[d]

AddTo(a, pc, answer) ==
    /\ add' \in [Adds -> AddRec]
    /\ add'[a].pc = pc /\ add'[a].answer = answer /\ add'[a].id = add[a].id
    /\ add'[a].product = add[a].product /\ add'[a].quantity = add[a].quantity
    /\ add'[a].known = add[a].known /\ add'[a].attempt = add[a].attempt
    /\ \A b \in Adds \ {a} : add'[b] = add[b]

GetTo(g, pc, answer) ==
    /\ get' \in [Gets -> GetRec]
    /\ get'[g].pc = pc /\ get'[g].answer = answer /\ get'[g].id = get[g].id
    /\ get'[g].known = get[g].known /\ get'[g].before = get[g].before
    /\ \A h \in Gets \ {g} : get'[h] = get[h]

StoreTo(i, lines) ==
    /\ TableOK' /\ lines \in Seq(Line) /\ lines # NoCart
    /\ table'[i] = lines /\ \A j \in Ids \ {i} : table'[j] = table[j]
    /\ backend = "mysql" => past' = past
    /\ backend = "dynamo" => past'[i] = past[i] \cup {lines}
    /\ \A j \in Ids \ {i} : past'[j] = past[j]

LEMMA StoreFacts ==
  ASSUME TypeInv, NEW i \in Ids, NEW lines \in Seq(Line), Store(i, lines)
  PROVE  StoreTo(i, lines)
  <1>1. TableOK /\ lines # NoCart
    BY CartAssumption DEF TypeInv
  <1>2. /\ table' \in [Ids -> {NoCart} \cup Seq(Line)] /\ table'[i] = lines
        /\ \A j \in Ids \ {i} : table'[j] = table[j]
    BY <1>1 DEF Store, TableOK
  <1>3. CASE backend = "mysql"
    BY <1>1, <1>2, <1>3 DEF Store, TableOK, StoreTo
  <1>4. CASE backend # "mysql"
    <2>1. past' = [past EXCEPT ![i] = past[i] \cup {lines}]
      BY <1>4 DEF Store
    <2>2. past[i] \cup {lines} \in SUBSET ({NoCart} \cup Seq(Line))
      BY <1>1 DEF TableOK
    <2>3. /\ past' \in [Ids -> SUBSET ({NoCart} \cup Seq(Line))]
          /\ past'[i] = past[i] \cup {lines} /\ \A j \in Ids \ {i} : past'[j] = past[j]
      BY <1>1, <2>1, <2>2 DEF TableOK
    <2> QED
      BY <1>1, <1>2, <1>4, <2>3 DEF TableOK, StoreTo
  <1> QED
    BY <1>3, <1>4

\* The steps of a creation: asked for, inserted or put, put again, answered, failed.
CreateAsked(c) ==
    /\ create[c].pc = "idle" /\ CreateTo(c, "sent", NewId, create[c].answer)
    /\ UNCHANGED <<table, past, nextId, failures>>
CreateInserted(c) ==
    /\ backend = "mysql" /\ create[c].pc = "sent"
    /\ CreateTo(c, "stored", nextId, create[c].answer)
    /\ nextId \in Ids /\ nextId' = nextId + 1 /\ StoreTo(nextId, <<>>) /\ failures' = failures
CreatePut(c) ==
    /\ backend = "dynamo" /\ create[c].pc = "sent"
    /\ CreateTo(c, "stored", create[c].id, create[c].answer)
    /\ StoreTo(create[c].id, <<>>) /\ UNCHANGED <<nextId, failures>>
CreateAgain(c) ==
    /\ backend = "dynamo" /\ create[c].pc = "sent" /\ create' = create
    /\ StoreTo(create[c].id, <<>>) /\ nextId' = nextId /\ failures' = failures + 1
CreateAnswered(c) ==
    /\ create[c].pc = "stored" /\ CreateTo(c, "done", create[c].id, "created")
    /\ UNCHANGED <<table, past, nextId, failures>>
CreateFailed(c) ==
    /\ create[c].pc \in {"sent", "stored"} /\ CreateTo(c, "done", create[c].id, "error")
    /\ UNCHANGED <<table, past, nextId>> /\ failures' = failures + 1

CreateKind(c) ==
    /\ UNCHANGED <<backend, add, get, now>>
    /\ \/ CreateAsked(c) \/ CreateInserted(c) \/ CreatePut(c)
       \/ CreateAgain(c) \/ CreateAnswered(c) \/ CreateFailed(c)

\* Of an addition: asked for, and then waiting or invalid; found or not;
\* stored, with a line or in one; refused; answered, failed.
AddAsked(a) ==
    /\ add[a].pc = "idle" /\ add' \in [Adds -> AddRec]
    /\ \/ add'[a].pc = "done" /\ add'[a].answer = "invalid" /\ add'[a].id = 0
       \/ backend = "mysql" /\ add'[a].pc = "checking" /\ add'[a].answer = "none"
       \/ backend = "dynamo" /\ add'[a].pc = "sent" /\ add'[a].answer = "none"
    /\ add'[a].product = add[a].product /\ add'[a].quantity = add[a].quantity
    /\ add'[a].known = Known(add'[a].id) /\ add'[a].attempt = add[a].attempt
    /\ \A b \in Adds \ {a} : add'[b] = add[b]
    /\ UNCHANGED <<table, past, failures>>
AddFound(a) ==
    /\ add[a].pc = "checking" /\ table[add[a].id] # NoCart /\ AddTo(a, "sent", add[a].answer)
    /\ UNCHANGED <<table, past, failures>>
AddMissed(a) ==
    /\ add[a].pc = "checking" /\ AddTo(a, "done", "not found") /\ UNCHANGED <<table, past>>
    /\ \/ table[add[a].id] = NoCart /\ failures' = failures
       \/ failures' = failures + 1
AddInserted(a) ==
    /\ backend = "mysql" /\ add[a].pc = "sent" /\ AddTo(a, "stored", add[a].answer)
    /\ table[add[a].id] \in Seq(Line)
    /\ StoreTo(add[a].id, Upsert(table[add[a].id], add[a].product, add[a].quantity))
    /\ failures' = failures
AppendTo(a) ==
    \E old \in Seq(Line) :
       /\ \/ table[add[a].id] = NoCart /\ old = <<>>
          \/ table[add[a].id] # NoCart /\ old = table[add[a].id]
       /\ StoreTo(add[a].id, Append(old, [product |-> add[a].product,
                                          quantity |-> add[a].quantity]))
AddAppended(a) ==
    /\ backend = "dynamo" /\ add[a].pc = "sent" /\ AddTo(a, "stored", add[a].answer)
    /\ AppendTo(a) /\ failures' = failures
AddAgain(a) ==
    /\ backend = "dynamo" /\ add[a].pc = "sent" /\ AppendTo(a) /\ failures' = failures + 1
    /\ add' \in [Adds -> AddRec] /\ \A b \in Adds \ {a} : add'[b] = add[b]
    /\ add'[a].pc = "sent" /\ add'[a].answer = add[a].answer /\ add'[a].id = add[a].id
    /\ add'[a].product = add[a].product /\ add'[a].quantity = add[a].quantity
    /\ add'[a].known = add[a].known /\ add'[a].attempt = add[a].attempt + 1
AddAnswered(a) ==
    /\ add[a].pc = "stored" /\ AddTo(a, "done", "added")
    /\ UNCHANGED <<table, past, failures>>
AddFailed(a) ==
    /\ add[a].pc \in {"sent", "stored"} /\ AddTo(a, "done", "error")
    /\ UNCHANGED <<table, past>> /\ failures' \in {failures, failures + 1}

AddKind(a) ==
    /\ UNCHANGED <<backend, nextId, create, get, now>>
    /\ \/ AddAsked(a) \/ AddFound(a) \/ AddMissed(a) \/ AddInserted(a)
       \/ AddAppended(a) \/ AddAgain(a) \/ AddAnswered(a) \/ AddFailed(a)

\* The steps that put something into a cart.
Storing(a) == AddInserted(a) \/ AddAppended(a) \/ AddAgain(a)

\* Of a read: asked for, found, answered with lines, not found, failed.
GetAsked(g) ==
    /\ get[g].pc = "idle" /\ get' \in [Gets -> GetRec]
    /\ get'[g].pc \in {"reading", "done"} /\ get'[g].answer \in {"none", "invalid"}
    /\ get'[g].pc # "done" => get'[g].answer = "none"
    /\ get'[g].known = Known(get'[g].id)
    /\ get'[g].before = {a \in Adds : add[a].id = get'[g].id /\ add[a].answer = "added"}
    /\ \A h \in Gets \ {g} : get'[h] = get[h]
    /\ failures' = failures
GetListing(g) ==
    /\ get[g].pc = "reading" /\ backend = "mysql" /\ table[get[g].id] # NoCart
    /\ GetTo(g, "listing", get[g].answer) /\ failures' = failures
GetListed(g) ==
    /\ get[g].pc = "listing" /\ GetTo(g, "done", "found")
    /\ get'[g].lines = table[get[g].id] /\ failures' = failures
GetCut(g) ==
    /\ get[g].pc = "listing" /\ GetTo(g, "done", "found") /\ get'[g].cut
    /\ failures' = failures + 1
    /\ \E n \in 0 .. Len(table[get[g].id]) : get'[g].lines = SubSeq(table[get[g].id], 1, n)
GetPast(g) ==
    /\ get[g].pc = "reading" /\ backend = "dynamo" /\ GetTo(g, "done", "found")
    /\ get'[g].lines # NoCart /\ get'[g].lines \in past[get[g].id] /\ failures' = failures
GetMissed(g) ==
    /\ get[g].pc = "reading" /\ GetTo(g, "done", "not found") /\ failures' = failures
    /\ backend = "dynamo" \/ table[get[g].id] = NoCart
GetFailed(g) ==
    /\ get[g].pc \in {"reading", "listing"} /\ failures' = failures + 1
    /\ GetTo(g, "done", "error") \/ GetTo(g, "done", "not found")

GetKind(g) ==
    /\ UNCHANGED <<backend, table, past, nextId, create, add, now>>
    /\ \/ GetAsked(g) \/ GetListing(g) \/ GetListed(g) \/ GetCut(g)
       \/ GetPast(g) \/ GetMissed(g) \/ GetFailed(g)

LEMMA RecordTypes ==
  ASSUME TypeInv
  PROVE  /\ create \in [Creates -> CreateRec] /\ add \in [Adds -> AddRec]
         /\ get \in [Gets -> GetRec] /\ backend \in {"mysql", "dynamo"}
         /\ \A c \in Creates : create[c] \in CreateRec /\ create[c].id \in Ids
         /\ \A a \in Adds : /\ add[a] \in AddRec /\ add[a].id \in Ids
                             /\ add[a].product \in Products /\ add[a].quantity \in Nat
                             /\ add[a].attempt \in 1 .. MaxAttempts
         /\ \A g \in Gets : get[g] \in GetRec /\ get[g].id \in Ids
         /\ \A i \in Ids : /\ table[i] # NoCart => table[i] \in Seq(Line)
                            /\ \A x \in past[i] : x # NoCart => x \in Seq(Line)
  <1>1. /\ create \in [Creates -> CreateRec] /\ add \in [Adds -> AddRec]
        /\ get \in [Gets -> GetRec] /\ backend \in {"mysql", "dynamo"}
    BY DEF TypeInv, TypeOK
  <1>2. TableOK
    BY DEF TypeInv
  <1>3. \A q \in Quantities : q \in Nat
    BY CartAssumption
  <1>4. \A r \in AddRec : /\ r.id \in Ids /\ r.product \in Products /\ r.quantity \in Nat
                          /\ r.attempt \in 1 .. MaxAttempts
    BY <1>3 DEF AddRec
  <1>5. (\A r \in CreateRec : r.id \in Ids) /\ (\A r \in GetRec : r.id \in Ids)
    BY DEF CreateRec, GetRec
  <1> QED
    BY <1>1, <1>2, <1>4, <1>5 DEF TableOK

LEMMA NextIdFree ==
  ASSUME TypeInv, backend = "mysql", NEW c \in Creates, create[c].pc = "sent"
  PROVE  nextId \in Ids
  <1>1. create[c].id = 0 /\ nextId = 1 + Cardinality(Numbered)
    BY DEF TypeInv, CreateOK
  <1>2. Numbered \in SUBSET (Creates \ {c})
    BY <1>1 DEF Numbered
  <1>3. /\ IsFiniteSet(Creates \ {c}) /\ Cardinality(Creates \ {c}) = Cardinality(Creates) - 1
    BY RequestAssumption, FS_RemoveElement
  <1>4. /\ IsFiniteSet(Numbered) /\ Cardinality(Numbered) <= Cardinality(Creates) - 1
    BY <1>2, <1>3, FS_Subset
  <1>5. Cardinality(Numbered) \in Nat /\ Cardinality(Creates) \in Nat
    BY <1>4, IdFacts, FS_CardinalityType
  <1> QED
    BY <1>1, <1>4, <1>5, IdFacts

LEMMA CreateKinds ==
  ASSUME TypeInv, NEW c \in Creates,
         \/ CreateCart(c) \/ InsertCart(c) \/ PutCart(c) \/ PutRepeated(c)
         \/ CreateReturns(c) \/ CreateFails(c)
  PROVE  CreateKind(c)
  <1>1. create \in [Creates -> CreateRec] /\ create[c] \in CreateRec /\ create[c].id \in Ids
    BY RecordTypes
  <1>2. <<>> \in Seq(Line)
    OBVIOUS
  <1>3. ASSUME NEW r \in CreateRec, create' = [create EXCEPT ![c] = r]
        PROVE  CreateTo(c, r.pc, r.id, r.answer)
    BY <1>1, <1>3 DEF CreateTo
  <1>4. CASE CreateCart(c)
    <2> DEFINE r == [create[c] EXCEPT !.pc = "sent", !.id = NewId]
    <2>1. NewId \in Ids
      BY IdFacts DEF NewId, TypeInv, TypeOK
    <2>2. r \in CreateRec /\ r.pc = "sent" /\ r.id = NewId /\ r.answer = create[c].answer
      BY <1>1, <2>1 DEF CreateRec
    <2>3. create' = [create EXCEPT ![c] = r]
      BY <1>1, <1>4 DEF CreateCart
    <2> HIDE DEF r
    <2>4. CreateTo(c, "sent", NewId, create[c].answer)
      BY <1>3, <2>2, <2>3
    <2> QED
      BY <1>4, <2>4 DEF CreateCart, CreateKind, CreateAsked
  <1>5. CASE InsertCart(c)
    <2> DEFINE r == [create[c] EXCEPT !.pc = "stored", !.id = nextId]
    <2>1. nextId \in Ids
      BY <1>5, NextIdFree DEF InsertCart
    <2>2. r \in CreateRec /\ r.pc = "stored" /\ r.id = nextId /\ r.answer = create[c].answer
      BY <1>1, <2>1 DEF CreateRec
    <2>3. create' = [create EXCEPT ![c] = r]
      BY <1>1, <1>5 DEF InsertCart
    <2> HIDE DEF r
    <2>4. CreateTo(c, "stored", nextId, create[c].answer)
      BY <1>3, <2>2, <2>3
    <2>5. StoreTo(nextId, <<>>)
      BY <1>2, <1>5, <2>1, StoreFacts DEF InsertCart
    <2> QED
      BY <1>5, <2>1, <2>4, <2>5 DEF InsertCart, CreateKind, CreateInserted
  <1>6. CASE PutCart(c)
    <2> DEFINE r == [create[c] EXCEPT !.pc = "stored"]
    <2>2. r \in CreateRec /\ r.pc = "stored" /\ r.id = create[c].id
          /\ r.answer = create[c].answer
      BY <1>1 DEF CreateRec
    <2>3. create' = [create EXCEPT ![c] = r]
      BY <1>1, <1>6 DEF PutCart
    <2> HIDE DEF r
    <2>4. CreateTo(c, "stored", create[c].id, create[c].answer)
      BY <1>3, <2>2, <2>3
    <2>5. StoreTo(create[c].id, <<>>)
      BY <1>1, <1>2, <1>6, StoreFacts DEF PutCart
    <2> QED
      BY <1>6, <2>4, <2>5 DEF PutCart, CreateKind, CreatePut
  <1>7. ASSUME NEW x \in {"created", "error"},
               create' = [create EXCEPT ![c].pc = "done", ![c].answer = x]
        PROVE  CreateTo(c, "done", create[c].id, x)
    <2> DEFINE r == [create[c] EXCEPT !.pc = "done", !.answer = x]
    <2>2. r \in CreateRec /\ r.pc = "done" /\ r.id = create[c].id /\ r.answer = x
      BY <1>1 DEF CreateRec
    <2>3. create' = [create EXCEPT ![c] = r]
      BY <1>1, <1>7
    <2> HIDE DEF r
    <2> QED
      BY <1>3, <2>2, <2>3
  <1>8. CASE CreateReturns(c)
    BY <1>7, <1>8 DEF CreateReturns, CreateKind, CreateAnswered
  <1>9. CASE CreateFails(c)
    BY <1>7, <1>9 DEF CreateFails, Fails, CreateKind, CreateFailed
  <1>10. CASE PutRepeated(c)
    <2>1. StoreTo(create[c].id, <<>>)
      BY <1>1, <1>2, <1>10, StoreFacts DEF PutRepeated
    <2> QED
      BY <1>10, <2>1 DEF PutRepeated, Fails, requests, CreateKind, CreateAgain
  <1> QED
    BY <1>4, <1>5, <1>6, <1>8, <1>9, <1>10

LEMMA AddKinds ==
  ASSUME TypeInv, NEW a \in Adds,
         \/ \E i \in Ids : AddItems(a, i)
         \/ CheckCart(a) \/ CheckFails(a) \/ InsertItem(a)
         \/ AppendItem(a) \/ AppendRepeated(a) \/ AddReturns(a) \/ AddFails(a)
  PROVE  AddKind(a)
  <1>1. /\ add \in [Adds -> AddRec] /\ add[a] \in AddRec /\ add[a].id \in Ids
        /\ add[a].product \in Products /\ add[a].quantity \in Nat
        /\ backend \in {"mysql", "dynamo"}
        /\ \A i \in Ids : table[i] # NoCart => table[i] \in Seq(Line)
    BY RecordTypes
  <1>2. ASSUME NEW pc \in {"sent", "stored"}, add' = [add EXCEPT ![a].pc = pc]
        PROVE  AddTo(a, pc, add[a].answer)
    <2> DEFINE r == [add[a] EXCEPT !.pc = pc]
    <2>1. /\ r \in AddRec /\ r.pc = pc /\ r.answer = add[a].answer /\ r.id = add[a].id
          /\ r.product = add[a].product /\ r.quantity = add[a].quantity
          /\ r.known = add[a].known /\ r.attempt = add[a].attempt
      BY <1>1 DEF AddRec
    <2>2. add' = [add EXCEPT ![a] = r]
      BY <1>1, <1>2
    <2> HIDE DEF r
    <2> QED
      BY <1>1, <2>1, <2>2 DEF AddTo
  <1>3. ASSUME NEW x \in {"not found", "added", "error"}, AddAnswer(a, x)
        PROVE  AddTo(a, "done", x)
    <2> DEFINE r == [add[a] EXCEPT !.pc = "done", !.answer = x]
    <2>1. /\ r \in AddRec /\ r.pc = "done" /\ r.answer = x /\ r.id = add[a].id
          /\ r.product = add[a].product /\ r.quantity = add[a].quantity
          /\ r.known = add[a].known /\ r.attempt = add[a].attempt
      BY <1>1 DEF AddRec
    <2>2. add' = [add EXCEPT ![a] = r]
      BY <1>1, <1>3 DEF AddAnswer
    <2> HIDE DEF r
    <2> QED
      BY <1>1, <2>1, <2>2 DEF AddTo
  <1>4. ASSUME NEW i \in Ids, AddItems(a, i) PROVE AddKind(a)
    <2> DEFINE pc == IF i = 0 THEN "done" ELSE IF backend = "mysql" THEN "checking" ELSE "sent"
               x == IF i = 0 THEN "invalid" ELSE "none"
               k == Known(i)
               r == [add[a] EXCEPT !.pc = pc, !.answer = x, !.id = i, !.known = k]
    <2>1. k \in BOOLEAN
      BY DEF Known
    <2>2. add' = [add EXCEPT ![a] = r]
      BY <1>1, <1>4 DEF AddItems
    <2>3. /\ pc \in {"done", "checking", "sent"} /\ x \in {"invalid", "none"}
          /\ \/ pc = "done" /\ x = "invalid" /\ i = 0
             \/ backend = "mysql" /\ pc = "checking" /\ x = "none"
             \/ backend = "dynamo" /\ pc = "sent" /\ x = "none"
      BY <1>1
    <2> HIDE DEF pc, x, k
    <2>4. /\ r \in AddRec /\ r.pc = pc /\ r.answer = x /\ r.id = i /\ r.known = k
          /\ r.product = add[a].product /\ r.quantity = add[a].quantity
          /\ r.attempt = add[a].attempt
      BY <1>1, <2>1, <2>3 DEF AddRec
    <2> HIDE DEF r
    <2>5. /\ add' \in [Adds -> AddRec] /\ add'[a] = r /\ \A b \in Adds \ {a} : add'[b] = add[b]
      BY <1>1, <2>2, <2>4
    <2>6. add'[a].known = Known(add'[a].id)
      BY <2>4, <2>5 DEF k
    <2>7. add[a].pc = "idle" /\ UNCHANGED <<table, past, failures>>
      BY <1>4 DEF AddItems
    <2>8. AddAsked(a)
      BY <2>3, <2>4, <2>5, <2>6, <2>7 DEF AddAsked
    <2> QED
      BY <1>4, <2>8 DEF AddItems, AddKind
  <1>5. CASE CheckCart(a)
    BY <1>2, <1>3, <1>5 DEF CheckCart, Found, AddKind, AddFound, AddMissed
  <1>6. CASE CheckFails(a)
    BY <1>3, <1>6 DEF CheckFails, Fails, AddKind, AddMissed
  <1>7. CASE InsertItem(a)
    <2>1. /\ backend = "mysql" /\ add[a].pc = "sent" /\ table[add[a].id] \in Seq(Line)
          /\ Unique(table[add[a].id])
      BY <1>1, <1>7 DEF InsertItem, TypeInv, TypeOK, AddOK, Unique
    <2> DEFINE after == Upsert(table[add[a].id], add[a].product, add[a].quantity)
    <2>2. after \in Seq(Line)
      BY <1>1, <2>1, UpsertFacts
    <2>3. \/ Store(add[a].id, after) /\ add' = [add EXCEPT ![a].pc = "stored"]
          \/ AddAnswer(a, "error") /\ UNCHANGED <<table, past>>
      BY <1>7 DEF InsertItem
    <2>4. UNCHANGED <<backend, nextId, create, get, now, failures>>
      BY <1>7 DEF InsertItem
    <2> HIDE DEF after
    <2>5. CASE Store(add[a].id, after) /\ add' = [add EXCEPT ![a].pc = "stored"]
      <3>1. StoreTo(add[a].id, after) /\ AddTo(a, "stored", add[a].answer)
        BY <1>1, <1>2, <2>2, <2>5, StoreFacts
      <3> QED
        BY <2>1, <2>4, <3>1 DEF AddKind, AddInserted, after
    <2>6. CASE AddAnswer(a, "error") /\ UNCHANGED <<table, past>>
      BY <1>3, <2>1, <2>4, <2>6 DEF AddKind, AddFailed
    <2> QED
      BY <2>3, <2>5, <2>6
  <1>8. ASSUME Store(add[a].id, Appended(a)) PROVE AppendTo(a)
    <2> DEFINE old == IF table[add[a].id] = NoCart THEN <<>> ELSE table[add[a].id]
               line == [product |-> add[a].product, quantity |-> add[a].quantity]
    <2>1. /\ old \in Seq(Line)
          /\ \/ table[add[a].id] = NoCart /\ old = <<>>
             \/ table[add[a].id] # NoCart /\ old = table[add[a].id]
      BY <1>1
    <2>2. line \in Line
      BY <1>1 DEF Line
    <2>3. Store(add[a].id, Append(old, line))
      BY <1>8 DEF Appended
    <2> HIDE DEF old, line
    <2>4. Append(old, line) \in Seq(Line)
      BY <2>1, <2>2
    <2>5. StoreTo(add[a].id, Append(old, line))
      BY <1>1, <2>3, <2>4, StoreFacts
    <2> QED
      BY <2>1, <2>5 DEF AppendTo, line
  <1>11. CASE AppendItem(a)
    BY <1>2, <1>8, <1>11 DEF AppendItem, AddKind, AddAppended
  <1>12. CASE AppendRepeated(a)
    <2> DEFINE n == add[a].attempt + 1
               r == [add[a] EXCEPT !.attempt = n]
    <2>1. n \in 1 .. MaxAttempts
      <3>1. add[a].attempt \in 1 .. MaxAttempts /\ add[a].attempt < MaxAttempts
        BY <1>12, RecordTypes DEF AppendRepeated
      <3> QED
        BY <3>1, CartAssumption
    <2>2. add' = [add EXCEPT ![a] = r]
      BY <1>1, <1>12 DEF AppendRepeated
    <2> HIDE DEF n
    <2>3. /\ r \in AddRec /\ r.pc = add[a].pc /\ r.answer = add[a].answer /\ r.id = add[a].id
          /\ r.product = add[a].product /\ r.quantity = add[a].quantity
          /\ r.known = add[a].known /\ r.attempt = n
      BY <1>1, <2>1 DEF AddRec
    <2> HIDE DEF r
    <2>4. /\ add' \in [Adds -> AddRec] /\ add'[a] = r /\ \A b \in Adds \ {a} : add'[b] = add[b]
      BY <1>1, <2>2, <2>3
    <2>5. AddAgain(a)
      BY <1>8, <1>12, <2>3, <2>4 DEF AppendRepeated, Fails, AddAgain, n
    <2> QED
      BY <1>12, <2>5 DEF AppendRepeated, AddKind
  <1>9. CASE AddReturns(a)
    BY <1>3, <1>9 DEF AddReturns, AddKind, AddAnswered
  <1>10. CASE AddFails(a)
    BY <1>3, <1>10 DEF AddFails, Fails, AddKind, AddFailed
  <1> QED
    BY <1>4, <1>5, <1>6, <1>7, <1>9, <1>10, <1>11, <1>12

LEMMA GetKinds ==
  ASSUME TypeInv, NEW g \in Gets,
         \/ \E i \in Ids : GetCart(g, i)
         \/ ReadRow(g) \/ ReadItems(g) \/ ReadItemsCut(g) \/ ReadItem(g) \/ GetFails(g)
  PROVE  GetKind(g)
  <1>1. /\ get \in [Gets -> GetRec] /\ get[g] \in GetRec /\ get[g].id \in Ids
        /\ \A i \in Ids : /\ table[i] # NoCart => table[i] \in Seq(Line)
                           /\ \A x \in past[i] : x # NoCart => x \in Seq(Line)
        /\ backend \in {"mysql", "dynamo"}
        /\ get[g].pc = "listing" => backend = "mysql" /\ table[get[g].id] # NoCart
    BY RecordTypes DEF TypeInv, GetOK
  <1>2. ASSUME NEW x \in {"not found", "found", "error"}, NEW lines \in Seq(Line),
               GetAnswer(g, x, lines)
        PROVE  GetTo(g, "done", x) /\ get'[g].lines = lines
    <2> DEFINE r == [get[g] EXCEPT !.pc = "done", !.answer = x, !.lines = lines]
    <2>1. /\ r \in GetRec /\ r.pc = "done" /\ r.answer = x /\ r.id = get[g].id
          /\ r.known = get[g].known /\ r.before = get[g].before /\ r.lines = lines
      BY <1>1 DEF GetRec
    <2>2. get' = [get EXCEPT ![g] = r]
      BY <1>1, <1>2 DEF GetAnswer
    <2> HIDE DEF r
    <2> QED
      BY <1>1, <2>1, <2>2 DEF GetTo
  <1>3. <<>> \in Seq(Line)
    OBVIOUS
  <1>4. ASSUME NEW i \in Ids, GetCart(g, i) PROVE GetKind(g)
    <2> DEFINE pc == IF i = 0 THEN "done" ELSE "reading"
               x == IF i = 0 THEN "invalid" ELSE "none"
               k == Known(i)
               before == {a \in Adds : add[a].id = i /\ add[a].answer = "added"}
               r == [get[g] EXCEPT !.pc = pc, !.answer = x, !.id = i, !.known = k,
                                   !.before = before]
    <2>1. k \in BOOLEAN /\ before \in SUBSET Adds
      BY DEF Known
    <2>2. get' = [get EXCEPT ![g] = r]
      BY <1>1, <1>4 DEF GetCart
    <2>3. (pc = "done" /\ x = "invalid") \/ (pc = "reading" /\ x = "none")
      OBVIOUS
    <2> HIDE DEF pc, x, k, before
    <2>4. /\ r \in GetRec /\ r.pc = pc /\ r.answer = x /\ r.id = i /\ r.known = k
          /\ r.before = before
      BY <1>1, <2>1, <2>3 DEF GetRec
    <2> HIDE DEF r
    <2>5. /\ get' \in [Gets -> GetRec] /\ get'[g] = r /\ \A h \in Gets \ {g} : get'[h] = get[h]
      BY <1>1, <2>2, <2>4
    <2>6. get'[g].known = Known(get'[g].id)
      BY <2>4, <2>5 DEF k
    <2>7. get'[g].before = {a \in Adds : add[a].id = get'[g].id /\ add[a].answer = "added"}
      BY <2>4, <2>5 DEF before
    <2>8. get[g].pc = "idle" /\ Unread /\ failures' = failures
      BY <1>4 DEF GetCart
    <2> QED
      BY <2>3, <2>4, <2>5, <2>6, <2>7, <2>8 DEF GetAsked, GetKind, Unread
  <1>5. CASE ReadRow(g)
    <2>1. CASE table[get[g].id] = NoCart
      BY <1>2, <1>3, <1>5, <2>1 DEF ReadRow, Unread, GetKind, GetMissed
    <2>2. CASE table[get[g].id] # NoCart
      <3> DEFINE r == [get[g] EXCEPT !.pc = "listing"]
      <3>1. /\ r \in GetRec /\ r.pc = "listing" /\ r.answer = get[g].answer /\ r.id = get[g].id
            /\ r.known = get[g].known /\ r.before = get[g].before
        BY <1>1 DEF GetRec
      <3>2. get' = [get EXCEPT ![g] = r]
        BY <1>1, <1>5, <2>2 DEF ReadRow
      <3> HIDE DEF r
      <3>3. GetTo(g, "listing", get[g].answer)
        BY <1>1, <3>1, <3>2 DEF GetTo
      <3> QED
        BY <1>5, <2>2, <3>3 DEF ReadRow, Unread, GetKind, GetListing
    <2> QED
      BY <2>1, <2>2
  <1>6. CASE ReadItems(g)
    BY <1>1, <1>2, <1>6 DEF ReadItems, Listed, Unread, GetKind, GetListed
  <1>7. CASE ReadItemsCut(g)
    <2>1. PICK n \in 0 .. Len(table[get[g].id]) :
             get' = [get EXCEPT ![g].pc = "done", ![g].answer = "found", ![g].cut = TRUE,
                                ![g].lines = SubSeq(table[get[g].id], 1, n)]
      BY <1>7 DEF ReadItemsCut
    <2> DEFINE lines == SubSeq(table[get[g].id], 1, n)
               r == [get[g] EXCEPT !.pc = "done", !.answer = "found", !.cut = TRUE,
                                   !.lines = lines]
    <2>2. lines \in Seq(Line)
      BY <1>1, <1>7, QuantityPrefix DEF ReadItemsCut
    <2>3. get' = [get EXCEPT ![g] = r]
      BY <1>1, <2>1
    <2> HIDE DEF lines
    <2>4. /\ r \in GetRec /\ r.pc = "done" /\ r.answer = "found" /\ r.id = get[g].id
          /\ r.known = get[g].known /\ r.before = get[g].before /\ r.lines = lines /\ r.cut
      BY <1>1, <2>2 DEF GetRec
    <2> HIDE DEF r
    <2>5. GetTo(g, "done", "found") /\ get'[g].lines = lines /\ get'[g].cut
      BY <1>1, <2>3, <2>4 DEF GetTo
    <2> QED
      BY <1>7, <2>5 DEF ReadItemsCut, Fails, Unread, GetKind, GetCut, lines
  <1>8. CASE ReadItem(g)
    <2>1. PICK lines \in past[get[g].id] :
             IF lines = NoCart THEN GetAnswer(g, "not found", <<>>)
                               ELSE GetAnswer(g, "found", lines)
      BY <1>8 DEF ReadItem
    <2>2. CASE lines = NoCart
      BY <1>2, <1>3, <1>8, <2>1, <2>2 DEF ReadItem, Unread, GetKind, GetMissed
    <2>3. CASE lines # NoCart
      <3>1. lines \in Seq(Line)
        <4>1. PICK i \in Ids : i = get[g].id
          BY <1>1
        <4>2. lines \in past[i] /\ lines \in {NoCart} \cup Seq(Line)
          BY <2>1, <4>1 DEF TypeInv, TableOK
        <4> QED
          BY <2>3, <4>2
      <3>2. GetTo(g, "done", "found") /\ get'[g].lines = lines
        BY <1>2, <2>1, <2>3, <3>1
      <3> QED
        BY <1>8, <2>3, <3>2 DEF ReadItem, Unread, GetKind, GetPast
    <2> QED
      BY <2>2, <2>3
  <1>9. CASE GetFails(g)
    BY <1>1, <1>2, <1>3, <1>9 DEF GetFails, Fails, Unread, GetKind, GetFailed
  <1> QED
    BY <1>4, <1>5, <1>6, <1>7, <1>8, <1>9

Aside == UNCHANGED <<backend, table, past, nextId, create, add, get, failures>>

LEMMA Kinds ==
  ASSUME TypeInv, [Next]_vars
  PROVE  \/ \E c \in Creates : CreateKind(c)
         \/ \E a \in Adds : AddKind(a)
         \/ \E g \in Gets : GetKind(g)
         \/ Aside
  <1>1. Tick \/ UNCHANGED vars => Aside
    BY DEF Tick, vars, requests, Aside
  <1> QED
    BY <1>1, CreateKinds, AddKinds, GetKinds DEF Next

-----------------------------------------------------------------------------
(* The invariant is inductive.                                              *)

\* Carts stay in the table.
LEMMA CartsStay ==
  ASSUME TypeInv, [Next]_vars, NEW i \in Ids, table[i] # NoCart
  PROVE  table'[i] # NoCart
  <1>1. ASSUME UNCHANGED table PROVE table'[i] # NoCart
    BY <1>1
  <1>2. ASSUME NEW j \in Ids, NEW lines, StoreTo(j, lines) PROVE table'[i] # NoCart
    BY <1>2 DEF StoreTo
  <1>3. ASSUME NEW c \in Creates, CreateKind(c) PROVE table'[i] # NoCart
    BY <1>1, <1>2, <1>3, RecordTypes
    DEF CreateKind, CreateAsked, CreateInserted, CreatePut,
        CreateAgain, CreateAnswered, CreateFailed
  <1>4. ASSUME NEW a \in Adds, AddKind(a) PROVE table'[i] # NoCart
    BY <1>1, <1>2, <1>4, RecordTypes
    DEF AddKind, AddAsked, AddFound, AddMissed, AddInserted, AddAppended, AddAgain,
        AppendTo, AddAnswered, AddFailed
  <1> QED
    BY <1>1, <1>3, <1>4, Kinds DEF GetKind, Aside

\* A cart that a client knows of stays known.
LEMMA KnownStays ==
  ASSUME TypeInv, [Next]_vars, NEW i, Known(i)
  PROVE  Known(i)'
  <1>1. PICK d \in Creates : create[d].id = i /\ create[d].answer = "created"
    BY DEF Known
  <1>2. create[d].pc = "done"
    BY <1>1 DEF TypeInv, CreateOK
  <1>3. ASSUME NEW c \in Creates, CreateKind(c) PROVE create'[d] = create[d]
    BY <1>2, <1>3
    DEF CreateKind, CreateAsked, CreateInserted, CreatePut,
        CreateAgain, CreateAnswered, CreateFailed, CreateTo
  <1>4. create'[d] = create[d]
    BY <1>3, Kinds DEF AddKind, GetKind, Aside
  <1> QED
    BY <1>1, <1>4 DEF Known

LEMMA KnownInTable ==
  ASSUME TypeInv, NEW i, Known(i)
  PROVE  table[i] # NoCart /\ (backend = "mysql" => i # 0)
  <1>1. PICK d \in Creates : create[d].id = i /\ create[d].answer = "created"
    BY DEF Known
  <1>2. i \in Ids /\ table[i] # NoCart
    BY <1>1, RecordTypes DEF TypeInv, CreateOK
  <1> QED
    BY <1>2 DEF TypeInv, CreateOK

LEMMA CreateType ==
  ASSUME TypeInv, [Next]_vars, NEW c \in Creates, CreateKind(c)
  PROVE  CreateOK' /\ create' \in [Creates -> CreateRec]
         /\ nextId' \in 1 .. (Cardinality(Creates) + 1)
  <1>1. /\ create \in [Creates -> CreateRec] /\ create[c].id \in Ids
        /\ backend \in {"mysql", "dynamo"} /\ backend' = backend
        /\ CreateOK /\ nextId \in 1 .. (Cardinality(Creates) + 1)
    BY RecordTypes DEF TypeInv, TypeOK, CreateKind
  <1>2. /\ Cardinality(Creates) \in Nat /\ nextId \in Nat /\ Ids \subseteq Nat
        /\ \A n \in 0 .. Cardinality(Creates) : n \in Ids
    BY <1>1, IdFacts
  <1>3. ASSUME NEW d \in Creates, create'[d] = create[d],
               create[d].pc = "stored" \/ create[d].answer = "created"
        PROVE  table'[create'[d].id] # NoCart
    BY <1>3, CartsStay, RecordTypes DEF TypeInv, CreateOK
  <1>4. CASE CreateAsked(c)
    <2>1. /\ CreateTo(c, "sent", NewId, create[c].answer) /\ create[c].pc = "idle"
          /\ backend = "mysql" => NewId = 0 /\ create[c].id = 0
          /\ UNCHANGED <<table, nextId>>
      BY <1>1, <1>4 DEF CreateAsked, NewId, CreateOK
    <2>2. backend = "mysql" => Numbered' = Numbered
      BY <2>1 DEF CreateTo, Numbered
    <2> QED
      BY <1>1, <2>1, <2>2 DEF CreateOK, CreateTo
  <1>5. CASE CreateInserted(c)
    <2>1. /\ backend = "mysql" /\ create[c].pc = "sent" /\ create[c].id = 0
          /\ CreateTo(c, "stored", nextId, create[c].answer)
          /\ nextId \in Ids /\ nextId' = nextId + 1 /\ StoreTo(nextId, <<>>)
      BY <1>1, <1>5 DEF CreateInserted, CreateOK
    <2>2. Numbered' = Numbered \cup {c} /\ c \notin Numbered
      BY <1>1, <2>1 DEF CreateTo, Numbered
    <2>3. Numbered' \in SUBSET Creates /\ Numbered \in SUBSET Creates
      BY DEF Numbered
    <2>4. /\ IsFiniteSet(Numbered) /\ Cardinality(Numbered') <= Cardinality(Creates)
          /\ Cardinality(Numbered) \in Nat
      BY <2>3, RequestAssumption, FS_Subset, FS_CardinalityType
    <2>5. Cardinality(Numbered') = Cardinality(Numbered) + 1
      BY <2>2, <2>4, FS_AddElement
    <2>6. nextId' = 1 + Cardinality(Numbered') /\ nextId' \in 1 .. (Cardinality(Creates) + 1)
      BY <1>1, <1>2, <2>1, <2>4, <2>5 DEF CreateOK
    <2>7. \A i \in Ids : table'[i] # NoCart <=> i \in 1 .. nextId' - 1
      <3> SUFFICES ASSUME NEW i \in Ids PROVE table'[i] # NoCart <=> i \in 1 .. nextId' - 1
        OBVIOUS
      <3>1. CASE i = nextId
        BY <1>1, <1>2, <2>1, <3>1 DEF StoreTo
      <3>2. CASE i # nextId
        <4>1. table'[i] = table[i] /\ (table[i] # NoCart <=> i \in 1 .. nextId - 1)
          BY <1>1, <2>1, <3>2 DEF StoreTo, CreateOK
        <4> QED
          BY <1>2, <2>1, <3>2, <4>1
      <3> QED
        BY <3>1, <3>2
    <2>8. \A d \in Creates :
            /\ create'[d].pc \in {"idle", "sent"} => create'[d].id = 0
            /\ create'[d].pc = "stored" \/ create'[d].answer = "created" =>
                   table'[create'[d].id] # NoCart
            /\ create'[d].answer = "created" => create'[d].pc = "done"
      <3>1. table'[nextId] # NoCart
        BY <2>1 DEF StoreTo
      <3> QED
        BY <1>1, <1>3, <2>1, <3>1 DEF CreateTo, CreateOK
    <2> QED
      BY <1>1, <2>1, <2>6, <2>7, <2>8 DEF CreateOK, CreateTo
  <1>6. CASE CreatePut(c)
    <2>1. /\ backend = "dynamo" /\ create[c].pc = "sent" /\ nextId' = nextId
          /\ CreateTo(c, "stored", create[c].id, create[c].answer)
          /\ table'[create[c].id] # NoCart
      BY <1>6 DEF CreatePut, StoreTo
    <2> QED
      BY <1>1, <1>3, <2>1 DEF CreateOK, CreateTo
  <1>8. CASE CreateAgain(c)
    <2>1. backend = "dynamo" /\ create' = create /\ nextId' = nextId
      BY <1>8 DEF CreateAgain
    <2> QED
      BY <1>1, <1>3, <2>1 DEF CreateOK
  <1>7. CASE CreateAnswered(c) \/ CreateFailed(c)
    <2>1. PICK x \in {"created", "error"} :
             /\ CreateTo(c, "done", create[c].id, x)
             /\ create[c].pc \in {"sent", "stored"} /\ (x = "created" => create[c].pc = "stored")
             /\ UNCHANGED <<table, nextId>>
      BY <1>7 DEF CreateAnswered, CreateFailed
    <2>2. Numbered' = Numbered
      BY <2>1 DEF CreateTo, Numbered
    <2> QED
      BY <1>1, <2>1, <2>2 DEF CreateOK, CreateTo
  <1> QED
    BY <1>4, <1>5, <1>6, <1>7, <1>8 DEF CreateKind

\* What the invariant says of one addition and of one read.
AddOKOf(a) ==
    /\ add[a].known => Known(add[a].id)
    /\ add[a].pc = "stored" \/ add[a].answer = "added" => table[add[a].id] # NoCart
    /\ backend = "mysql" /\ add[a].pc = "sent" => table[add[a].id] # NoCart
    /\ add[a].pc = "idle" => ~add[a].known /\ add[a].attempt = 1
    /\ add[a].pc # "done" => add[a].answer = "none"

GetOKOf(g) ==
    /\ get[g].pc = "listing" => backend = "mysql" /\ table[get[g].id] # NoCart
    /\ get[g].known => Known(get[g].id)
    /\ get[g].pc # "done" => get[g].answer = "none"

LEMMA AddSame ==
  ASSUME TypeInv, [Next]_vars, backend' = backend, NEW a \in Adds, add'[a] = add[a]
  PROVE  AddOKOf(a)'
  <1>1. AddOKOf(a) /\ add[a].id \in Ids
    BY RecordTypes DEF TypeInv, AddOK, AddOKOf
  <1>2. PICK i \in Ids : i = add[a].id
    BY <1>1
  <1>3. (Known(i) => Known(i)') /\ (table[i] # NoCart => table'[i] # NoCart)
    BY KnownStays, CartsStay
  <1> QED
    BY <1>1, <1>2, <1>3 DEF AddOKOf

LEMMA GetSame ==
  ASSUME TypeInv, [Next]_vars, backend' = backend, NEW g \in Gets, get'[g] = get[g]
  PROVE  GetOKOf(g)'
  <1>1. GetOKOf(g) /\ get[g].id \in Ids
    BY RecordTypes DEF TypeInv, GetOK, GetOKOf
  <1>2. PICK i \in Ids : i = get[g].id
    BY <1>1
  <1>3. (Known(i) => Known(i)') /\ (table[i] # NoCart => table'[i] # NoCart)
    BY KnownStays, CartsStay
  <1> QED
    BY <1>1, <1>2, <1>3 DEF GetOKOf

LEMMA AddType ==
  ASSUME TypeInv, [Next]_vars, NEW a \in Adds, AddKind(a)
  PROVE  AddOK' /\ add' \in [Adds -> AddRec]
  <1>1. /\ backend \in {"mysql", "dynamo"} /\ UNCHANGED <<backend, create>>
        /\ add[a].id \in Ids /\ AddOKOf(a)
    BY RecordTypes DEF TypeInv, AddOK, AddOKOf, AddKind
  <1>2. add' \in [Adds -> AddRec] /\ \A b \in Adds \ {a} : add'[b] = add[b]
    BY DEF AddKind, AddAsked, AddFound, AddMissed, AddInserted, AddAppended, AddAgain,
           AppendTo, AddAnswered,
           AddFailed, AddTo
  <1>3. \A i : Known(i)' <=> Known(i)
    BY <1>1 DEF Known
  <1>4. AddOKOf(a)'
    <2>1. CASE AddAsked(a)
      BY <1>1, <1>3, <2>1 DEF AddAsked, AddOKOf
    <2>2. CASE AddFound(a)
      BY <1>1, <1>3, <2>2 DEF AddFound, AddTo, AddOKOf
    <2>3. CASE AddMissed(a) \/ AddFailed(a)
      BY <1>1, <1>3, <2>3 DEF AddMissed, AddFailed, AddTo, AddOKOf
    <2>4. CASE AddInserted(a) \/ AddAppended(a)
      <3>1. /\ AddTo(a, "stored", add[a].answer) /\ add[a].pc = "sent"
            /\ table'[add[a].id] # NoCart
        BY <2>4 DEF AddInserted, AddAppended, AppendTo, StoreTo
      <3> QED
        BY <1>1, <1>3, <3>1 DEF AddTo, AddOKOf
    <2>5. CASE AddAnswered(a)
      BY <1>1, <1>3, <2>5 DEF AddAnswered, AddTo, AddOKOf
    <2>6. CASE AddAgain(a)
      BY <1>1, <1>3, <2>6 DEF AddAgain, AddOKOf
    <2> QED
      BY <2>1, <2>2, <2>3, <2>4, <2>5, <2>6 DEF AddKind
  <1>5. \A b \in Adds \ {a} : AddOKOf(b)'
    BY <1>1, <1>2, AddSame
  <1> QED
    BY <1>2, <1>4, <1>5 DEF AddOK, AddOKOf

LEMMA GetType ==
  ASSUME TypeInv, [Next]_vars, NEW g \in Gets, GetKind(g)
  PROVE  GetOK' /\ get' \in [Gets -> GetRec]
  <1>1. /\ UNCHANGED <<backend, create, table>> /\ get[g].id \in Ids /\ GetOKOf(g)
    BY RecordTypes DEF TypeInv, GetOK, GetOKOf, GetKind
  <1>2. get' \in [Gets -> GetRec] /\ \A h \in Gets \ {g} : get'[h] = get[h]
    BY DEF GetKind, GetAsked, GetListing, GetListed, GetCut, GetPast, GetMissed, GetFailed, GetTo
  <1>3. \A i : Known(i)' <=> Known(i)
    BY <1>1 DEF Known
  <1>4. GetOKOf(g)'
    <2>1. CASE GetAsked(g)
      BY <1>1, <1>3, <2>1 DEF GetAsked, GetOKOf
    <2>2. CASE GetListing(g)
      BY <1>1, <1>3, <2>2 DEF GetListing, GetTo, GetOKOf
    <2>3. CASE \E x : GetTo(g, "done", x)
      BY <1>1, <1>3, <2>3 DEF GetTo, GetOKOf
    <2> QED
      BY <2>1, <2>2, <2>3 DEF GetKind, GetListed, GetCut, GetPast, GetMissed, GetFailed
  <1>5. \A h \in Gets \ {g} : GetOKOf(h)'
    BY <1>1, <1>2, GetSame
  <1> QED
    BY <1>2, <1>4, <1>5 DEF GetOK, GetOKOf

LEMMA TableType ==
  ASSUME TypeInv, [Next]_vars
  PROVE  /\ TableOK'
         /\ backend = "dynamo" => \A i \in Ids : table'[i] \in past'[i]
         /\ backend = "mysql" => \A i \in Ids : table'[i] # NoCart => Unique(table'[i])
  <1> DEFINE Goal == /\ TableOK'
                     /\ backend = "dynamo" => \A i \in Ids : table'[i] \in past'[i]
                     /\ backend = "mysql" =>
                          \A i \in Ids : table'[i] # NoCart => Unique(table'[i])
  <1>1. /\ TableOK
        /\ backend = "dynamo" => \A i \in Ids : table[i] \in past[i]
        /\ backend = "mysql" => \A i \in Ids : table[i] # NoCart => Unique(table[i])
    BY DEF TypeInv, TypeOK, Unique
  <1>2. CASE UNCHANGED <<table, past>>
    BY <1>1, <1>2 DEF TableOK
  <1>3. ASSUME NEW i \in Ids, NEW lines, StoreTo(i, lines), backend = "mysql" => Unique(lines)
        PROVE  Goal
    BY <1>1, <1>3 DEF StoreTo
  <1>4. Unique(<<>>)
    BY DEF Unique
  <1>5. ASSUME NEW c \in Creates, CreateKind(c) PROVE Goal
    <2> HIDE DEF Goal
    <2>1. CASE UNCHANGED <<table, past>>
      BY <1>2, <2>1 DEF Goal
    <2>2. CASE CreateInserted(c)
      BY <1>3, <1>4, <2>2 DEF CreateInserted
    <2>3. CASE CreatePut(c) \/ CreateAgain(c)
      BY <1>3, <1>4, <2>3, RecordTypes DEF CreatePut, CreateAgain
    <2> QED
      BY <1>5, <2>1, <2>2, <2>3 DEF CreateKind, CreateAsked, CreateAnswered, CreateFailed
  <1>6. ASSUME NEW a \in Adds, AddKind(a) PROVE Goal
    <2> HIDE DEF Goal
    <2>1. CASE UNCHANGED <<table, past>>
      BY <1>2, <2>1 DEF Goal
    <2>2. CASE AddInserted(a)
      <3>1. /\ add[a].id \in Ids /\ add[a].product \in Products /\ add[a].quantity \in Nat
            /\ table[add[a].id] \in Seq(Line) /\ backend = "mysql"
            /\ Unique(table[add[a].id])
        BY <1>1, <2>2, RecordTypes, CartAssumption DEF AddInserted
      <3>2. Unique(Upsert(table[add[a].id], add[a].product, add[a].quantity))
        BY <3>1, UpsertFacts
      <3> QED
        BY <1>3, <2>2, <3>1, <3>2 DEF AddInserted
    <2>3. CASE AddAppended(a) \/ AddAgain(a)
      BY <1>3, <2>3, RecordTypes DEF AddAppended, AddAgain, AppendTo
    <2> QED
      BY <1>6, <2>1, <2>2, <2>3
      DEF AddKind, AddAsked, AddFound, AddMissed, AddAnswered, AddFailed
  <1> QED
    BY <1>2, <1>5, <1>6, Kinds DEF GetKind, Aside

LEMMA ClockAndFailures ==
  ASSUME TypeInv, [Next]_vars
  PROVE  /\ now' \in 1 .. MaxTime
         /\ failures' \in 0 .. MaxFailures /\ failures' >= failures /\ failures \in Nat
  <1>1. /\ now \in 1 .. MaxTime /\ failures \in 0 .. MaxFailures
        /\ MaxTime \in Nat /\ MaxFailures \in Nat
    BY CartAssumption DEF TypeInv, TypeOK
  <1>2. ASSUME NEW c \in Creates,
               \/ CreateCart(c) \/ InsertCart(c) \/ PutCart(c) \/ PutRepeated(c)
               \/ CreateReturns(c) \/ CreateFails(c)
        PROVE  now' = now /\ (failures' = failures \/ Fails)
    BY <1>2 DEF CreateCart, InsertCart, PutCart, PutRepeated, CreateReturns, CreateFails
  <1>3. ASSUME NEW a \in Adds,
               \/ \E i \in Ids : AddItems(a, i)
               \/ CheckCart(a) \/ CheckFails(a) \/ InsertItem(a)
               \/ AppendItem(a) \/ AppendRepeated(a) \/ AddReturns(a) \/ AddFails(a)
        PROVE  now' = now /\ (failures' = failures \/ Fails)
    BY <1>3
    DEF AddItems, CheckCart, CheckFails, InsertItem, AppendItem, AppendRepeated, AddReturns,
        AddFails
  <1>4. ASSUME NEW g \in Gets,
               \/ \E i \in Ids : GetCart(g, i)
               \/ ReadRow(g) \/ ReadItems(g) \/ ReadItemsCut(g) \/ ReadItem(g) \/ GetFails(g)
        PROVE  now' = now /\ (failures' = failures \/ Fails)
    BY <1>4 DEF GetCart, ReadRow, ReadItems, ReadItemsCut, ReadItem, GetFails, Unread
  <1>5. CASE Tick
    BY <1>1, <1>5 DEF Tick
  <1>6. CASE UNCHANGED vars
    BY <1>1, <1>6 DEF vars
  <1>7. now' = now /\ (failures' = failures \/ Fails) =>
           /\ now' \in 1 .. MaxTime
           /\ failures' \in 0 .. MaxFailures /\ failures' >= failures /\ failures \in Nat
    BY <1>1 DEF Fails
  <1> QED
    BY <1>2, <1>3, <1>4, <1>5, <1>6, <1>7 DEF Next

LEMMA TypeStep ==
  ASSUME TypeInv, [Next]_vars
  PROVE  TypeInv'
  <1>1. backend' = backend
    BY Kinds DEF CreateKind, AddKind, GetKind, Aside
  <1>2. /\ TypeOK /\ CreateOK /\ AddOK /\ GetOK /\ backend \in {"mysql", "dynamo"}
    BY DEF TypeInv, TypeOK
  <1>3. CASE \E c \in Creates : CreateKind(c)
    <2>1. CreateOK' /\ create' \in [Creates -> CreateRec]
          /\ nextId' \in 1 .. (Cardinality(Creates) + 1)
      BY <1>3, CreateType
    <2>2. UNCHANGED <<add, get>>
      BY <1>3 DEF CreateKind
    <2>3. AddOK' /\ GetOK'
      BY <1>1, <2>2, AddSame, GetSame DEF AddOK, GetOK, AddOKOf, GetOKOf
    <2> QED
      BY <1>1, <1>2, <2>1, <2>2, <2>3, TableType, ClockAndFailures
      DEF TypeInv, TypeOK, TableOK, Unique
  <1>4. ASSUME UNCHANGED <<create, nextId>> PROVE CreateOK'
    <2>1. Numbered' = Numbered
      BY <1>4 DEF Numbered
    <2>2. backend = "mysql" => \A i \in Ids : table'[i] # NoCart <=> table[i] # NoCart
      <3>1. ASSUME UNCHANGED table PROVE \A i \in Ids : table'[i] # NoCart <=> table[i] # NoCart
        BY <3>1
      <3>2. ASSUME NEW a \in Adds, AddInserted(a)
            PROVE  \A i \in Ids : table'[i] # NoCart <=> table[i] # NoCart
        BY <3>2, RecordTypes, CartAssumption DEF AddInserted, StoreTo
      <3>3. ASSUME NEW c \in Creates, CreateKind(c), backend = "mysql"
            PROVE  UNCHANGED table
        BY <1>2, <1>4, <3>3
        DEF CreateKind, CreateAsked, CreateInserted, CreatePut,
            CreateAgain, CreateAnswered, CreateFailed,
            TypeOK
      <3> QED
        BY <3>1, <3>2, <3>3, Kinds
        DEF AddKind, AddAsked, AddFound, AddMissed, AddAppended, AddAgain, AddAnswered,
            AddFailed, GetKind, Aside
    <2>3. \A c \in Creates : table[create[c].id] # NoCart => table'[create[c].id] # NoCart
      BY CartsStay, RecordTypes
    <2> QED
      BY <1>1, <1>2, <1>4, <2>1, <2>2, <2>3 DEF CreateOK
  <1>5. CASE \E a \in Adds : AddKind(a)
    <2>1. AddOK' /\ add' \in [Adds -> AddRec]
      BY <1>5, AddType
    <2>2. UNCHANGED <<create, nextId, get>>
      BY <1>5 DEF AddKind
    <2>3. CreateOK' /\ GetOK'
      BY <1>1, <1>4, <2>2, GetSame DEF GetOK, GetOKOf
    <2> QED
      BY <1>1, <1>2, <2>1, <2>2, <2>3, TableType, ClockAndFailures
      DEF TypeInv, TypeOK, TableOK, Unique
  <1>6. CASE \E g \in Gets : GetKind(g)
    <2>1. GetOK' /\ get' \in [Gets -> GetRec]
      BY <1>6, GetType
    <2>2. UNCHANGED <<create, nextId, add>>
      BY <1>6 DEF GetKind
    <2>3. CreateOK' /\ AddOK'
      BY <1>1, <1>4, <2>2, AddSame DEF AddOK, AddOKOf
    <2> QED
      BY <1>1, <1>2, <2>1, <2>2, <2>3, TableType, ClockAndFailures
      DEF TypeInv, TypeOK, TableOK, Unique
  <1>7. CASE Aside
    <2>1. UNCHANGED <<create, nextId, add, get>>
      BY <1>7 DEF Aside
    <2>2. CreateOK' /\ AddOK' /\ GetOK'
      BY <1>1, <1>4, <2>1, AddSame, GetSame DEF AddOK, GetOK, AddOKOf, GetOKOf
    <2> QED
      BY <1>1, <1>2, <2>1, <2>2, TableType, ClockAndFailures
      DEF TypeInv, TypeOK, TableOK, Unique
  <1> QED
    BY <1>3, <1>5, <1>6, <1>7, Kinds

\* Every value in the table has its type, a product has one line in a MySQL cart,
\* no identifier runs out: with the invariant, what InsertItem and CreateCart of
\* HW8/main.go rely on.
THEOREM TypeCorrect == Spec => []TypeOK
  <1>1. Init => TypeInv
    BY TypeInit
  <1>2. TypeInv /\ [Next]_vars => TypeInv'
    BY TypeStep
  <1>3. TypeInv => TypeOK
    BY DEF TypeInv
  <1> QED
    BY <1>1, <1>2, <1>3, PTL DEF Spec

LEMMA TypeInvHolds == Spec => []TypeInv
  BY TypeInit, TypeStep, PTL DEF Spec

-----------------------------------------------------------------------------
(* How an addition, and the set of creates of an identifier, may change.    *)

Applying(a) == add[a].pc = "stored" \/ add[a].answer = "added"
Trying(a) == add[a].pc = "stored" \/ add[a].answer \in {"added", "error"}

AddEvolved(a) ==
    /\ add'[a].product = add[a].product /\ add'[a].quantity = add[a].quantity
    /\ add[a].pc # "idle" => /\ add'[a].id = add[a].id /\ add'[a].known = add[a].known
                             /\ add'[a].pc # "idle"
    /\ add[a].attempt \in Nat /\ add'[a].attempt \in Nat /\ add'[a].attempt >= add[a].attempt
    /\ add[a].pc = "idle" => add[a].attempt = 1
    /\ Trying(a) => add[a].pc # "idle" /\ Trying(a)' /\ add'[a].attempt = add[a].attempt
    /\ add[a].answer = "added" => add'[a] = add[a]
    /\ Applying(a)' => /\ add'[a].attempt = add[a].attempt
                       /\ Applying(a) \/ AddInserted(a) \/ AddAppended(a)

LEMMA AddEvolves ==
  ASSUME TypeInv, [Next]_vars, NEW a \in Adds
  PROVE  AddEvolved(a)
  <1> USE DEF AddEvolved, Trying, Applying
  <1>1. AddOKOf(a) /\ add[a] \in AddRec /\ add[a].attempt \in Nat
    BY RecordTypes DEF TypeInv, AddOK, AddOKOf
  <1>2. CASE add'[a] = add[a]
    BY <1>1, <1>2 DEF AddOKOf
  <1>3. CASE AddAsked(a)
    BY <1>1, <1>3 DEF AddAsked, AddOKOf
  <1>4. CASE AddFound(a) \/ AddMissed(a)
    <2>1. PICK pc, x : /\ pc \in {"sent", "done"} /\ x # "added"
                           /\ AddTo(a, pc, x) /\ add[a].pc = "checking"
      <3>1. add[a].pc = "checking" /\ add[a].answer # "added"
        BY <1>1, <1>4 DEF AddFound, AddMissed, AddOKOf
      <3> QED
        BY <1>4, <3>1 DEF AddFound, AddMissed
    <2> QED
      BY <1>1, <2>1 DEF AddTo, AddOKOf
  <1>5. CASE AddInserted(a) \/ AddAppended(a)
    <2>1. AddTo(a, "stored", add[a].answer) /\ add[a].pc = "sent"
      BY <1>5 DEF AddInserted, AddAppended
    <2> QED
      BY <1>1, <1>5, <2>1 DEF AddTo, AddOKOf
  <1>6. CASE AddAgain(a)
    BY <1>1, <1>6 DEF AddAgain, AddOKOf
  <1>7. CASE AddAnswered(a) \/ AddFailed(a)
    <2>1. PICK x \in {"added", "error"} :
             /\ AddTo(a, "done", x) /\ add[a].pc \in {"sent", "stored"}
             /\ x = "added" => add[a].pc = "stored"
      BY <1>7 DEF AddAnswered, AddFailed
    <2> QED
      BY <1>1, <2>1 DEF AddTo, AddOKOf
  <1>8. ASSUME NEW b \in Adds, AddKind(b), b # a PROVE add'[a] = add[a]
    BY <1>8 DEF AddKind, AddAsked, AddFound, AddMissed, AddInserted, AddAppended, AddAgain,
                AddAnswered, AddFailed, AddTo
  <1> HIDE DEF AddEvolved, Trying, Applying
  <1>9. ASSUME AddKind(a) PROVE AddEvolved(a)
    BY <1>3, <1>4, <1>5, <1>6, <1>7, <1>9 DEF AddKind
  <1>10. ASSUME NEW b \in Adds, AddKind(b) PROVE AddEvolved(a)
    BY <1>2, <1>8, <1>9, <1>10
  <1>11. UNCHANGED add => AddEvolved(a)
    BY <1>2
  <1> QED
    BY <1>10, <1>11, Kinds DEF CreateKind, GetKind, Aside

\* The creates that took identifier i.
Takers(i) == {c \in Creates : create[c].pc # "idle" /\ create[c].id = i}

LEMMA SoleStays ==
  ASSUME TypeInv, [Next]_vars, NEW i \in Ids, backend = "mysql" => i # 0, Sole(i)'
  PROVE  Sole(i)
  <1>1. ASSUME NEW c \in Takers(i) PROVE c \in Takers(i)'
    <2>1. c \in Creates /\ create[c].pc # "idle" /\ create[c].id = i
      BY DEF Takers
    <2>2. ASSUME create'[c] = create[c] PROVE c \in Takers(i)'
      BY <2>1, <2>2 DEF Takers
    <2>3. CASE CreateInserted(c)
      <3>1. create[c].id = 0
        BY <2>1, <2>3 DEF CreateInserted, TypeInv, CreateOK
      <3> QED
        BY <2>1, <2>3, <3>1 DEF CreateInserted
    <2>4. CASE CreatePut(c) \/ CreateAgain(c) \/ CreateAnswered(c) \/ CreateFailed(c)
      BY <2>1, <2>2, <2>4
      DEF CreatePut, CreateAgain, CreateAnswered, CreateFailed, CreateTo, Takers
    <2>5. ASSUME NEW d \in Creates, CreateKind(d), d # c PROVE create'[c] = create[c]
      BY <2>1, <2>5
      DEF CreateKind, CreateAsked, CreateInserted, CreatePut,
          CreateAgain, CreateAnswered, CreateFailed,
          CreateTo
    <2>6. ASSUME CreateKind(c) PROVE c \in Takers(i)'
      BY <2>1, <2>3, <2>4, <2>6 DEF CreateKind, CreateAsked
    <2> QED
      BY <2>2, <2>5, <2>6, Kinds DEF AddKind, GetKind, Aside
  <1>2. PICK S, T : S = Takers(i) /\ T = Takers(i)'
    OBVIOUS
  <1>3. S \in SUBSET T /\ T \in SUBSET Creates
    BY <1>1, <1>2 DEF Takers
  <1>4. /\ IsFiniteSet(T) /\ IsFiniteSet(S) /\ Cardinality(S) <= Cardinality(T)
        /\ Cardinality(S) \in Nat /\ Cardinality(T) \in Nat
    BY <1>3, RequestAssumption, FS_Subset, FS_CardinalityType
  <1>5. Cardinality(T) <= 1
    BY <1>2 DEF Sole, Takers
  <1>6. Cardinality(S) <= 1
    BY <1>4, <1>5
  <1> QED
    BY <1>2, <1>6 DEF Sole, Takers

LEMMA TwoTakers ==
  ASSUME TypeInv, NEW i, NEW c \in Takers(i), NEW d \in Takers(i), c # d
  PROVE  ~Sole(i)
  <1>1. Takers(i) \in SUBSET Creates /\ {c, d} \in SUBSET Takers(i)
    BY DEF Takers
  <1>2. IsFiniteSet(Takers(i)) /\ Cardinality({c, d}) <= Cardinality(Takers(i))
    BY <1>1, RequestAssumption, FS_Subset
  <1>3. IsFiniteSet({c}) /\ Cardinality({c}) = 1
    BY FS_Singleton
  <1>4. Cardinality({c} \cup {d}) = 2
    BY <1>3, FS_AddElement
  <1>5. {c} \cup {d} = {c, d}
    OBVIOUS
  <1>6. Cardinality(Takers(i)) \in Nat /\ Cardinality(Takers(i)) >= 2
    BY <1>2, <1>4, <1>5, FS_CardinalityType
  <1>7. Takers(i) = {e \in Creates : create[e].pc # "idle" /\ create[e].id = i}
    BY DEF Takers
  <1> QED
    BY <1>6, <1>7 DEF Sole

\* The quantities of the calls, which no step changes.
Asked == [c \in Calls |-> add[c[1]].quantity]

LEMMA CallFacts ==
  /\ IsFiniteSet(Calls)
  /\ \A c \in Calls : c[1] \in Adds /\ c[2] \in 1 .. MaxAttempts /\ c = <<c[1], c[2]>>
  /\ \A a \in Adds, n \in 1 .. MaxAttempts : <<a, n>> \in Calls
  <1>1. IsFiniteSet(1 .. MaxAttempts)
    BY FS_Interval, CartAssumption
  <1>2. IsFiniteSet(Adds \X (1 .. MaxAttempts))
    BY <1>1, RequestAssumption, FS_Product
  <1> QED
    BY <1>2 DEF Calls

LEMMA AskedFacts ==
  ASSUME TypeInv
  PROVE  /\ \A A \in SUBSET Calls : IsFiniteSet(A) /\ \A c \in A : Asked[c] \in Nat
         /\ \A A : Sum(A) = SumOver(Asked, A)
  <1>1. ASSUME NEW A \in SUBSET Calls
        PROVE  IsFiniteSet(A) /\ \A c \in A : Asked[c] \in Nat
    <2>1. IsFiniteSet(A)
      BY CallFacts, FS_Subset
    <2> QED
      BY <2>1, CallFacts, RecordTypes DEF Asked
  <1> QED
    BY <1>1 DEF Sum, Asked

LEMMA AskedStays ==
  ASSUME TypeInv, [Next]_vars
  PROVE  Asked' = Asked /\ \A A : Sum(A)' = Sum(A)
  <1>1. \A c \in Calls : add'[c[1]].quantity = add[c[1]].quantity
    BY AddEvolves, CallFacts DEF AddEvolved
  <1> QED
    BY <1>1 DEF Asked, Sum, Calls

LEMMA SumGrows ==
  ASSUME TypeInv, NEW B \in SUBSET Calls, NEW A \in SUBSET B
  PROVE  Sum(A) <= Sum(B) /\ Sum(A) \in Nat /\ Sum(B) \in Nat
  <1>1. PICK f : f = Asked
    OBVIOUS
  <1>2. IsFiniteSet(B) /\ (\A a \in B : f[a] \in Nat) /\ IsFiniteSet(A)
    BY <1>1, AskedFacts
  <1>3. SumOver(f, A) <= SumOver(f, B) /\ SumOver(f, A) \in Nat /\ SumOver(f, B) \in Nat
    BY <1>2, SumSubset, SumType
  <1> QED
    BY <1>1, <1>3, AskedFacts

-----------------------------------------------------------------------------
(* The totals: what a cart holds of a product is the sum of a set of calls,  *)
(* of those that took effect or may have.                                    *)

Applied(i, p) == {c \in Requested(i, p) : Latest(c) /\ Applying(c[1])}
Owed(i, p) == {c \in Applied(i, p) : add[c[1]].known}

Holds(i, p, lines, A) ==
    /\ A \in SUBSET Possible(i, p) /\ QuantityOf(lines, p) = Sum(A)
    /\ backend = "mysql" => Applied(i, p) \subseteq A
    /\ Sole(i) => Owed(i, p) \subseteq A

TotalOK(i, p) == table[i] # NoCart => \E A : Holds(i, p, table[i], A)

TotalsOK == \A i \in Ids, p \in Products : TotalOK(i, p)

LEMMA PossibleFacts ==
  ASSUME NEW i, NEW p
  PROVE  /\ Possible(i, p) \in SUBSET Calls /\ Applied(i, p) \in SUBSET Calls
         /\ \A c : c \in Possible(i, p) <=> /\ c \in Calls
                                            /\ add[c[1]].id = i /\ add[c[1]].product = p
                                            /\ c[2] <= add[c[1]].attempt
                                            /\ ~Latest(c) \/ Trying(c[1])
  BY DEF Possible, Applied, Requested, Trying

LEMMA PossibleGrows ==
  ASSUME TypeInv, [Next]_vars, NEW i, NEW p
  PROVE  Possible(i, p) \subseteq Possible(i, p)'
  <1> SUFFICES ASSUME NEW c \in Possible(i, p) PROVE c \in Possible(i, p)'
    OBVIOUS
  <1>1. /\ c \in Calls /\ add[c[1]].id = i /\ add[c[1]].product = p
        /\ c[2] <= add[c[1]].attempt /\ (~Latest(c) \/ Trying(c[1]))
    BY PossibleFacts
  <1>2. AddEvolved(c[1]) /\ c[2] \in Nat /\ c[2] >= 1
    BY <1>1, AddEvolves, CallFacts
  <1>3. add[c[1]].pc # "idle"
    BY <1>1, <1>2 DEF AddEvolved, Latest
  <1>4. ~(c[2] = add'[c[1]].attempt) \/ Trying(c[1])'
    BY <1>1, <1>2 DEF AddEvolved, Latest
  <1>5. add'[c[1]].id = i /\ add'[c[1]].product = p
    BY <1>1, <1>2, <1>3 DEF AddEvolved
  <1>6. c[2] <= add'[c[1]].attempt
    <2>1. PICK m, n : m = add[c[1]].attempt /\ n = add'[c[1]].attempt
      OBVIOUS
    <2>2. m \in Nat /\ n \in Nat /\ m <= n
      BY <1>2, <2>1 DEF AddEvolved
    <2> QED
      BY <1>1, <1>2, <2>1, <2>2
  <1> QED
    BY <1>1, <1>4, <1>5, <1>6 DEF Possible, Requested, Latest, Trying

\* What is applied to a cart was applied before, or is applied by this step.
LEMMA AppliedBefore ==
  ASSUME TypeInv, [Next]_vars, NEW i, NEW p, NEW c \in Applied(i, p)'
  PROVE  /\ c \in Calls /\ c[1] \in Adds /\ c[2] = add[c[1]].attempt
         /\ add[c[1]].id = i /\ add[c[1]].product = p
         /\ \/ c \in Applied(i, p) /\ (c \in Owed(i, p)' => c \in Owed(i, p))
            \/ AddInserted(c[1]) \/ AddAppended(c[1])
  <1>1. /\ c \in Calls /\ add'[c[1]].id = i /\ add'[c[1]].product = p /\ Applying(c[1])'
        /\ c[2] = add'[c[1]].attempt
    BY DEF Applied, Requested, Latest
  <1>2. /\ c[1] \in Adds /\ AddEvolved(c[1]) /\ AddOKOf(c[1])
        /\ backend \in {"mysql", "dynamo"}
    BY <1>1, AddEvolves, CallFacts, RecordTypes DEF TypeInv, AddOK, AddOKOf
  <1>3. c[2] = add[c[1]].attempt
    BY <1>1, <1>2 DEF AddEvolved, Applying
  <1>4. CASE AddInserted(c[1]) \/ AddAppended(c[1])
    <2>1. AddTo(c[1], "stored", add[c[1]].answer)
      BY <1>4 DEF AddInserted, AddAppended
    <2> QED
      BY <1>1, <1>2, <1>3, <1>4, <2>1 DEF AddTo
  <1>5. CASE Applying(c[1])
    <2>1. add[c[1]].pc # "idle"
      BY <1>2, <1>5 DEF AddOKOf, Applying
    <2>2. /\ add[c[1]].id = i /\ add[c[1]].product = p
          /\ add'[c[1]].known => add[c[1]].known
      BY <1>1, <1>2, <2>1 DEF AddEvolved
    <2>3. c \in Requested(i, p) /\ Latest(c)
      BY <1>1, <1>2, <1>3, <2>2 DEF Requested, Latest, AddEvolved
    <2> QED
      BY <1>1, <1>2, <1>3, <1>5, <2>2, <2>3 DEF Applied, Owed
  <1> QED
    BY <1>1, <1>2, <1>4, <1>5 DEF AddEvolved

LEMMA TotalStep ==
  ASSUME TypeInv, [Next]_vars, NEW i \in Ids, NEW p \in Products, TotalOK(i, p)
  PROVE  TotalOK(i, p)'
  <1> USE DEF Holds
  <1>1. /\ backend' = backend /\ backend \in {"mysql", "dynamo"}
        /\ (backend = "mysql" => table[0] = NoCart)
        /\ (backend = "mysql" => table'[0] = NoCart)
    <2>1. TypeInv' /\ backend' = backend
      BY TypeStep, Kinds DEF CreateKind, AddKind, GetKind, Aside
    <2>2. 0 \in Ids
      BY IdFacts
    <2> QED
      BY <2>1, <2>2, RecordTypes DEF TypeInv, CreateOK
  <1>2. ASSUME table'[i] # NoCart, Sole(i)' PROVE Sole(i)
    BY <1>1, <1>2, SoleStays
  <1>3. \A A : Sum(A)' = Sum(A)
    BY AskedStays
  <1>4. ASSUME table'[i] = table[i],
               \A a \in Adds : add[a].id = i => ~AddInserted(a) /\ ~AddAppended(a)
        PROVE  TotalOK(i, p)'
    <2>1. Applied(i, p)' \subseteq Applied(i, p) /\ Owed(i, p)' \subseteq Owed(i, p)
      <3>1. Owed(i, p)' \subseteq Applied(i, p)'
        BY DEF Owed
      <3> QED
        BY <1>4, <3>1, AppliedBefore
    <2>2. CASE table[i] = NoCart
      BY <1>4, <2>2 DEF TotalOK
    <2>3. CASE table[i] # NoCart
      <3>1. PICK A : Holds(i, p, table[i], A)
        BY <2>3 DEF TotalOK
      <3>2. QuantityOf(table'[i], p) = QuantityOf(table[i], p)
        BY <1>4
      <3>3. A \in SUBSET Possible(i, p)' /\ Sum(A)' = QuantityOf(table'[i], p)
        BY <1>3, <3>1, <3>2, PossibleGrows
      <3>4. Holds(i, p, table[i], A)'
        BY <1>1, <1>2, <1>4, <2>1, <2>3, <3>1, <3>3
      <3> QED
        BY <3>4 DEF TotalOK
    <2> QED
      BY <2>2, <2>3
  <1>5. ASSUME NEW c \in Creates, CreateInserted(c) \/ CreatePut(c) \/ CreateAgain(c),
               table'[i] = <<>>, create'[c].id = i, create[c].pc = "sent", UNCHANGED add
        PROVE  TotalOK(i, p)'
    <2>1. {} \in SUBSET Possible(i, p)' /\ QuantityOf(table'[i], p) = Sum({})'
      BY <1>5, QuantityEmpty, SumEmpty DEF Sum
    <2>2. CASE CreateInserted(c)
      <3>1. backend = "mysql" /\ i = nextId
        BY <1>5, <2>2 DEF CreateInserted, CreateTo
      <3>2. table[i] = NoCart
        BY <3>1 DEF TypeInv, CreateOK, TypeOK
      <3>3. Applied(i, p)' = {} /\ Owed(i, p)' = {}
        BY <1>5, <3>2, CallFacts DEF Applied, Owed, Requested, Applying, TypeInv, AddOK
      <3>4. Holds(i, p, table[i], {})'
        BY <2>1, <3>3
      <3> QED
        BY <3>4 DEF TotalOK
    <2>3. CASE CreatePut(c) \/ CreateAgain(c)
      <3>1. backend = "dynamo" /\ create[c].id = i
        BY <1>5, <2>3 DEF CreatePut, CreateAgain, CreateTo
      <3>2. ASSUME NEW b \in Owed(i, p)', Sole(i)' PROVE FALSE
        <4> DEFINE a == b[1]
        <4>1. a \in Adds /\ add[a].known /\ add[a].id = i
          BY <1>5, CallFacts DEF Owed, Applied, Requested
        <4> HIDE DEF a
        <4>2. PICK d \in Creates : create[d].id = i /\ create[d].answer = "created"
          BY <4>1 DEF TypeInv, AddOK, Known
        <4>3. create[d].pc = "done"
          BY <4>2 DEF TypeInv, CreateOK
        <4>4. c \in Takers(i) /\ d \in Takers(i) /\ c # d
          BY <1>5, <3>1, <4>2, <4>3 DEF Takers
        <4>5. Sole(i)
          BY <3>1, <3>2, <1>1, SoleStays
        <4> QED
          BY <4>4, <4>5, TwoTakers
      <3>3. Holds(i, p, table[i], {})'
        BY <1>1, <2>1, <3>1, <3>2
      <3> QED
        BY <3>3 DEF TotalOK
    <2> QED
      BY <1>5, <2>2, <2>3
  <1>6. ASSUME NEW a \in Adds, add[a].id = i, Storing(a)
        PROVE  TotalOK(i, p)'
    <2> DEFINE q == IF p = add[a].product THEN add[a].quantity ELSE 0
               n == add[a].attempt
    <2>1. /\ add[a].pc = "sent" /\ add'[a].id = i /\ add'[a].product = add[a].product
          /\ \/ add'[a].pc = "stored" /\ add'[a].attempt = n
             \/ add'[a].attempt = n + 1
          /\ \A b \in Adds \ {a} : add'[b] = add[b]
          /\ add[a].product \in Products /\ add[a].quantity \in Nat
          /\ n \in 1 .. MaxAttempts /\ n \in Nat
      BY <1>6, RecordTypes, CartAssumption DEF Storing, AddInserted, AddAppended, AddAgain, AddTo
    <2>2. PICK old \in Seq(Line) :
             /\ \/ table[i] = NoCart /\ old = <<>> /\ backend = "dynamo"
                \/ table[i] # NoCart /\ old = table[i]
             /\ QuantityOf(table'[i], p) = QuantityOf(old, p) + q
      <3>1. CASE AddInserted(a)
        <4>1. /\ table[i] \in Seq(Line) /\ table[i] # NoCart /\ Unique(table[i])
              /\ table'[i] = Upsert(table[i], add[a].product, add[a].quantity)
          BY <1>6, <3>1, CartAssumption DEF AddInserted, StoreTo, TypeInv, TypeOK, Unique
        <4>2. QuantityOf(table'[i], p) = QuantityOf(table[i], p) + q
          <5>1. PICK old, u, m : old = table[i] /\ u = add[a].product /\ m = add[a].quantity
            OBVIOUS
          <5>2. old \in Seq(Line) /\ Unique(old) /\ u \in Products /\ m \in Nat
            BY <2>1, <4>1, <5>1
          <5>3. \A r : QuantityOf(Upsert(old, u, m), r) =
                          QuantityOf(old, r) + (IF r = u THEN m ELSE 0)
            BY <5>2, UpsertFacts
          <5>4. QuantityOf(Upsert(old, u, m), p) =
                  QuantityOf(old, p) + (IF p = u THEN m ELSE 0)
            BY <5>3
          <5> QED
            BY <4>1, <5>1, <5>4
        <4> QED
          BY <4>1, <4>2
      <3>2. CASE AddAppended(a) \/ AddAgain(a)
        <4>1. AppendTo(a) /\ backend = "dynamo"
          BY <3>2 DEF AddAppended, AddAgain
        <4>2. PICK old \in Seq(Line) :
                /\ \/ table[i] = NoCart /\ old = <<>>
                   \/ table[i] # NoCart /\ old = table[i]
                /\ table'[i] = Append(old, [product |-> add[a].product,
                                            quantity |-> add[a].quantity])
          BY <1>6, <4>1 DEF AppendTo, StoreTo
        <4> QED
          BY <2>1, <4>1, <4>2, QuantityAppend
      <3> QED
        BY <1>6, <3>1, <3>2 DEF Storing
    <2>3. PICK A : Holds(i, p, old, A)
      <3>1. CASE table[i] # NoCart
        BY <2>2, <3>1 DEF TotalOK
      <3>2. CASE table[i] = NoCart
        <4>1. old = <<>> /\ backend = "dynamo"
          BY <2>2, <3>2
        <4>2. Applied(i, p) = {} /\ Owed(i, p) = {}
          BY <3>2, CallFacts DEF Applied, Owed, Requested, Applying, TypeInv, AddOK
        <4>3. QuantityOf(<<>>, p) = Sum({})
          BY QuantityEmpty, SumEmpty DEF Sum
        <4>4. Holds(i, p, old, {})
          BY <4>1, <4>2, <4>3
        <4> QED
          BY <4>4
      <3> QED
        BY <3>1, <3>2
    <2>4. PICK c : c = <<a, n>>
      OBVIOUS
    <2>5. /\ c \in Calls /\ c[1] = a /\ c[2] = n
      BY <2>1, <2>4, CallFacts
    <2>6. A \in SUBSET Calls /\ A \in SUBSET Possible(i, p)'
      BY <2>3, PossibleFacts, PossibleGrows
    <2>7. c \notin A
      <3>1. add[a].answer = "none" /\ add[a].pc = "sent"
        BY <2>1 DEF TypeInv, AddOK
      <3>2. Latest(c) /\ ~Trying(a)
        BY <2>5, <3>1 DEF Latest, Trying
      <3> QED
        BY <2>3, <2>5, <3>2, PossibleFacts
    <2>8. p = add[a].product => c \in Possible(i, p)'
      <3>1. n <= add'[a].attempt /\ (n # add'[a].attempt \/ add'[a].pc = "stored")
        BY <2>1
      <3> QED
        BY <2>1, <2>5, <3>1 DEF Possible, Requested, Latest
    <2>9. \A b \in Applied(i, p)' : b = c \/ (b \in Applied(i, p)
                                              /\ (b \in Owed(i, p)' => b \in Owed(i, p)))
      <3> SUFFICES ASSUME NEW b \in Applied(i, p)', b # c
                   PROVE  b \in Applied(i, p) /\ (b \in Owed(i, p)' => b \in Owed(i, p))
        OBVIOUS
      <3>1. b \in Calls /\ b[1] \in Adds /\ b[2] = add[b[1]].attempt
        BY AppliedBefore
      <3>2. b = <<b[1], b[2]>>
        BY <3>1, CallFacts
      <3>3. b[1] # a
        BY <2>4, <3>1, <3>2
      <3>4. add'[b[1]] = add[b[1]]
        BY <2>1, <3>1, <3>3
      <3>5. ~AddInserted(b[1]) /\ ~AddAppended(b[1])
        BY <3>4 DEF AddInserted, AddAppended, AddTo
      <3> QED
        BY <3>5, AppliedBefore
    <2>10. \A b \in Applied(i, p)' : p # add[a].product => b # c
      BY <2>5, AppliedBefore
    <2> DEFINE B == IF p = add[a].product THEN A \cup {c} ELSE A
    <2>11. PICK C : C = B
      OBVIOUS
    <2>12. Sum(C) = Sum(A) + q
      <3>1. PICK f : f = Asked
        OBVIOUS
      <3>2. /\ \A X : Sum(X) = SumOver(f, X)
            /\ IsFiniteSet(A) /\ (\A x \in A \cup {c} : f[x] \in Nat)
            /\ f[c] = add[a].quantity
        BY <2>1, <2>5, <2>6, <3>1, AskedFacts DEF Asked
      <3>3. CASE p = add[a].product
        <4>1. SumOver(f, A \cup {c}) = SumOver(f, A) + f[c]
          BY <2>7, <3>2, SumAdd
        <4> QED
          BY <2>11, <3>2, <3>3, <4>1
      <3>4. CASE p # add[a].product
        <4>1. Sum(A) \in Nat
          BY <2>6, SumGrows
        <4> QED
          BY <2>11, <3>4, <4>1
      <3> QED
        BY <3>3, <3>4
    <2>13. Sum(C)' = QuantityOf(table'[i], p)
      BY <1>3, <2>2, <2>3, <2>12
    <2>14. C \in SUBSET Possible(i, p)' /\ A \subseteq C
      BY <2>6, <2>8, <2>11
    <2>15. \A b \in Applied(i, p)' : b \in C \/ (b \in Applied(i, p)
                                                 /\ (b \in Owed(i, p)' => b \in Owed(i, p)))
      BY <2>9, <2>10, <2>11
    <2>16. Owed(i, p)' \subseteq Applied(i, p)'
      BY DEF Owed
    <2>17. (backend = "mysql" => Applied(i, p)' \subseteq C)
      BY <2>3, <2>14, <2>15
    <2>18. ASSUME table'[i] # NoCart, Sole(i)' PROVE Owed(i, p)' \subseteq C
      <3>1. Owed(i, p) \subseteq A
        BY <1>2, <2>3, <2>18
      <3> QED
        BY <2>14, <2>15, <2>16, <3>1
    <2>19. table'[i] # NoCart => Holds(i, p, table[i], C)'
      BY <1>1, <2>13, <2>14, <2>17, <2>18
    <2> QED
      BY <2>19 DEF TotalOK
  <1>7. ASSUME NEW c \in Creates, CreateKind(c) PROVE TotalOK(i, p)'
    <2>1. \A a \in Adds : ~AddInserted(a) /\ ~AddAppended(a)
      <3>1. UNCHANGED add
        BY <1>7 DEF CreateKind
      <3> QED
        BY <3>1 DEF AddInserted, AddAppended, AddTo
    <2>2. CASE table'[i] = table[i]
      BY <1>4, <2>1, <2>2
    <2>3. CASE table'[i] # table[i]
      <3>1. PICK j \in Ids : /\ CreateInserted(c) \/ CreatePut(c) \/ CreateAgain(c)
                             /\ StoreTo(j, <<>>) /\ create'[c].id = j /\ create[c].pc = "sent"
        BY <1>7, <2>3, RecordTypes
        DEF CreateKind, CreateAsked, CreateInserted, CreatePut,
            CreateAgain, CreateAnswered, CreateFailed, CreateTo
      <3>2. i = j
        BY <2>3, <3>1 DEF StoreTo
      <3> QED
        BY <1>5, <1>7, <3>1, <3>2 DEF CreateKind, StoreTo
    <2> QED
      BY <2>2, <2>3
  <1>8. ASSUME NEW a \in Adds, AddKind(a) PROVE TotalOK(i, p)'
    <2>1. CASE add[a].id = i /\ Storing(a)
      BY <1>6, <2>1
    <2>2. CASE ~(add[a].id = i /\ Storing(a))
      <3>1. table'[i] = table[i]
        BY <1>8, <2>2
        DEF AddKind, Storing, AddAsked, AddFound, AddMissed, AddInserted, AddAppended, AddAgain,
            AppendTo, AddAnswered, AddFailed, StoreTo
      <3>2. ASSUME NEW b \in Adds, b # a PROVE ~AddInserted(b) /\ ~AddAppended(b)
        <4>1. add'[b] = add[b]
          BY <1>8, <3>2
          DEF AddKind, AddAsked, AddFound, AddMissed, AddInserted, AddAppended, AddAgain,
              AddAnswered, AddFailed, AddTo
        <4> QED
          BY <4>1 DEF AddInserted, AddAppended, AddTo
      <3> QED
        BY <1>4, <2>2, <3>1, <3>2 DEF Storing
    <2> QED
      BY <2>1, <2>2
  <1>9. ASSUME UNCHANGED <<table, add>> PROVE TotalOK(i, p)'
    BY <1>4, <1>9 DEF AddInserted, AddAppended, AddTo
  <1> QED
    BY <1>7, <1>8, <1>9, Kinds DEF GetKind, Aside

LEMMA TotalsInit == Init => TotalsOK
  BY DEF Init, TotalsOK, TotalOK

LEMMA TotalsStep ==
  ASSUME TypeInv, TotalsOK, [Next]_vars
  PROVE  TotalsOK'
  BY TotalStep DEF TotalsOK

LEMMA TotalsExactFrom ==
  ASSUME TypeInv, TotalsOK
  PROVE  TotalsExact
  <1> DEFINE Acked(i, p) == {c \in Requested(i, p) : /\ Latest(c) /\ add[c[1]].known
                                                     /\ add[c[1]].answer = "added"}
  <1> SUFFICES ASSUME NEW i \in Ids, table[i] # NoCart, NEW p \in Products
               PROVE  /\ QuantityOf(table[i], p) <= Sum(Possible(i, p))
                      /\ Sole(i) => Sum(Acked(i, p)) <= QuantityOf(table[i], p)
    BY DEF TotalsExact
  <1>1. PICK A : Holds(i, p, table[i], A)
    BY DEF TotalsOK, TotalOK
  <1>2. /\ Possible(i, p) \in SUBSET Calls /\ A \in SUBSET Possible(i, p)
        /\ QuantityOf(table[i], p) = Sum(A) /\ A \in SUBSET Calls
    BY <1>1, PossibleFacts DEF Holds
  <1>3. Sole(i) => Acked(i, p) \in SUBSET A
    BY <1>1 DEF Holds, Owed, Applied, Applying
  <1> HIDE DEF Acked
  <1>4. QuantityOf(table[i], p) <= Sum(Possible(i, p))
    BY <1>2, SumGrows
  <1>5. Sole(i) => Sum(Acked(i, p)) <= QuantityOf(table[i], p)
    BY <1>2, <1>3, SumGrows
  <1> QED
    BY <1>4, <1>5

\* What a cart holds is what its clients added: nothing answered 204 is lost, nothing
\* refused is there, and an addition counts once for each of its calls that the store
\* received, whatever ran at the same time (addItemsHandler, addItemsDynamoHandler).
THEOREM TotalsAreExact == Spec => []TotalsExact
  <1>1. TotalsOK /\ TypeInv /\ [Next]_vars => TotalsOK'
    BY TotalsStep
  <1>2. TypeInv /\ TotalsOK => TotalsExact
    BY TotalsExactFrom
  <1> QED
    BY <1>1, <1>2, TotalsInit, TypeInvHolds, PTL DEF Spec

-----------------------------------------------------------------------------
(* The reads: no value an item has had holds more than the calls made for it *)
(* can have stored, and what a read found of MySQL holds what was answered   *)
(* before it began.                                                          *)

TableBounded ==
    \A i \in Ids, p \in Products : table[i] # NoCart =>
        QuantityOf(table[i], p) <= Sum(Possible(i, p))

PastOK ==
    \A i \in Ids, p \in Products : \A lines \in past[i] :
        lines # NoCart => QuantityOf(lines, p) <= Sum(Possible(i, p))

Answered(g, p) == {c \in Requested(get[g].id, p) : Latest(c) /\ c[1] \in get[g].before}

ReadOK(g) ==
    /\ \A a \in get[g].before : add[a].id = get[g].id /\ add[a].answer = "added"
    /\ get[g].answer = "found" => \A p \in Products :
          /\ QuantityOf(get[g].lines, p) <= Sum(Possible(get[g].id, p))
          /\ backend = "mysql" /\ ~get[g].cut =>
                Sum(Answered(g, p)) <= QuantityOf(get[g].lines, p)

ReadsOK == \A g \in Gets : ReadOK(g)

LEMMA TableBound ==
  ASSUME TypeInv, TotalsOK
  PROVE  TableBounded
  <1> SUFFICES ASSUME NEW i \in Ids, NEW p \in Products, table[i] # NoCart
               PROVE  QuantityOf(table[i], p) <= Sum(Possible(i, p))
    BY DEF TableBounded
  <1>1. PICK A : Holds(i, p, table[i], A)
    BY DEF TotalsOK, TotalOK
  <1>2. /\ Possible(i, p) \in SUBSET Calls /\ A \in SUBSET Possible(i, p)
        /\ QuantityOf(table[i], p) = Sum(A)
    BY <1>1, PossibleFacts DEF Holds
  <1> QED
    BY <1>2, SumGrows

LEMMA BoundGrows ==
  ASSUME TypeInv, [Next]_vars, NEW i, NEW p
  PROVE  /\ Sum(Possible(i, p))' \in Nat /\ Sum(Possible(i, p)) \in Nat
         /\ Sum(Possible(i, p)) <= Sum(Possible(i, p))'
  <1>1. PICK A, B : A = Possible(i, p) /\ B = Possible(i, p)'
    OBVIOUS
  <1>2. B \in SUBSET Calls /\ A \in SUBSET B
    <2>1. Possible(i, p)' \subseteq Calls
      BY DEF Possible, Requested, Calls
    <2>2. Possible(i, p) \subseteq Possible(i, p)'
      BY PossibleGrows
    <2> QED
      BY <1>1, <2>1, <2>2
  <1>3. Sum(A) <= Sum(B) /\ Sum(B) \in Nat /\ Sum(A) \in Nat
    BY <1>2, SumGrows
  <1>4. Sum(Possible(i, p))' = Sum(B)
    <2>1. Asked' = Asked
      BY AskedStays
    <2>2. PICK f : f = Asked
      OBVIOUS
    <2>3. Sum(Possible(i, p))' = SumOver(f, B) /\ Sum(B) = SumOver(f, B)
      BY <1>1, <2>1, <2>2 DEF Sum, Asked
    <2> QED
      BY <2>3
  <1> QED
    BY <1>1, <1>3, <1>4

LEMMA PastStep ==
  ASSUME TypeInv, PastOK, TableBounded', [Next]_vars
  PROVE  PastOK'
  <1> SUFFICES ASSUME NEW i \in Ids, NEW p \in Products, NEW lines \in past'[i], lines # NoCart
               PROVE  QuantityOf(lines, p) <= Sum(Possible(i, p))'
    BY DEF PastOK, QuantityOf
  <1>1. CASE lines \in past[i]
    <2>1. QuantityOf(lines, p) <= Sum(Possible(i, p)) /\ lines \in Seq(Line)
      <3>1. lines \in {NoCart} \cup Seq(Line)
        BY <1>1 DEF TypeInv, TableOK
      <3> QED
        BY <1>1, <3>1 DEF PastOK
    <2>2. QuantityOf(lines, p) \in Nat
      BY <2>1, QuantityType
    <2>3. /\ Sum(Possible(i, p)) <= Sum(Possible(i, p))'
          /\ Sum(Possible(i, p))' \in Nat /\ Sum(Possible(i, p)) \in Nat
      BY BoundGrows
    <2> QED
      BY <2>1, <2>2, <2>3
  <1>2. CASE lines \notin past[i]
    <2>1. ASSUME NEW j \in Ids, NEW x, StoreTo(j, x) PROVE table'[i] = lines
      <3>1. i = j
        BY <1>2, <2>1 DEF StoreTo
      <3>2. backend = "dynamo"
        BY <1>2, <2>1, RecordTypes DEF StoreTo
      <3> QED
        BY <1>2, <2>1, <3>1, <3>2 DEF StoreTo
    <2>2. ASSUME NEW c \in Creates, CreateKind(c) PROVE table'[i] = lines
      BY <1>2, <2>1, <2>2, RecordTypes
      DEF CreateKind, CreateAsked, CreateInserted, CreatePut,
          CreateAgain, CreateAnswered, CreateFailed
    <2>3. ASSUME NEW a \in Adds, AddKind(a) PROVE table'[i] = lines
      BY <1>2, <2>1, <2>3, RecordTypes
      DEF AddKind, AddAsked, AddFound, AddMissed, AddInserted, AddAppended, AddAgain,
          AppendTo, AddAnswered, AddFailed
    <2>4. table'[i] = lines
      BY <1>2, <2>2, <2>3, Kinds DEF GetKind, Aside
    <2> QED
      BY <2>4 DEF TableBounded
  <1> QED
    BY <1>1, <1>2

LEMMA ReadStep ==
  ASSUME TypeInv, TotalsOK, TableBounded, PastOK, [Next]_vars, NEW g \in Gets, ReadOK(g)
  PROVE  ReadOK(g)'
  <1>1. /\ get[g] \in GetRec /\ get[g].id \in Ids /\ GetOKOf(g)
        /\ failures' \in Nat /\ failures' >= failures /\ failures \in Nat
        /\ backend' = backend /\ backend \in {"mysql", "dynamo"}
    BY RecordTypes, ClockAndFailures, Kinds, CartAssumption
    DEF TypeInv, GetOK, GetOKOf, CreateKind, AddKind, GetKind, Aside
  <1>2. CASE get'[g] = get[g]
    <2>1. PICK i, B, lines : i = get[g].id /\ B = get[g].before /\ lines = get[g].lines
      OBVIOUS
    <2>2. \A a \in B : a \in Adds /\ add'[a] = add[a]
      BY <1>1, <2>1, AddEvolves DEF GetRec, ReadOK, AddEvolved
    <2>3. CASE get[g].answer = "found"
      <3> DEFINE Of(p) == {c \in Requested(i, p) : Latest(c) /\ c[1] \in B}
      <3> SUFFICES ASSUME NEW p \in Products
                   PROVE  /\ QuantityOf(lines, p) <= Sum(Possible(i, p))'
                          /\ backend = "mysql" /\ ~get[g].cut =>
                                Sum(Of(p))' <= QuantityOf(lines, p)
        BY <1>1, <1>2, <2>1, <2>2, <2>3 DEF ReadOK, Answered, QuantityOf
      <3>1. /\ QuantityOf(lines, p) <= Sum(Possible(i, p))
            /\ backend = "mysql" /\ ~get[g].cut => Sum(Of(p)) <= QuantityOf(lines, p)
        BY <2>1, <2>3 DEF ReadOK, Answered
      <3>2. QuantityOf(lines, p) \in Nat
        BY <1>1, <2>1, QuantityType DEF GetRec
      <3>3. /\ Sum(Possible(i, p)) <= Sum(Possible(i, p))'
            /\ Sum(Possible(i, p))' \in Nat /\ Sum(Possible(i, p)) \in Nat
        BY BoundGrows
      <3>4. PICK C : C = Of(p)
        OBVIOUS
      <3>5. Of(p)' = C
        BY <2>2, <3>4 DEF Requested, Latest
      <3>6. Sum(Of(p))' = Sum(C)
        BY <3>5, AskedStays DEF Sum, Asked
      <3> HIDE DEF Of
      <3> QED
        BY <3>1, <3>2, <3>3, <3>4, <3>6
    <2>4. CASE get[g].answer # "found"
      BY <1>2, <2>1, <2>2, <2>4 DEF ReadOK
    <2> QED
      BY <2>3, <2>4
  <1>3. ASSUME GetKind(g) PROVE ReadOK(g)'
    <2>1. UNCHANGED <<backend, table, past, add>> /\ \A i, p : Possible(i, p)' = Possible(i, p)
      BY <1>3 DEF GetKind, Possible, Requested, Latest
    <2>2. \A A : Sum(A)' = Sum(A)
      BY <2>1 DEF Sum
    <2>3. CASE GetAsked(g)
      BY <2>1, <2>3 DEF GetAsked, ReadOK
    <2>4. ASSUME NEW pc, NEW x, GetTo(g, pc, x), x # "found" PROVE ReadOK(g)'
      BY <2>1, <2>4 DEF GetTo, ReadOK
    <2>5. ASSUME GetTo(g, "done", "found"),
                 \A p \in Products :
                    /\ QuantityOf(get'[g].lines, p) <= Sum(Possible(get[g].id, p))
                    /\ backend = "mysql" /\ ~get'[g].cut =>
                          Sum(Answered(g, p)) <= QuantityOf(get'[g].lines, p)
          PROVE  ReadOK(g)'
      <3>1. /\ get'[g].answer = "found" /\ get'[g].id = get[g].id
            /\ get'[g].before = get[g].before
        BY <2>5 DEF GetTo
      <3>2. \A p : Answered(g, p)' = Answered(g, p)
        BY <2>1, <3>1 DEF Answered, Requested, Latest
      <3>3. \A p : Sum(Possible(get[g].id, p))' = Sum(Possible(get[g].id, p))
        BY <2>1, <3>1 DEF Sum, Possible, Requested, Latest
      <3> QED
        BY <2>1, <2>2, <2>5, <3>1, <3>2, <3>3 DEF ReadOK
    <2>6. CASE GetListed(g) \/ GetCut(g)
      <3>1. backend = "mysql" /\ table[get[g].id] # NoCart /\ GetTo(g, "done", "found")
        BY <1>1, <2>6 DEF GetListed, GetCut, GetOKOf
      <3>2. PICK i, lines : i \in Ids /\ i = get[g].id /\ lines = table[i]
        BY <1>1
      <3>3. lines \in Seq(Line)
        BY <3>1, <3>2, RecordTypes
      <3>4. ASSUME NEW p \in Products
            PROVE  /\ QuantityOf(lines, p) <= Sum(Possible(i, p))
                   /\ Sum(Answered(g, p)) <= QuantityOf(lines, p)
        <4>1. QuantityOf(lines, p) <= Sum(Possible(i, p))
          BY <3>1, <3>2 DEF TableBounded
        <4>2. PICK A : Holds(i, p, lines, A)
          BY <3>1, <3>2 DEF TotalsOK, TotalOK
        <4>3. Answered(g, p) \in SUBSET Applied(i, p)
          BY <3>2 DEF Answered, ReadOK, Applied, Applying
        <4>4. A \in SUBSET Calls /\ Answered(g, p) \in SUBSET A /\ QuantityOf(lines, p) = Sum(A)
          BY <3>1, <4>2, <4>3, PossibleFacts DEF Holds
        <4> QED
          BY <4>1, <4>4, SumGrows
      <3>5. CASE GetListed(g)
        <4>1. get'[g].lines = lines
          BY <3>2, <3>5 DEF GetListed
        <4> QED
          BY <2>5, <3>1, <3>2, <3>4, <4>1
      <3>6. CASE GetCut(g)
        <4>1. PICK n \in 0 .. Len(lines) : get'[g].lines = SubSeq(lines, 1, n)
          BY <3>2, <3>6 DEF GetCut
        <4>2. get'[g].cut
          BY <3>6 DEF GetCut
        <4>3. ASSUME NEW p \in Products
              PROVE  QuantityOf(SubSeq(lines, 1, n), p) <= Sum(Possible(i, p))
          <5>1. /\ QuantityOf(SubSeq(lines, 1, n), p) <= QuantityOf(lines, p)
                /\ QuantityOf(SubSeq(lines, 1, n), p) \in Nat /\ QuantityOf(lines, p) \in Nat
            BY <3>3, QuantityPrefix, QuantityType
          <5>2. Sum(Possible(i, p)) \in Nat
            BY PossibleFacts, SumGrows
          <5> QED
            BY <3>4, <5>1, <5>2
        <4> QED
          BY <2>5, <3>1, <3>2, <4>1, <4>2, <4>3
      <3> QED
        BY <2>6, <3>5, <3>6
    <2>7. CASE GetPast(g)
      BY <1>1, <2>5, <2>7 DEF GetPast, PastOK
    <2>8. CASE GetListing(g) \/ GetMissed(g) \/ GetFailed(g)
      <3>1. get[g].pc # "done" /\ get[g].answer = "none"
        BY <1>1, <2>8 DEF GetListing, GetMissed, GetFailed, GetOKOf
      <3>2. CASE GetListing(g)
        BY <2>4, <3>1, <3>2 DEF GetListing
      <3>3. CASE GetMissed(g)
        BY <2>4, <3>3 DEF GetMissed
      <3>4. CASE GetFailed(g)
        BY <2>4, <3>4 DEF GetFailed
      <3> QED
        BY <2>8, <3>2, <3>3, <3>4
    <2> QED
      BY <1>3, <2>3, <2>6, <2>7, <2>8 DEF GetKind
  <1>4. ASSUME NEW h \in Gets, GetKind(h), h # g PROVE get'[g] = get[g]
    BY <1>4
    DEF GetKind, GetAsked, GetListing, GetListed, GetCut, GetPast, GetMissed, GetFailed, GetTo
  <1> QED
    BY <1>2, <1>3, <1>4, Kinds DEF CreateKind, AddKind, Aside

LEMMA ReadsStep ==
  ASSUME TypeInv, TotalsOK, TableBounded, PastOK, ReadsOK, [Next]_vars
  PROVE  ReadsOK'
  BY ReadStep DEF ReadsOK

LEMMA ReadsInit == Init => PastOK /\ ReadsOK
  <1> SUFFICES ASSUME Init PROVE PastOK /\ ReadsOK
    OBVIOUS
  <1>1. PastOK
    BY DEF Init, PastOK
  <1>2. \A g \in Gets : get[g].before = {} /\ get[g].answer = "none"
    BY DEF Init
  <1>3. ReadsOK
    BY <1>2 DEF ReadsOK, ReadOK
  <1> QED
    BY <1>1, <1>3

LEMMA ReadsCurrentFrom ==
  ASSUME TypeInv, ReadsOK
  PROVE  ReadsCurrent
  <1> SUFFICES ASSUME NEW g \in Gets, get[g].answer = "found", NEW p \in Products
               PROVE  LET shown == QuantityOf(get[g].lines, p)
                      IN  /\ shown <= Sum(Possible(get[g].id, p))
                          /\ backend = "mysql" /\ ~get[g].cut => shown >= Sum(Answered(g, p))
    BY DEF ReadsCurrent, Answered
  <1> DEFINE shown == QuantityOf(get[g].lines, p)
  <1>1. /\ shown <= Sum(Possible(get[g].id, p))
        /\ backend = "mysql" /\ ~get[g].cut => Sum(Answered(g, p)) <= shown
    BY DEF ReadsOK, ReadOK
  <1>2. shown \in Nat
    BY RecordTypes, QuantityType DEF GetRec
  <1>3. Answered(g, p) \in SUBSET Calls
    BY DEF Answered, Requested
  <1> HIDE DEF shown
  <1>4. Sum(Answered(g, p)) \in Nat
    BY <1>3, SumGrows
  <1> QED
    BY <1>1, <1>2, <1>4 DEF shown

\* A read shows no more than the calls made so far can have stored, and from MySQL
\* everything that was answered before it began, unless its own rows were cut short
\* by an error that nobody looks at (getCartHandler).
THEOREM ReadsAreCurrent == Spec => []ReadsCurrent
  <1>1. TotalsOK /\ TypeInv /\ [Next]_vars => TotalsOK'
    BY TotalsStep
  <1>2. TypeInv /\ TotalsOK => TableBounded
    BY TableBound
  <1>3. TypeInv /\ PastOK /\ TableBounded' /\ [Next]_vars => PastOK'
    BY PastStep
  <1>4. TypeInv /\ TotalsOK /\ TableBounded /\ PastOK /\ ReadsOK /\ [Next]_vars => ReadsOK'
    BY ReadsStep
  <1>5. TypeInv /\ ReadsOK => ReadsCurrent
    BY ReadsCurrentFrom
  <1> QED
    BY <1>1, <1>2, <1>3, <1>4, <1>5, TotalsInit, ReadsInit, TypeInvHolds, PTL DEF Spec

-----------------------------------------------------------------------------
(* The refusals.                                                            *)

LEMMA RefusalsStep ==
  ASSUME TypeInv, NotFoundTruthful, [Next]_vars
  PROVE  NotFoundTruthful'
  <1>1. /\ failures' \in Nat /\ failures' >= failures /\ failures \in Nat
        /\ backend' = backend /\ backend \in {"mysql", "dynamo"}
    BY RecordTypes, ClockAndFailures, Kinds, CartAssumption
    DEF CreateKind, AddKind, GetKind, Aside
  <1> DEFINE Refused(a) == add[a].known =>
                              /\ add[a].answer = "not found" => failures > 0
                              /\ add[a].answer = "invalid" => backend = "dynamo" /\ add[a].id = 0
             Missed(g) == get[g].known /\ get[g].answer = "not found" =>
                              failures > 0 \/ backend = "dynamo"
  <1>2. ASSUME NEW a \in Adds PROVE Refused(a)'
    <2>1. Refused(a) /\ AddOKOf(a)
      BY DEF NotFoundTruthful, TypeInv, AddOK, AddOKOf
    <2>0. failures > 0 => failures' > 0
      BY <1>1
    <2>2. CASE add'[a] = add[a]
      BY <1>1, <2>1, <2>2, <2>0, Zenon
    <2>3. CASE AddAsked(a)
      BY <1>1, <2>3, KnownInTable DEF AddAsked
    <2>4. CASE AddMissed(a)
      <3>1. add[a].known => table[add[a].id] # NoCart
        BY <2>1, KnownInTable DEF AddOKOf
      <3>2. failures' = failures + 1 => failures' > 0
        BY <1>1
      <3>3. add[a].known => failures' > 0
        BY <2>4, <3>1, <3>2 DEF AddMissed
      <3>4. add'[a].known = add[a].known /\ add'[a].answer = "not found"
        BY <2>4 DEF AddMissed, AddTo
      <3> QED
        BY <3>3, <3>4
    <2>5. ASSUME NEW pc, NEW x, AddTo(a, pc, x), x \notin {"not found", "invalid"}
          PROVE  Refused(a)'
      BY <2>5 DEF AddTo
    <2>9. CASE AddAgain(a)
      <3>1. add'[a].answer = "none"
        BY <2>1, <2>9 DEF AddAgain, AddOKOf
      <3> QED
        BY <3>1
    <2>6. CASE AddFound(a) \/ AddInserted(a) \/ AddAppended(a) \/ AddAnswered(a) \/ AddFailed(a)
      <3>1. AddFound(a) \/ AddInserted(a) \/ AddAppended(a) => add[a].answer = "none"
        BY <2>1 DEF AddFound, AddInserted, AddAppended, AddOKOf
      <3>2. CASE AddFound(a)
        BY <2>5, <3>1, <3>2 DEF AddFound
      <3>3. CASE AddInserted(a)
        BY <2>5, <3>1, <3>3 DEF AddInserted
      <3>4. CASE AddAppended(a)
        BY <2>5, <3>1, <3>4 DEF AddAppended
      <3>5. CASE AddAnswered(a)
        BY <2>5, <3>5 DEF AddAnswered
      <3>6. CASE AddFailed(a)
        BY <2>5, <3>6 DEF AddFailed
      <3> QED
        BY <2>6, <3>2, <3>3, <3>4, <3>5, <3>6
    <2>7. ASSUME NEW b \in Adds, AddKind(b), b # a PROVE add'[a] = add[a]
      BY <2>7
      DEF AddKind, AddAsked, AddFound, AddMissed, AddInserted, AddAppended, AddAgain,
          AppendTo, AddAnswered,
          AddFailed, AddTo
    <2>8. ASSUME AddKind(a) PROVE Refused(a)'
      <3> HIDE DEF Refused
      <3> QED
        BY <2>3, <2>4, <2>6, <2>8, <2>9 DEF AddKind
    <2> HIDE DEF Refused
    <2> QED
      BY <2>2, <2>7, <2>8, Kinds DEF CreateKind, GetKind, Aside
  <1>3. ASSUME NEW g \in Gets PROVE Missed(g)'
    <2>1. Missed(g) /\ GetOKOf(g)
      BY DEF NotFoundTruthful, TypeInv, GetOK, GetOKOf
    <2>0. failures > 0 => failures' > 0
      BY <1>1
    <2>2. CASE get'[g] = get[g]
      BY <1>1, <2>1, <2>2, <2>0, Zenon
    <2>3. CASE GetMissed(g)
      <3>1. get[g].known => table[get[g].id] # NoCart
        BY <2>1, KnownInTable DEF GetOKOf
      <3> QED
        BY <1>1, <2>3, <3>1 DEF GetMissed, GetTo
    <2>4. CASE failures' = failures + 1
      <3>1. failures' > 0
        BY <1>1, <2>4
      <3> QED
        BY <3>1
    <2>5. CASE GetAsked(g)
      BY <2>5 DEF GetAsked
    <2>6. CASE GetListing(g) \/ GetListed(g) \/ GetPast(g)
      BY <2>1, <2>6 DEF GetListing, GetListed, GetPast, GetTo, GetOKOf
    <2>7. ASSUME NEW h \in Gets, GetKind(h), h # g PROVE get'[g] = get[g]
      BY <2>7
      DEF GetKind, GetAsked, GetListing, GetListed, GetCut, GetPast, GetMissed, GetFailed, GetTo
    <2>8. ASSUME GetKind(g) PROVE Missed(g)'
      <3> HIDE DEF Missed
      <3> QED
        BY <2>3, <2>4, <2>5, <2>6, <2>8 DEF GetKind, GetCut, GetFailed
    <2> HIDE DEF Missed
    <2> QED
      BY <2>2, <2>7, <2>8, Kinds DEF CreateKind, AddKind, Aside
  <1> QED
    BY <1>2, <1>3 DEF NotFoundTruthful

\* A client that was given a cart's identifier is told that there is no such cart
\* only when a call failed or a read of DynamoDB is stale, and that the
\* identifier is invalid only for 0 (addItemsHandler, getCartHandler).
THEOREM RefusalsAreTruthful == Spec => []NotFoundTruthful
  <1>1. Init => NotFoundTruthful
    <2> SUFFICES ASSUME Init PROVE NotFoundTruthful
      OBVIOUS
    <2>1. TypeInv /\ \A g \in Gets : get[g].answer = "none"
      BY TypeInit DEF Init
    <2>2. \A a \in Adds : ~add[a].known
      <3>1. \A c \in Creates : create[c].answer = "none"
        BY DEF Init
      <3> QED
        BY <2>1, <3>1 DEF TypeInv, AddOK, Known
    <2> QED
      BY <2>1, <2>2 DEF NotFoundTruthful
  <1>2. TypeInv /\ NotFoundTruthful /\ [Next]_vars => NotFoundTruthful'
    BY RefusalsStep
  <1> QED
    BY <1>1, <1>2, TypeInvHolds, PTL DEF Spec
=============================================================================
