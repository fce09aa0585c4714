-------------------------- MODULE Catalogue_proofs ---------------------------
(***************************************************************************)
(* The catalogue for any seed file without repeated skus, any requests and *)
(* any number of stops: the table is always a beginning of the file, and   *)
(* LIMIT never cuts a product off.                                         *)
(***************************************************************************)
EXTENDS Catalogue, FiniteSetTheorems, FunctionTheorems, SequenceTheorems, TLAPS

-----------------------------------------------------------------------------
(* What the properties rest on: the process is at the first product that   *)
(* is missing, it has not stopped unless it finds rows when it starts, and *)
(* it serves requests only when the table changes no more.                 *)
BootAgrees ==
  /\ Len(products) <= Len(SeedFile)
  /\ \A i \in DOMAIN products : products[i] = SeedFile[i]
  /\ boot.stage = "seed" => boot.item = Len(products) + 1
  /\ boot \in {Down, Counting} /\ stops = 0 => products = <<>>
  /\ boot # Serving => order = NoOrder

IInv == TypeOK /\ BootAgrees /\ SeededInOrder /\ EachSkuOnce

(* The seed file is a sequence of distinct skus.                            *)
LEMMA SeedFileType ==
  /\ SeedFile \in Seq(SKUs) /\ Len(SeedFile) \in Nat
  /\ DOMAIN SeedFile = 1..Len(SeedFile)
  /\ \A i, j \in 1..Len(SeedFile) : SeedFile[i] = SeedFile[j] => i = j
  /\ \A i \in 1..Len(SeedFile) : SeedFile[i] \in SKUs
BY CatalogueAssumption, LenProperties, ElementOfSeq DEF IsInjective

(* So is a beginning of it.                                                 *)
LEMMA ProductsType ==
  ASSUME TypeOK, BootAgrees
  PROVE  /\ products \in Seq(SKUs) /\ Len(products) \in Nat
         /\ DOMAIN products = 1..Len(products)
         /\ \A i, j \in DOMAIN products : products[i] = products[j] => i = j
<1>1. products \in Seq(SKUs) /\ Len(products) \in Nat /\ DOMAIN products = 1..Len(products)
  BY LenProperties DEF TypeOK
<1>2. 1..Len(products) \subseteq 1..Len(SeedFile)
  BY <1>1, SeedFileType DEF BootAgrees
<1> QED
  BY <1>1, <1>2, SeedFileType DEF BootAgrees

(* A table that agrees with the file row by row is a prefix of it.          *)
LEMMA PrefixOfFile ==
  ASSUME NEW s \in Seq(SKUs), Len(s) <= Len(SeedFile),
         \A i \in DOMAIN s : s[i] = SeedFile[i]
  PROVE  /\ IsPrefix(s, SeedFile)
         /\ Len(s) = Len(SeedFile) => s = SeedFile
<1>1. Len(s) \in Nat /\ DOMAIN s = 1..Len(s)
  BY LenProperties
<1>2. SubSeq(s, 1, Len(s)) = s
  BY SubSeqFull
<1> DEFINE n == Len(s)
<1>3. n \in Int /\ 1 \in Int /\ \A i \in 1..n : SeedFile[i] \in SKUs
  BY <1>1, SeedFileType
<1>4. \A i \in 1..n : 1 + i - 1 = i
  OBVIOUS
<1>5. /\ SubSeq(SeedFile, 1, n) \in Seq(SKUs)
      /\ Len(SubSeq(SeedFile, 1, n)) = n
      /\ \A i \in 1..n : SubSeq(SeedFile, 1, n)[i] = SeedFile[i]
  <2>1. n - 1 + 1 = n /\ (IF 1 <= n THEN n - 1 + 1 ELSE 0) = n
    BY <1>1
  <2> HIDE DEF n
  <2>2. /\ SubSeq(SeedFile, 1, n) \in Seq(SKUs)
        /\ Len(SubSeq(SeedFile, 1, n)) = IF 1 <= n THEN n - 1 + 1 ELSE 0
        /\ \A i \in 1..(n - 1 + 1) : SubSeq(SeedFile, 1, n)[i] = SeedFile[1 + i - 1]
    BY <1>3, SubSeqProperties
  <2> QED
    BY <1>4, <2>1, <2>2
<1>6. SubSeq(SeedFile, 1, n) = s
  BY <1>1, <1>5, SeqEqual
<1>7. n = Len(SeedFile) => s = SeedFile
  BY <1>1, SeedFileType, SeqEqual
<1> QED
  BY <1>2, <1>6, <1>7 DEF IsPrefix

(* The rows a request selects are no more than the skus it lists.           *)
LEMMA RowsWithinLimit ==
  ASSUME TypeOK, BootAgrees, NEW asked \in Seq(SKUs)
  PROVE  GetBySKUs(asked) = {Rows(asked)}
<1> DEFINE R == Rows(asked)
           D == 1..Len(asked)
           f == [i \in R |-> CHOOSE k \in D : asked[k] = products[i]]
<1>1. Len(asked) \in Nat /\ D = DOMAIN asked
  BY LenProperties
<1>2. \A i \in R : i \in DOMAIN products /\ f[i] \in D /\ asked[f[i]] = products[i]
  BY <1>1 DEF Rows, Range
<1>3. f \in [R -> D]
  BY <1>2
<1>4. f \in Injection(R, D)
  <2>1. \A i, j \in R : f[i] = f[j] => i = j
    BY <1>2, ProductsType
  <2> QED
    BY <1>3, <2>1 DEF Injection, IsInjective
<1>5. IsFiniteSet(D) /\ Cardinality(D) = Len(asked)
  BY <1>1, FS_Interval
<1> HIDE DEF f, D
<1>6. Cardinality(R) <= Cardinality(D)
  BY <1>4, <1>5, FS_Injection
<1> QED
  BY <1>5, <1>6 DEF GetBySKUs

(* One row of each, no other, no repetition.                                *)
LEMMA RowsOfRequest ==
  ASSUME TypeOK, BootAgrees, NEW asked \in Seq(SKUs)
  PROVE  /\ Rows(asked) \subseteq DOMAIN products
         /\ {products[i] : i \in Rows(asked)} = Range(asked) \cap Range(products)
         /\ \A i, j \in Rows(asked) : products[i] = products[j] => i = j
  BY ProductsType DEF Rows, Range

(* The item after the i-th.                                                 *)
LEMMA AfterItemType ==
  ASSUME NEW i \in 0..Len(SeedFile)
  PROVE  \/ i < Len(SeedFile) /\ AfterItem(i) = Seeding(i + 1) /\ i + 1 \in DOMAIN SeedFile
         \/ i = Len(SeedFile) /\ AfterItem(i) = Serving
<1>1. CASE i < Len(SeedFile)
  <2>1. i + 1 \in 1..Len(SeedFile)
    BY <1>1, SeedFileType
  <2> QED
    BY <1>1, <2>1, SeedFileType DEF AfterItem
<1>2. CASE ~(i < Len(SeedFile))
  <2>1. \A n \in Nat : \A j \in 0..n : ~(j < n) => j = n
    OBVIOUS
  <2>2. i = Len(SeedFile)
    BY <1>2, <2>1, SeedFileType
  <2> QED
    BY <1>2, <2>2 DEF AfterItem
<1> QED
  BY <1>1, <1>2

-----------------------------------------------------------------------------
(* An empty product table, before the first start of the process. *)
LEMMA InitInv ==
  ASSUME Init
  PROVE  IInv
<1>1. TypeOK
  BY CatalogueAssumption DEF Init, TypeOK, NoOrder
<1>2. BootAgrees
  BY SeedFileType DEF Init, BootAgrees, Down
<1>3. SeededInOrder
  BY <1>1, <1>2, PrefixOfFile DEF Init, SeededInOrder, Down, Serving, TypeOK, BootAgrees
<1>4. EachSkuOnce
  BY DEF Init, EachSkuOnce, NoOrder, Range
<1> QED
  BY <1>1, <1>2, <1>3, <1>4 DEF IInv

(* A step that leaves table and request alone.                              *)
LEMMA BootStep ==
  ASSUME IInv, Start \/ CountProducts
  PROVE  IInv'
<1> USE DEF IInv
<1>1. UNCHANGED <<products, order, stops>> /\ boot # Serving
  BY DEF Start, CountProducts, Down, Counting, Serving
<1>2. \/ boot = Down /\ boot' \in {Counting, Serving} /\ (boot' = Serving => ~SeedDataDir)
      \/ /\ boot = Counting
         /\ \/ products = <<>> /\ boot' = AfterItem(0)
            \/ products # <<>> /\ boot' = Serving
  <2>1. Start => /\ boot = Down
                 /\ SeedDataDir => boot' = Counting
                 /\ ~SeedDataDir => boot' = Serving
    BY DEF Start
  <2>2. Counting # Serving
    BY DEF Counting, Serving
  <2>3. Start => /\ boot = Down /\ boot' \in {Counting, Serving}
                 /\ boot' = Serving => ~SeedDataDir
    BY <2>1, <2>2, Zenon
  <2>4. CountProducts => /\ boot = Counting
                         /\ \/ products = <<>> /\ boot' = AfterItem(0)
                            \/ products # <<>> /\ boot' = Serving
    BY DEF CountProducts
  <2> QED
    BY <2>3, <2>4
<1>3. \/ AfterItem(0) = Seeding(1) /\ 1 \in DOMAIN SeedFile
      \/ AfterItem(0) = Serving /\ Len(SeedFile) = 0
  BY SeedFileType DEF AfterItem
<1>4. TypeOK'
  BY <1>1, <1>2, <1>3 DEF TypeOK
<1>5. boot'.stage = "seed" => boot'.item = Len(products) + 1
  BY <1>2, <1>3, EmptySeq DEF Seeding, Counting, Serving
<1>6. boot' \in {Down, Counting} => boot = Down
  BY <1>2, <1>3 DEF Seeding, Counting, Serving, Down
<1>7. BootAgrees'
  BY <1>1, <1>5, <1>6 DEF BootAgrees
<1>8. boot' = Serving /\ SeedDataDir /\ stops = 0 => Len(products) = Len(SeedFile)
  <2>1. boot' = Serving /\ SeedDataDir => boot = Counting
    BY <1>2
  <2>2. boot = Counting /\ stops = 0 => products = <<>>
    BY DEF BootAgrees
  <2>3. boot = Counting /\ products = <<>> /\ boot' = Serving => Len(SeedFile) = 0
    BY <1>2, <1>3 DEF Seeding, Counting, Serving, Down
  <2> QED
    BY <2>1, <2>2, <2>3, EmptySeq
<1>9. SeededInOrder'
  BY <1>1, <1>8, PrefixOfFile DEF SeededInOrder, BootAgrees, TypeOK
<1>10. EachSkuOnce'
  BY <1>1 DEF EachSkuOnce
<1> QED
  BY <1>4, <1>7, <1>9, <1>10

(* The next row of the file is written.                                     *)
LEMMA CreateProductStep ==
  ASSUME IInv, CreateProduct
  PROVE  IInv'
<1> USE DEF IInv
<1> DEFINE n == Len(products)
<1>1. /\ boot.stage = "seed" /\ boot.item = n + 1 /\ n + 1 \in DOMAIN SeedFile
      /\ order = NoOrder
  <2>1. boot.stage = "seed"
    BY DEF CreateProduct
  <2>2. \E i \in DOMAIN SeedFile : boot = Seeding(i)
    BY <2>1 DEF TypeOK, Down, Counting, Serving
  <2> QED
    BY <2>1, <2>2 DEF BootAgrees, Seeding, Serving
<1>2. /\ products' = Append(products, SeedFile[n + 1]) /\ boot' = AfterItem(n + 1)
      /\ UNCHANGED <<order, stops>>
  BY <1>1 DEF CreateProduct
<1>3. n \in Nat /\ products \in Seq(SKUs) /\ SeedFile[n + 1] \in SKUs
      /\ n + 1 <= Len(SeedFile)
  BY <1>1, ProductsType, SeedFileType
<1>4. /\ products' \in Seq(SKUs) /\ Len(products') = n + 1
      /\ \A i \in 1..n : products'[i] = products[i]
      /\ products'[n + 1] = SeedFile[n + 1]
      /\ DOMAIN products' = 1..(n + 1) /\ DOMAIN products = 1..n
  BY <1>2, <1>3, AppendProperties, LenProperties
<1>5. \A i \in DOMAIN products' : products'[i] = SeedFile[i]
  BY <1>3, <1>4 DEF BootAgrees
<1>6. \/ boot' = Seeding(n + 2) /\ n + 2 \in DOMAIN SeedFile
      \/ boot' = Serving /\ n + 1 = Len(SeedFile)
  <2>1. n + 1 \in 0..Len(SeedFile) /\ (n + 1) + 1 = n + 2
    BY <1>3, SeedFileType
  <2> HIDE DEF n
  <2> QED
    BY <1>2, <2>1, AfterItemType
<1>7. TypeOK'
  BY <1>1, <1>2, <1>4, <1>6 DEF TypeOK, NoOrder
<1>8. BootAgrees'
  <2>1. Len(products') <= Len(SeedFile)
    BY <1>3, <1>4
  <2>2. boot'.stage = "seed" => boot'.item = Len(products') + 1
    BY <1>3, <1>4, <1>6 DEF Seeding, Serving
  <2>3. boot' \notin {Down, Counting}
    BY <1>6 DEF Seeding, Down, Counting, Serving
  <2>4. order' = NoOrder
    BY <1>1, <1>2
  <2> QED
    BY <1>5, <2>1, <2>2, <2>3, <2>4 DEF BootAgrees, NoOrder, Down, Counting
<1>9. SeededInOrder'
  <2>1. boot' = Serving => Len(products') = Len(SeedFile)
    BY <1>4, <1>6 DEF Seeding, Serving
  <2> QED
    BY <1>4, <1>5, <1>3, <2>1, PrefixOfFile DEF SeededInOrder
<1>10. EachSkuOnce'
  BY <1>1, <1>2 DEF EachSkuOnce, NoOrder, Range
<1> QED
  BY <1>7, <1>8, <1>9, <1>10

(* The process stops; the rows stay, the request does not.                  *)
LEMMA StopStep ==
  ASSUME IInv, Stop
  PROVE  IInv'
<1> USE DEF IInv
<1>1. stops' \in 0..MaxStops /\ stops' # 0
  BY CatalogueAssumption DEF Stop, TypeOK
<1>2. TypeOK'
  BY <1>1 DEF Stop, TypeOK, NoOrder
<1>3. BootAgrees'
  BY <1>1 DEF Stop, BootAgrees, Down
<1>4. SeededInOrder'
  BY <1>1 DEF Stop, SeededInOrder
<1>5. EachSkuOnce'
  BY DEF Stop, EachSkuOnce, NoOrder, Range
<1> QED
  BY <1>2, <1>3, <1>4, <1>5

(* A request gets its rows.                                                 *)
LEMMA GetProductsStep ==
  ASSUME IInv, NEW asked \in SeqOf(SKUs, MaxAsked), GetProducts(asked)
  PROVE  IInv'
<1> USE DEF IInv
<1>1. asked \in Seq(SKUs)
  BY CatalogueAssumption DEF SeqOf
<1>2. /\ order' = [asked |-> asked, got |-> Rows(asked)] /\ boot = Serving
      /\ UNCHANGED <<products, boot, stops>>
  BY <1>1, RowsWithinLimit DEF GetProducts
<1>3. Rows(asked) \subseteq DOMAIN products
  BY <1>1, RowsOfRequest
<1>4. TypeOK'
  BY <1>1, <1>2, <1>3 DEF TypeOK
<1>5. BootAgrees' /\ SeededInOrder'
  BY <1>2 DEF BootAgrees, SeededInOrder
<1>6. EachSkuOnce'
  BY <1>1, <1>2, RowsOfRequest DEF EachSkuOnce
<1> QED
  BY <1>4, <1>5, <1>6

(* Each row the seeding writes, each stop of the process and each request for
   products (seeds.go:36, create_order.go:34) keeps the invariant. *)
LEMMA NextInv ==
  ASSUME IInv, [Next]_vars
  PROVE  IInv'
<1>1. CASE UNCHANGED vars
  BY <1>1 DEF vars, IInv, TypeOK, BootAgrees, SeededInOrder, EachSkuOnce
<1> QED
  BY <1>1, BootStep, CreateProductStep, StopStep, GetProductsStep DEF Next

(* The table and the process agree in every state, whatever stops.          *)
THEOREM Invariance == Spec => []IInv
<1>1. Init => IInv
  BY InitInv
<1>2. IInv /\ [Next]_vars => IInv'
  BY NextInv
<1> QED
  BY <1>1, <1>2, PTL DEF Spec

(* The types.                                                               *)
THEOREM TypeCorrect == Spec => []TypeOK
<1>1. IInv => TypeOK
  BY DEF IInv
<1> QED
  BY <1>1, Invariance, PTL

(* The table is a beginning of the seed file, and all of it if nothing      *)
(* stopped the process.                                                     *)
THEOREM CatalogueIsSeeded == Spec => []SeededInOrder
<1>1. IInv => SeededInOrder
  BY DEF IInv
<1> QED
  BY <1>1, Invariance, PTL

(* A request gets one row for each sku it lists that the table has.         *)
THEOREM LimitCutsNothing == Spec => []EachSkuOnce
<1>1. IInv => EachSkuOnce
  BY DEF IInv
<1> QED
  BY <1>1, Invariance, PTL

=============================================================================
