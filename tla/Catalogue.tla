------------------------------ MODULE Catalogue ------------------------------
(***************************************************************************)
(* The products table: filled from the seed file while the shop's process  *)
(* starts, row by row and without a transaction, in a process that may     *)
(* stop at any point and be started again; and read by CreateOrder, which  *)
(* takes the products of a request as rows whose sku is in its list.       *)
(***************************************************************************)
EXTENDS Naturals, FiniteSets, Sequences, SequencesExt

CONSTANTS
  SKUs,
  SeedFile,     \* skus of seed_data/products.json, in the order of the file
  SeedDataDir,  \* whether SEED_DATA_DIR is set
  MaxAsked,     \* bound: skus in one request
  MaxStops      \* bound: stops of the process

ASSUME CatalogueAssumption ==
  /\ SeedFile \in Seq(SKUs) /\ IsInjective(SeedFile)
  /\ SeedDataDir \in BOOLEAN
  /\ MaxAsked \in Nat /\ MaxStops \in Nat

VARIABLES
  products,  \* skus of the rows, in the order of their ids
  boot,      \* how far the process has come
  order,     \* the last request: the skus asked for, the ids of the rows got
  stops

vars == <<products, boot, order, stops>>

Down == [stage |-> "down"]
Counting == [stage |-> "count"]
Seeding(i) == [stage |-> "seed", item |-> i]
Serving == [stage |-> "serve"]

NoOrder == [asked |-> <<>>, got |-> {}]

TypeOK ==
  /\ products \in Seq(SKUs)
  /\ boot \in {Down, Counting, Serving} \cup {Seeding(i) : i \in DOMAIN SeedFile}
  /\ order.asked \in Seq(SKUs) /\ order.got \subseteq DOMAIN products
  /\ stops \in 0..MaxStops

Init ==
  /\ products = <<>>
  /\ boot = Down
  /\ order = NoOrder
  /\ stops = 0

-----------------------------------------------------------------------------
(* main and seedsProducts.                                                  *)

Start ==
  /\ boot = Down
  /\ boot' = IF SeedDataDir THEN Counting ELSE Serving
  /\ UNCHANGED <<products, order, stops>>

(* Mistake: one item too many.                                              *)
PastTheEnd(i) == IF i <= Len(SeedFile) THEN Seeding(i + 1) ELSE Serving

AfterItem(i) == IF i < Len(SeedFile) THEN Seeding(i + 1) ELSE Serving

(* Mistake: the file is read whatever the table holds.                      *)
SeedAlways ==
  /\ boot = Counting
  /\ boot' = AfterItem(0)
  /\ UNCHANGED <<products, order, stops>>

CountProducts ==
  /\ boot = Counting
  /\ boot' = IF products = <<>> THEN AfterItem(0) ELSE Serving
  /\ UNCHANGED <<products, order, stops>>

CreateProduct ==
  /\ boot.stage = "seed"
  /\ products' = Append(products, SeedFile[boot.item])
  /\ boot' = AfterItem(boot.item)
  /\ UNCHANGED <<order, stops>>

(* The process is stopped, or ends itself: seedsProducts has returned an   *)
(* error.  Rows written stay.                                              *)
Stop ==
  /\ boot # Down
  /\ stops < MaxStops
  /\ stops' = stops + 1
  /\ boot' = Down
  /\ order' = NoOrder
  /\ UNCHANGED products

-----------------------------------------------------------------------------
(* getProducts of CreateOrder.                                              *)

Rows(asked) == {i \in DOMAIN products : products[i] \in Range(asked)}

(* Mistake: LIMIT is one too small.                                         *)
SelectFewer(asked) ==
  IF Cardinality(Rows(asked)) < Len(asked)
  THEN {Rows(asked)}
  ELSE kSubset(Len(asked) - 1, Rows(asked))

(* WHERE sku IN (asked) LIMIT len(asked), without ORDER BY.                 *)
GetBySKUs(asked) ==
  IF Cardinality(Rows(asked)) <= Len(asked)
  THEN {Rows(asked)}
  ELSE kSubset(Len(asked), Rows(asked))

(* A request that finds nothing is refused.                                 *)
GetProducts(asked) ==
  /\ boot = Serving
  /\ asked # <<>>
  /\ \E got \in GetBySKUs(asked) :
       got # {} /\ order' = [asked |-> asked, got |-> got]
  /\ UNCHANGED <<products, boot, stops>>

Next ==
  \/ Start \/ CountProducts \/ CreateProduct \/ Stop
  \/ \E asked \in SeqOf(SKUs, MaxAsked) : GetProducts(asked)

Spec == Init /\ [][Next]_vars

-----------------------------------------------------------------------------
(* Properties.                                                              *)

(* However often the process stops while it seeds, and starts again, the   *)
(* table is a beginning of the seed file: no product is there twice, and   *)
(* the file is never mixed with what an earlier attempt has left.  All of  *)
(* the file is sure to be there only if nothing ever stopped the process:  *)
(* a seeding cut short is not taken up again.                              *)
SeededInOrder ==
  /\ IsPrefix(products, SeedFile)
  /\ boot = Serving /\ SeedDataDir /\ stops = 0 => products = SeedFile

(* A request gets one row for each sku of its list that is in the table:   *)
(* LIMIT counts the list, repeated and unknown skus included, and would    *)
(* cut off a product if another one had two rows.                          *)
EachSkuOnce ==
  /\ {products[i] : i \in order.got} = Range(order.asked) \cap Range(products)
  /\ \A i, j \in order.got : products[i] = products[j] => i = j

=============================================================================
