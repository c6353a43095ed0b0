---------------------------- MODULE ScreensProofs ----------------------------
(* Theorems about the forms a quotation is made with (QuoteBuilder,         *)
(* PricingCalculator and StandaloneCalculator), about the bell, and about   *)
(* all the screens together (MCScreens): for every set of quantities,       *)
(* prices, requests, tabs and browsers, and any number of rows.             *)
EXTENDS MCScreens, ChatViewProofs, CachedScreensProofs

-----------------------------------------------------------------------------
(* QuoteBuilder: the invariant *)

\* What the server holds has the types of Init, and nothing changes it.
ServerOK ==
  /\ bReal \in BQuantities \cup {0}
  /\ bExtracted \in [quantity : BQuantities, price : {0} \cup BPrices]

\* An entry of the calculations only ever holds the quantity of its key.
OfItsKey(key, e) == {e.data, e.got} \subseteq {NoData, key[2]}
CalcsOfTheirKeys == \A key \in CalcKeys : OfItsKey(key, bCalc[key])

\* What is on its way meets the minimum order, like what has arrived.
Meets(quote) == quote.quantity >= quote.moq

BInv == BTypeOK /\ ServerOK /\ CalcsOfTheirKeys /\ Meets(bSending) /\ Meets(bSent)

-----------------------------------------------------------------------------
(* The key the page uses *)

\* The page asks for quantities the RFQ has, before and after its products
\* arrive.
LEMMA QuantityInUse ==
  ASSUME ServerOK, NEW products \in EntryType(BQuantities \cup {0})
  PROVE  ExtractPricingInput(bExtracted, products).quantity \in BQuantities
BY DEF ServerOK, ExtractPricingInput, EntryType, HasData

LEMMA KeyIsAKey ==
  ASSUME ServerOK, NEW products \in EntryType(BQuantities \cup {0}),
         NEW manual \in {0} \cup BPrices, HasEffectivePrice(manual)
  PROVE  /\ KeyInUse(products, manual) \in CalcKeys
         /\ KeyInUse(products, manual)[2] = ExtractPricingInput(bExtracted, products).quantity
<1>1. EffectiveUnitPrice(bExtracted, manual) \in BPrices
  BY BAssumption DEF EffectiveUnitPrice, HasEffectivePrice, ServerOK
<1> QED BY <1>1, QuantityInUse DEF KeyInUse, CalcKey, CalcKeys

\* Asking for a calculation keeps the entries well typed and of their keys.
LEMMA UseCalcKeeps ==
  ASSUME BTypeOK, ServerOK, CalcsOfTheirKeys, NEW rfq,
         NEW products \in EntryType(BQuantities \cup {0}), NEW manual \in {0} \cup BPrices
  PROVE  /\ UseCalc(rfq, products, manual) \in [CalcKeys -> EntryType(BQuantities)]
         /\ \A key \in CalcKeys : OfItsKey(key, UseCalc(rfq, products, manual)[key])
<1> DEFINE key == KeyInUse(products, manual)
           quantity == ExtractPricingInput(bExtracted, products).quantity
           asked == Serve(Fetch(bCalc[key]), quantity)
<1>1. CASE ~(HasData(rfq) /\ HasEffectivePrice(manual))
  BY <1>1 DEF UseCalc, BTypeOK, CalcsOfTheirKeys
<1>2. CASE HasData(rfq) /\ HasEffectivePrice(manual)
  <2>1. key \in CalcKeys /\ key[2] = quantity /\ quantity \in BQuantities
    BY <1>2, KeyIsAKey, QuantityInUse
  <2>2. asked \in EntryType(BQuantities)
    BY <2>1, EntryKept, ServedType DEF BTypeOK
  <2>3. OfItsKey(key, asked)
    BY <2>1 DEF BTypeOK, EntryType, Serve, Fetch, OfItsKey, CalcsOfTheirKeys
  <2>4. UseCalc(rfq, products, manual) =
          [bCalc EXCEPT ![key] = IF @.fresh \/ @.fetch # "idle" THEN @ ELSE asked]
    BY <1>2 DEF UseCalc
  <2> HIDE DEF key, asked
  <2> QED BY <2>1, <2>2, <2>3, <2>4 DEF BTypeOK, CalcsOfTheirKeys
<1> QED BY <1>1, <1>2

\* The heart of it: a button that can be pressed sends an order that is large
\* enough, because the calculation shown is one of the quantity shown.
LEMMA PayloadMeets ==
  ASSUME BInv, ~SendDisabled
  PROVE  /\ Meets(BuildPayload)
         /\ BuildPayload \in [quantity : {0} \cup BQuantities, moq : {0} \cup BQuantities,
                              linked : BOOLEAN]
<1> DEFINE key == KeyInUse(bProducts, bManual)
           quantity == ExtractPricingInput(bExtracted, bProducts).quantity
<1>1. HasEffectivePrice(bManual) /\ Calc.data # NoData /\ ~(bCatalog > quantity)
  BY DEF SendDisabled, CalcShown, MoqViolation, HasData
<1>2. key \in CalcKeys /\ key[2] = quantity /\ quantity \in BQuantities
  BY <1>1, KeyIsAKey, QuantityInUse DEF BInv, BTypeOK
<1>3. Calc.data = quantity
  BY <1>1, <1>2 DEF Calc, BInv, CalcsOfTheirKeys, OfItsKey
<1>4. quantity \in Nat /\ bCatalog \in {NoData, 0} \cup BQuantities /\ bCatalog \in Int
  <2>1. bCatalog \in {NoData, 0} \cup BQuantities
    BY DEF BInv, BTypeOK
  <2>2. NoData \in Int /\ \A n \in BQuantities : n \in Nat
    BY BAssumption DEF NoData
  <2> QED BY <1>2, <2>1, <2>2
<1>5. BuildPayload.quantity = quantity
      /\ BuildPayload.moq = (IF bCatalog = NoData THEN 0 ELSE bCatalog)
      /\ BuildPayload \in [quantity : {0} \cup BQuantities, moq : {0} \cup BQuantities,
                           linked : BOOLEAN]
  BY <1>2, <1>3, <1>4 DEF BuildPayload, HasData
<1> HIDE DEF quantity, key
<1>6. BuildPayload.quantity >= BuildPayload.moq
  <2>1. CASE bCatalog = NoData
    BY <1>4, <1>5, <2>1
  <2>2. CASE bCatalog # NoData
    <3>1. BuildPayload.quantity = quantity /\ BuildPayload.moq = bCatalog
      BY <1>5, <2>2
    <3>2. quantity >= bCatalog
      BY <1>1, <1>4
    <3> QED BY <3>1, <3>2
  <2> QED BY <2>1, <2>2
<1> QED BY <1>5, <1>6 DEF Meets

-----------------------------------------------------------------------------
(* The invariant *)

LEMMA BInitial == BInit => BInv
<1> SUFFICES ASSUME BInit PROVE BInv
  OBVIOUS
<1>1. BTypeOK
  <2>1. /\ Mount(NoEntry) \in EntryType({1})
        /\ Mount(NoEntry) \in EntryType(BQuantities \cup {0})
        /\ NoEntry \in EntryType(BQuantities)
    BY NoEntryType, EntryKept
  <2>2. bCalc \in [CalcKeys -> EntryType(BQuantities)]
    BY <2>1 DEF BInit
  <2>3. {bSending, bSent} \subseteq
          [quantity : {0} \cup BQuantities, moq : {0} \cup BQuantities, linked : BOOLEAN]
    BY DEF BInit, NoQuote
  <2> QED BY <2>1, <2>2, <2>3 DEF BInit, BTypeOK
<1>2. CalcsOfTheirKeys
  BY DEF BInit, CalcsOfTheirKeys, OfItsKey, NoEntry
<1> QED BY <1>1, <1>2 DEF BInit, BInv, ServerOK, Meets, NoQuote

LEMMA BStep == BInv /\ [BNext]_bVars => BInv'
<1> SUFFICES ASSUME BInv, [BNext]_bVars PROVE BInv'
  OBVIOUS
<1>a. BTypeOK /\ ServerOK /\ CalcsOfTheirKeys
  BY DEF BInv
<1>1. CASE BGotRfq
  <2>1. bRfq' \in EntryType({1})
    BY <1>1, <1>a, EntryKept, ServedType DEF BGotRfq, BTypeOK
  <2>2. bCalc' = UseCalc(bRfq', bProducts, bManual)
    BY <1>1 DEF BGotRfq
  <2>3. bCalc' \in [CalcKeys -> EntryType(BQuantities)] /\ CalcsOfTheirKeys'
    BY <1>a, <2>2, UseCalcKeeps DEF BTypeOK, CalcsOfTheirKeys
  <2> QED BY <1>1, <2>1, <2>3 DEF BGotRfq, BInv, BTypeOK, ServerOK, bServer, bPage
<1>2. CASE BGotProducts
  <2>1. bProducts' \in EntryType(BQuantities \cup {0})
    BY <1>2, <1>a, EntryKept, ServedType DEF BGotProducts, BTypeOK, ServerOK
  <2>2. bCalc' = UseCalc(bRfq, bProducts', bManual)
    BY <1>2 DEF BGotProducts
  <2>3. bCalc' \in [CalcKeys -> EntryType(BQuantities)] /\ CalcsOfTheirKeys'
    BY <1>a, <2>1, <2>2, UseCalcKeeps DEF BTypeOK, CalcsOfTheirKeys
  <2> QED BY <1>2, <2>1, <2>3 DEF BGotProducts, BInv, BTypeOK, ServerOK, bServer, bPage
<1>3. ASSUME NEW key \in CalcKeys, BGotCalc(key) PROVE BInv'
  <2>1. Answer(bCalc[key]) \in EntryType(BQuantities)
    BY <1>a, EntryKept DEF BTypeOK
  <2>2. OfItsKey(key, Answer(bCalc[key]))
    BY <1>a DEF CalcsOfTheirKeys, OfItsKey, Answer
  <2>3. bCalc' \in [CalcKeys -> EntryType(BQuantities)] /\ CalcsOfTheirKeys'
    BY <1>3, <1>a, <2>1, <2>2 DEF BGotCalc, BTypeOK, CalcsOfTheirKeys
  <2> QED BY <1>3, <2>3 DEF BGotCalc, BInv, BTypeOK, ServerOK, bServer, bPage
<1>4. CASE BFetchFails
  <2>1. CASE bRfq' = Fail(bRfq) /\ UNCHANGED <<bProducts, bCalc>>
    BY <1>4, <1>a, <2>1, EntryKept
       DEF BFetchFails, BInv, BTypeOK, CalcsOfTheirKeys, ServerOK, bServer, bPage
  <2>2. CASE bProducts' = Fail(bProducts) /\ UNCHANGED <<bRfq, bCalc>>
    BY <1>4, <1>a, <2>2, EntryKept
       DEF BFetchFails, BInv, BTypeOK, CalcsOfTheirKeys, ServerOK, bServer, bPage
  <2>3. ASSUME NEW key \in CalcKeys, bCalc' = [bCalc EXCEPT ![key] = Fail(@)],
               UNCHANGED <<bRfq, bProducts>>
        PROVE  BInv'
    <3>1. Fail(bCalc[key]) \in EntryType(BQuantities)
      BY <1>a, EntryKept DEF BTypeOK
    <3>2. OfItsKey(key, Fail(bCalc[key]))
      BY <1>a DEF BTypeOK, EntryType, CalcsOfTheirKeys, OfItsKey, Fail
    <3>3. bCalc' \in [CalcKeys -> EntryType(BQuantities)] /\ CalcsOfTheirKeys'
      BY <1>a, <2>3, <3>1, <3>2 DEF BTypeOK, CalcsOfTheirKeys
    <3> QED BY <1>4, <2>3, <3>3 DEF BFetchFails, BInv, BTypeOK, ServerOK, bServer, bPage
  <2> QED BY <1>4, <2>1, <2>2, <2>3 DEF BFetchFails
<1>5. ASSUME NEW price \in {0} \cup BPrices, SetManualUnitPrice(price) PROVE BInv'
  <2>1. bCalc' = UseCalc(bRfq, bProducts, price) /\ bManual' = price
    BY <1>5 DEF SetManualUnitPrice
  <2>2. bCalc' \in [CalcKeys -> EntryType(BQuantities)] /\ CalcsOfTheirKeys'
    BY <1>a, <2>1, UseCalcKeeps DEF BTypeOK, CalcsOfTheirKeys
  <2> QED BY <1>5, <2>1, <2>2 DEF SetManualUnitPrice, BInv, BTypeOK, ServerOK, bServer
<1>6. ASSUME NEW moq \in {NoData, 0} \cup BQuantities, SetSelectedCatalogProduct(moq)
      PROVE  BInv'
  BY <1>6, <1>a
     DEF SetSelectedCatalogProduct, BInv, BTypeOK, CalcsOfTheirKeys, ServerOK, bServer
<1>7. CASE SendQuote
  <2>1. bSending' = BuildPayload /\ ~SendDisabled
    BY <1>7 DEF SendQuote
  <2>2. Meets(bSending') /\ bSending' \in [quantity : {0} \cup BQuantities,
                                           moq : {0} \cup BQuantities, linked : BOOLEAN]
    BY <2>1, PayloadMeets
  <2> QED BY <1>7, <1>a, <2>2
          DEF SendQuote, BInv, BTypeOK, CalcsOfTheirKeys, ServerOK, bServer, Meets
<1>8. CASE QuoteSent
  BY <1>8, <1>a
     DEF QuoteSent, BInv, BTypeOK, CalcsOfTheirKeys, ServerOK, bServer, Meets, NoQuote
<1>9. CASE QuoteRefused
  BY <1>9, <1>a
     DEF QuoteRefused, BInv, BTypeOK, CalcsOfTheirKeys, ServerOK, bServer, Meets, NoQuote
<1>10. CASE UNCHANGED bVars
  BY <1>10 DEF bVars, bServer, bPage, BInv, BTypeOK, CalcsOfTheirKeys, ServerOK
<1> QED BY <1>1, <1>2, <1>3, <1>4, <1>5, <1>6, <1>7, <1>8, <1>9, <1>10 DEF BNext

-----------------------------------------------------------------------------

\* The page's state is well formed in every reachable state.
THEOREM BTypeCorrect == BSpec => []BTypeOK
<1>1. BInv => BTypeOK
  BY DEF BInv
<1> QED BY BInitial, BStep, <1>1, PTL DEF BSpec

\* No quotation is created below the minimum order of its catalogue product,
\* whatever order the answers and the agent's clicks come in.
THEOREM QuotedAboveMinimum == BSpec => []MinimumOrderMet
<1>1. BInv => MinimumOrderMet
  BY DEF BInv, MinimumOrderMet, Meets
<1> QED BY BInitial, BStep, <1>1, PTL DEF BSpec

-----------------------------------------------------------------------------
(* PricingCalculator: the invariant *)

PResults == [rfq : PRfqs \cup {"none"}, of : SUBSET PRfqs, served : BOOLEAN]

\* FiledAsCalculated needs the same of what is being filed, and that a result
\* that says it is the server's is one: both may be older than the inputs.
PInv ==
  /\ PTypeOK
  /\ pUrl \in PRfqs \cup {"none"}
  /\ pResult.served => pResult \in pAnswered
  /\ pFiling = NoResult \/ pFiling \in pAnswered
  /\ FiledAsCalculated

LEMMA NoResultType == NoResult \in PResults /\ ~NoResult.served
BY DEF NoResult, PResults

\* The entries of the products stay entries, whichever RFQ is chosen.
LEMMA UseProductsType ==
  ASSUME NEW products \in [PRfqs -> EntryType({1})], NEW rfq \in PRfqs \cup {"none"}
  PROVE  UseProducts(products, rfq) \in [PRfqs -> EntryType({1})]
<1>1. CASE rfq = "none"
  BY <1>1 DEF UseProducts
<1>2. CASE rfq # "none"
  <2>1. rfq \in PRfqs /\ Mount(products[rfq]) \in EntryType({1})
    BY <1>2, EntryKept
  <2> QED BY <1>2, <2>1 DEF UseProducts
<1> QED BY <1>1, <1>2

\* A timer is set for the RFQ chosen, or none is.
LEMMA DeferredType ==
  ASSUME NEW products, NEW rfq \in PRfqs \cup {"none"}, NEW inputs
  PROVE  Deferred(products, rfq, inputs) \subseteq PRfqs
BY DEF Deferred, Loaded

\* Only the server's results are offered for a quotation.
LEMMA QuoteOffered == POffers("quote") => pResult.served
BY DEF POffers, PricingCalcPageDesktop, PricingCalcPageMobile, PricingResultCard

LEMMA RowsOffered == POffers("rows") => pRfq # "none"
BY DEF POffers, PricingCalcPageDesktop, PricingCalcPageMobile, HasProducts, Loaded

LEMMA PInitial == PInit => PInv
<1> SUFFICES ASSUME PInit PROVE PInv
  OBVIOUS
<1>1. NoEntry \in EntryType({1}) /\ Mount(NoEntry) \in EntryType({1})
  BY NoEntryType, EntryKept
<1>2. pRfq \in PRfqs \cup {"none"} /\ pUrl \in PRfqs \cup {"none"}
  BY DEF PInit
<1>3. pProducts \in [PRfqs -> EntryType({1})]
  BY <1>1, <1>2, UseProductsType DEF PInit
<1>4. /\ {pCalc, pResult, pFiling} \cup pAnswered \cup pFiled \subseteq PResults
      /\ ~pResult.served
  BY NoResultType DEF PInit
<1> QED BY <1>1, <1>2, <1>3, <1>4 DEF PInit, PInv, PTypeOK, PResults, FiledAsCalculated

LEMMA PStep == PInv /\ [PNext]_pVars => PInv'
<1> SUFFICES ASSUME PInv, [PNext]_pVars PROVE PInv'
  OBVIOUS
<1>a. /\ pRfq \in PRfqs \cup {"none"} /\ pUrl \in PRfqs \cup {"none"}
      /\ pTimers \subseteq PRfqs /\ pInputs \subseteq PRfqs
      /\ pList \in EntryType({1}) /\ pProducts \in [PRfqs -> EntryType({1})]
      /\ {pCalc, pResult, pFiling} \cup pAnswered \cup pFiled \subseteq PResults
      /\ {pHere, pPort, pError} \subseteq BOOLEAN
      /\ pResult.served => pResult \in pAnswered
      /\ pFiling = NoResult \/ pFiling \in pAnswered
      /\ pFiled \subseteq pAnswered
      /\ PListed \subseteq PRfqs
  BY PAssumption DEF PInv, PTypeOK, PResults, FiledAsCalculated
<1> USE DEF PInv, PTypeOK, FiledAsCalculated
<1>1. CASE SetDestinationPort
  BY <1>1, <1>a DEF SetDestinationPort, PResults
<1>2. CASE ProductsInputTable
  BY <1>2, <1>a, RowsOffered DEF ProductsInputTable, PResults
<1>3. CASE Calculate
  <2>1. [rfq |-> pRfq, of |-> pInputs, served |-> TRUE] \in PResults
    BY <1>a DEF PResults
  <2>2. /\ pCalc' \in PResults /\ pResult' \in PResults /\ pError' \in BOOLEAN
    BY <1>3, <1>a, <2>1, NoResultType DEF Calculate
  <2>3. pResult'.served => pResult' \in pAnswered'
    <3>1. CASE pResult' = NoResult
      BY <3>1, NoResultType
    <3>2. CASE pResult' = pResult
      BY <1>3, <1>a, <3>2 DEF Calculate
    <3> QED BY <1>3, <3>1, <3>2 DEF Calculate
  <2> QED BY <1>3, <1>a, <2>2, <2>3 DEF Calculate, PResults
<1>4. CASE Calculated
  BY <1>4, <1>a, NoResultType DEF Calculated, PResults
<1>5. CASE CalculationFailed
  <2>1. CalculateLocalFallback \in PResults
    BY <1>a DEF PResults, CalculateLocalFallback
  <2>2. pCalc' \in PResults /\ pResult' \in PResults /\ pError' \in BOOLEAN
    BY <1>5, <1>a, <2>1, NoResultType DEF CalculationFailed
  <2>3. ~CalculateLocalFallback.served
    BY DEF CalculateLocalFallback
  <2>4. ~pResult'.served
    BY <1>5, <2>3, NoResultType DEF CalculationFailed
  <2> QED BY <1>5, <1>a, <2>2, <2>4 DEF CalculationFailed, PResults
<1>6. CASE CreateQuote
  BY <1>6, <1>a, QuoteOffered DEF CreateQuote, PResults
<1>7. CASE QuoteCreated
  BY <1>7, <1>a, NoResultType DEF QuoteCreated, PResults
<1>8. CASE QuoteNotCreated
  BY <1>8, <1>a, NoResultType DEF QuoteNotCreated, PResults
<1>9. CASE LeaveCalculator
  BY <1>9, <1>a DEF LeaveCalculator, PResults
<1>10. CASE GotRfqs
  <2>1. pList' \in EntryType({1})
    BY <1>10, <1>a, ServedType, EntryKept DEF GotRfqs
  <2> QED BY <1>10, <1>a, <2>1 DEF GotRfqs, PResults
<1>11. ASSUME NEW r \in PListed \cup {"none"}, HandleRfqChange(r) PROVE PInv'
  <2>1. pRfq' \in PRfqs \cup {"none"}
    BY <1>11, <1>a DEF HandleRfqChange, AutoSelected
  <2>2. pProducts' \in [PRfqs -> EntryType({1})]
    BY <1>11, <1>a, <2>1, UseProductsType DEF HandleRfqChange
  <2>3. pTimers' \subseteq PRfqs
    BY <1>11, <1>a, <2>1, DeferredType DEF HandleRfqChange
  <2>4. pResult' \in PResults /\ ~pResult'.served
    BY <1>11, NoResultType DEF HandleRfqChange
  <2> QED BY <1>11, <1>a, <2>1, <2>2, <2>3, <2>4 DEF HandleRfqChange, PResults
<1>12. ASSUME NEW r \in PRfqs, PopulateInputs(r) PROVE PInv'
  BY <1>12, <1>a DEF PopulateInputs, PResults
<1>13. ASSUME NEW r \in PRfqs, GotProducts(r) PROVE PInv'
  <2>1. Answer(Serve(pProducts[r], 1)) \in EntryType({1})
    BY <1>a, ServedType, EntryKept
  <2>2. pProducts' \in [PRfqs -> EntryType({1})]
    BY <1>13, <1>a, <2>1 DEF GotProducts
  <2>3. pTimers' \subseteq PRfqs
    BY <1>13, <1>a, DeferredType DEF GotProducts
  <2> QED BY <1>13, <1>a, <2>2, <2>3 DEF GotProducts, PResults
<1>14. ASSUME NEW r \in PRfqs, CalculatorFetchFails(r) PROVE PInv'
  <2>1. Fail(pList) \in EntryType({1}) /\ Fail(pProducts[r]) \in EntryType({1})
    BY <1>a, EntryKept
  <2>2. pList' \in EntryType({1}) /\ pProducts' \in [PRfqs -> EntryType({1})]
    BY <1>14, <1>a, <2>1 DEF CalculatorFetchFails
  <2> QED BY <1>14, <1>a, <2>2 DEF CalculatorFetchFails, PResults
<1>15. CASE UNCHANGED pVars
  BY <1>15, <1>a DEF pVars, PResults
<1> QED BY <1>1, <1>2, <1>3, <1>4, <1>5, <1>6, <1>7, <1>8, <1>9, <1>10, <1>11, <1>12, <1>13,
           <1>14, <1>15 DEF PNext

-----------------------------------------------------------------------------

\* The calculator's state is well formed in every reachable state.
THEOREM PTypeCorrect == PSpec => []PTypeOK
<1>1. PInv => PTypeOK
  BY DEF PInv
<1> QED BY PInitial, PStep, <1>1, PTL DEF PSpec

\* Every quotation filed is a calculation the server answered, for the RFQ and
\* with the products it was asked about, whichever RFQ is chosen meanwhile and
\* whatever order timers, calculations and answers come in.
THEOREM QuotedByTheServer == PSpec => []FiledAsCalculated
<1>1. PInv => FiledAsCalculated
  BY DEF PInv
<1> QED BY PInitial, PStep, <1>1, PTL DEF PSpec

-----------------------------------------------------------------------------
(* StandaloneCalculator: the invariant *)

Row == [name : BOOLEAN, priced : BOOLEAN, hs : HsCodes]
SentRow == [name : BOOLEAN, priced : BOOLEAN]

\* The rows and their dropdowns, one for each index.
FormOK ==
  /\ sRows \in Seq(Row) /\ Len(sRows) \in 1 .. SMaxRows
  /\ sText \in [1 .. Len(sRows) -> HsCodes] /\ sTyped \in [1 .. Len(sRows) -> BOOLEAN]

OutcomeOK ==
  /\ sCalc \subseteq SentRow /\ sResult \subseteq SentRow
  /\ sFiling \subseteq SentRow

SInv == FormOK /\ CodeShownIsSent /\ OutcomeOK /\ sCodes \in EntryType({1})

-----------------------------------------------------------------------------
(* Rows and what their dropdowns show *)

LEMMA DefaultIsARow == DefaultProduct \in Row /\ DefaultProduct.hs = 0
BY DEF DefaultProduct, Row, HsCodes

\* However the rows are replaced, each dropdown ends up with the code of the
\* row now at its index, or with a query typed in it.
LEMMA Redrawn ==
  ASSUME FormOK, CodeShownIsSent, NEW rows \in Seq(Row), Len(rows) \in 1 .. SMaxRows,
         SetProducts(rows)
  PROVE  FormOK' /\ CodeShownIsSent'
<1>0. \A i \in 1 .. Len(rows) : rows[i] \in Row
  OBVIOUS
<1> DEFINE drawn == [i \in 1 .. Len(rows) |->
                       IF i <= Len(sRows) THEN Shown(sRows, rows, i)
                                          ELSE [text |-> rows[i].hs, typed |-> FALSE]]
<1>1. /\ sRows' = rows
      /\ sText' = [i \in 1 .. Len(rows) |-> drawn[i].text]
      /\ sTyped' = [i \in 1 .. Len(rows) |-> drawn[i].typed]
  BY DEF SetProducts
<1>2. ASSUME NEW i \in 1 .. Len(rows)
      PROVE  /\ drawn[i].text \in HsCodes /\ drawn[i].typed \in BOOLEAN
             /\ ~drawn[i].typed => drawn[i].text = rows[i].hs
  <2>1. rows[i] \in Row
    BY <1>0
  <2>a. rows[i].hs \in HsCodes
    BY <2>1 DEF Row
  <2>2. CASE i <= Len(sRows)
    <3>1. i \in 1 .. Len(sRows) /\ drawn[i] = Shown(sRows, rows, i)
      BY <2>2 DEF FormOK
    <3>2. /\ sText[i] \in HsCodes /\ sTyped[i] \in BOOLEAN
          /\ ~sTyped[i] => sText[i] = sRows[i].hs
      BY <3>1 DEF FormOK, CodeShownIsSent
    <3>3. CASE rows[i].hs # sRows[i].hs
      BY <2>a, <3>1, <3>3 DEF Shown
    <3>4. CASE rows[i].hs = sRows[i].hs
      BY <3>1, <3>2, <3>4 DEF Shown
    <3> QED BY <3>3, <3>4
  <2>3. CASE ~(i <= Len(sRows))
    BY <2>a, <2>3
  <2> QED BY <2>2, <2>3
<1> HIDE DEF drawn
<1> QED BY <1>1, <1>2 DEF FormOK, CodeShownIsSent

\* A row less.
LEMMA RowRemoved ==
  ASSUME NEW rows \in Seq(Row), NEW i \in 1 .. Len(rows)
  PROVE  RemoveAt(rows, i) \in Seq(Row) /\ Len(RemoveAt(rows, i)) = Len(rows) - 1
<1> DEFINE before == SubSeq(rows, 1, i - 1)
           after == SubSeq(rows, i + 1, Len(rows))
<1>1. Len(rows) \in Nat /\ i \in Nat
  OBVIOUS
<1>2. before \in Seq(Row) /\ Len(before) = i - 1
  BY <1>1, SubSeqProperties
<1>3. after \in Seq(Row) /\ Len(after) = Len(rows) - i
  BY <1>1, SubSeqProperties
<1>4. RemoveAt(rows, i) = before \o after
  BY DEF RemoveAt
<1> HIDE DEF before, after
<1>5. before \o after \in Seq(Row) /\ Len(before \o after) = Len(before) + Len(after)
  BY <1>2, <1>3, ConcatProperties
<1> QED BY <1>1, <1>2, <1>3, <1>4, <1>5

\* A row for another.
LEMMA RowReplaced ==
  ASSUME NEW rows \in Seq(Row), NEW i \in 1 .. Len(rows), NEW row \in Row
  PROVE  LET replaced == [rows EXCEPT ![i] = row]
         IN  /\ replaced \in Seq(Row) /\ Len(replaced) = Len(rows)
             /\ \A j \in 1 .. Len(rows) : replaced[j] = IF j = i THEN row ELSE rows[j]
OBVIOUS

\* What is sent is of the rows.
LEMMA ValidateType == ASSUME sRows \in Seq(Row) PROVE Validate \subseteq SentRow
<1>1. ToSet(sRows) \subseteq Row
  BY DEF ToSet
<1>2. \A row \in Row : [name |-> row.name, priced |-> row.priced] \in SentRow
  BY DEF Row, SentRow
<1> QED BY <1>1, <1>2 DEF Validate

-----------------------------------------------------------------------------

LEMMA SInitial == SInit => SInv
<1> SUFFICES ASSUME SInit PROVE SInv
  OBVIOUS
<1>1. sRows \in Seq(Row) /\ Len(sRows) = 1 /\ sRows[1].hs = 0
  BY DefaultIsARow DEF SInit
<1>2. sText \in [1 .. 1 -> HsCodes] /\ sText[1] = 0
  BY DEF SInit, HsCodes
<1>3. sTyped \in [1 .. 1 -> BOOLEAN]
  <2>1. ASSUME NEW b \in BOOLEAN PROVE <<b>> \in [1 .. 1 -> BOOLEAN]
    OBVIOUS
  <2>2. <<FALSE>> \in [1 .. 1 -> BOOLEAN]
    BY <2>1, Zenon
  <2> QED BY <2>2 DEF SInit
<1>4. sCodes \in EntryType({1})
  BY NoEntryType, EntryKept DEF SInit
<1>5. FormOK
  BY <1>1, <1>2, <1>3, SBounds DEF FormOK
<1>6. CodeShownIsSent
  BY <1>1, <1>2 DEF CodeShownIsSent
<1> QED BY <1>4, <1>5, <1>6 DEF SInv, SInit, OutcomeOK

LEMMA SStep == SInv /\ [SNext]_sVars => SInv'
<1> SUFFICES ASSUME SInv, [SNext]_sVars PROVE SInv'
  OBVIOUS
<1>a. FormOK /\ CodeShownIsSent /\ OutcomeOK /\ sCodes \in EntryType({1})
  BY DEF SInv
<1>b. /\ sRows \in Seq(Row) /\ Len(sRows) \in 1 .. SMaxRows
      /\ sText \in [1 .. Len(sRows) -> HsCodes] /\ sTyped \in [1 .. Len(sRows) -> BOOLEAN]
      /\ SMaxRows \in Nat
  BY <1>a, SBounds DEF FormOK
<1>c. ASSUME UNCHANGED sForm PROVE FormOK' /\ CodeShownIsSent'
  BY <1>a, <1>c DEF sForm, FormOK, CodeShownIsSent
<1>1. CASE AddProduct
  <2>1. Append(sRows, DefaultProduct) \in Seq(Row)
        /\ Len(Append(sRows, DefaultProduct)) = Len(sRows) + 1
    BY <1>b, DefaultIsARow
  <2>2. Len(Append(sRows, DefaultProduct)) \in 1 .. SMaxRows
    BY <1>1, <1>b, <2>1 DEF AddProduct
  <2>3. FormOK' /\ CodeShownIsSent'
    BY <1>1, <1>a, <2>1, <2>2, Redrawn DEF AddProduct
  <2> QED BY <1>1, <1>a, <2>3 DEF AddProduct, SInv, OutcomeOK, sOutcome
<1>2. CASE SetPort
  <2>1. UNCHANGED <<sRows, sText, sTyped>>
    BY <1>2 DEF SetPort
  <2>2. FormOK' /\ CodeShownIsSent'
    BY <1>a, <2>1 DEF FormOK, CodeShownIsSent
  <2> QED BY <1>2, <1>a, <2>2 DEF SetPort, SInv, OutcomeOK, sOutcome
<1>3. CASE Reset
  <2>1. <<DefaultProduct>> \in Seq(Row) /\ Len(<<DefaultProduct>>) = 1
    BY DefaultIsARow
  <2>2. SetProducts(<<DefaultProduct>>) /\ Len(<<DefaultProduct>>) \in 1 .. SMaxRows
    BY <1>3, <1>b, <2>1 DEF Reset
  <2>3. FormOK' /\ CodeShownIsSent'
    BY <1>a, <2>1, <2>2, Redrawn
  <2> QED BY <1>3, <1>a, <2>3 DEF Reset, SInv, OutcomeOK
<1>4. CASE SCalculate
  BY <1>4, <1>a, <1>b, <1>c, ValidateType
     DEF SCalculate, NothingToCalculate, SInv, OutcomeOK, sOutcome
<1>5. CASE SCalculated
  BY <1>5, <1>a, <1>c DEF SCalculated, SInv, OutcomeOK
<1>6. CASE SCalculationFailed
  BY <1>6, <1>a, <1>b, <1>c, ValidateType
     DEF SCalculationFailed, NothingToCalculate, SInv, OutcomeOK
<1>7. CASE SCreateQuote
  BY <1>7, <1>a, <1>c DEF SCreateQuote, SInv, OutcomeOK, sOutcome
<1>8. CASE SQuoteNotCreated
  BY <1>8, <1>a, <1>c DEF SQuoteNotCreated, SInv, OutcomeOK, sOutcome
<1>9. CASE GotHsCodes
  <2>1. sCodes' \in EntryType({1})
    BY <1>9, <1>a, ServedType, EntryKept DEF GotHsCodes
  <2> QED BY <1>9, <1>a, <1>c, <2>1 DEF GotHsCodes, SInv, OutcomeOK, sOutcome
<1>10. ASSUME NEW i \in 1 .. Len(sRows), RemoveProduct(i) PROVE SInv'
  <2>1. /\ RemoveAt(sRows, i) \in Seq(Row)
        /\ Len(RemoveAt(sRows, i)) = Len(sRows) - 1
    BY <1>b, RowRemoved
  <2>2. Len(RemoveAt(sRows, i)) \in 1 .. SMaxRows
    BY <1>10, <1>b, <2>1 DEF RemoveProduct
  <2>3. FormOK' /\ CodeShownIsSent'
    BY <1>10, <1>a, <2>1, <2>2, Redrawn DEF RemoveProduct
  <2> QED BY <1>10, <1>a, <2>3 DEF RemoveProduct, SInv, OutcomeOK, sOutcome
<1>11. ASSUME NEW i \in 1 .. Len(sRows), UpdateProduct(i) PROVE SInv'
  <2>1. PICK name \in BOOLEAN, priced \in BOOLEAN :
          SetProducts([sRows EXCEPT ![i].name = name, ![i].priced = priced])
    BY <1>11 DEF UpdateProduct
  <2> DEFINE rows == [sRows EXCEPT ![i].name = name, ![i].priced = priced]
  <2>2. rows \in Seq(Row) /\ Len(rows) = Len(sRows)
    <3> DEFINE row == [sRows[i] EXCEPT !.name = name, !.priced = priced]
    <3>0. sRows[i] \in Row
      BY <1>b
    <3>1. row \in Row
      BY <3>0 DEF Row
    <3>2. rows = [sRows EXCEPT ![i] = row]
      BY <1>b
    <3> HIDE DEF row, rows
    <3> QED BY <1>b, <3>1, <3>2, RowReplaced
  <2>3. SetProducts(rows)
    BY <2>1
  <2> HIDE DEF rows
  <2>4. FormOK' /\ CodeShownIsSent'
    BY <1>a, <1>b, <2>2, <2>3, Redrawn
  <2> QED BY <1>11, <1>a, <2>4 DEF UpdateProduct, SInv, OutcomeOK, sOutcome
<1>12. ASSUME NEW i \in 1 .. Len(sRows), NEW code \in HsCodes, TypeQuery(i, code) PROVE SInv'
  <2>1. FormOK'
    BY <1>12, <1>b DEF TypeQuery, FormOK
  <2>2. CodeShownIsSent'
    BY <1>12, <1>a, <1>b DEF TypeQuery, CodeShownIsSent
  <2> QED BY <1>12, <1>a, <2>1, <2>2 DEF TypeQuery, SInv, OutcomeOK, sOutcome
<1>13. ASSUME NEW i \in 1 .. Len(sRows), NEW code \in HsCodes, HSCodeDropdown(i, code)
       PROVE  SInv'
  <2>1. sRows' = [sRows EXCEPT ![i].hs = code]
    BY <1>13 DEF HSCodeDropdown
  <2>2. /\ sRows' \in Seq(Row) /\ Len(sRows') = Len(sRows)
        /\ \A j \in 1 .. Len(sRows) : sRows'[j].hs = IF j = i THEN code ELSE sRows[j].hs
    <3> DEFINE row == [sRows[i] EXCEPT !.hs = code]
    <3>1. sRows[i] \in Row
      BY <1>b
    <3>2. row \in Row /\ row.hs = code
      BY <3>1 DEF Row
    <3>3. sRows' = [sRows EXCEPT ![i] = row]
      BY <2>1
    <3> HIDE DEF row
    <3>4. /\ sRows' \in Seq(Row) /\ Len(sRows') = Len(sRows)
          /\ \A j \in 1 .. Len(sRows) : sRows'[j] = IF j = i THEN row ELSE sRows[j]
      BY <1>b, <3>2, <3>3, RowReplaced
    <3> QED BY <3>2, <3>4
  <2>3. FormOK'
    BY <1>13, <1>b, <2>2 DEF HSCodeDropdown, FormOK
  <2>4. CodeShownIsSent'
    BY <1>13, <1>a, <1>b, <2>2 DEF HSCodeDropdown, CodeShownIsSent
  <2> QED BY <1>13, <1>a, <2>3, <2>4 DEF HSCodeDropdown, SInv, OutcomeOK, sOutcome
<1>14. CASE UNCHANGED sVars
  BY <1>14, <1>a, <1>c DEF sVars, SInv, OutcomeOK, sOutcome
<1> QED BY <1>1, <1>2, <1>3, <1>4, <1>5, <1>6, <1>7, <1>8, <1>9, <1>10, <1>11, <1>12, <1>13,
           <1>14 DEF SNext

-----------------------------------------------------------------------------

\* The form of the calculator without an RFQ is well formed in every reachable
\* state, however many rows it may have.
THEOREM STypeCorrect == SSpec => []STypeOK
<1>1. SInv => STypeOK
  <2> SUFFICES ASSUME SInv PROVE STypeOK
    OBVIOUS
  <2>1. UNION {sCalc, sResult, sFiling} \subseteq SentRow
    BY DEF SInv, OutcomeOK
  <2>2. \A i \in 1 .. Len(sRows) : sRows[i] \in Row
    BY DEF SInv, FormOK
  <2> QED BY <2>1, <2>2 DEF SInv, FormOK, STypeOK, Row, SentRow
<1> QED BY SInitial, SStep, <1>1, PTL DEF SSpec

\* No dropdown ever shows a code its row will not send, unless it is text the
\* user typed there and did not pick: whatever rows are added, removed before
\* it, edited or reset.
THEOREM DropdownsTellTheCode == SSpec => []CodeShownIsSent
<1>1. SInv => CodeShownIsSent
  BY DEF SInv
<1> QED BY SInitial, SStep, <1>1, PTL DEF SSpec

-----------------------------------------------------------------------------
(* Notifications: the types *)

Notes == [id : 1 .. MaxNotes, read : BOOLEAN]

\* NotesTypeOK needs that the notifications raised are counted: their number
\* is the next id.
NotesInv == NotesTypeOK /\ raised \in 0 .. MaxNotes

\* A bell keeps notifications, whatever is added to it or read.
LEMMA BellKept ==
  ASSUME NEW list \in Seq(Notes)
  PROVE  /\ \A n \in 1 .. MaxNotes : AddNotification(list, n) \in Seq(Notes)
         /\ MarkAllRead(list) \in Seq(Notes)
<1>1. Len(list) \in Nat /\ \A i \in 1 .. Len(list) : list[i] \in Notes
  OBVIOUS
<1>2. ASSUME NEW n \in 1 .. MaxNotes PROVE AddNotification(list, n) \in Seq(Notes)
  <2> DEFINE kept == IF Len(list) < KeepLast - 1 THEN Len(list) ELSE KeepLast - 1
  <2>1. kept \in 0 .. Len(list)
    BY <1>1, NotesAssumption
  <2>2. SubSeq(list, 1, kept) \in Seq(Notes)
    <3> HIDE DEF kept
    <3> QED BY <1>1, <2>1
  <2>3. <<[id |-> n, read |-> FALSE]>> \in Seq(Notes)
    <3>1. [id |-> n, read |-> FALSE] \in Notes
      BY DEF Notes
    <3> QED BY <3>1
  <2> QED BY <2>2, <2>3 DEF AddNotification
<1>3. MarkAllRead(list) \in Seq(Notes)
  <2>1. \A x \in Notes : [x EXCEPT !.read = TRUE] \in Notes
    BY DEF Notes
  <2>2. MarkAllRead(list) \in [1 .. Len(list) -> Notes]
    BY <1>1, <2>1 DEF MarkAllRead
  <2> QED BY <1>1, <2>2
<1> QED BY <1>2, <1>3

LEMMA NotesInitial == NotesInit => NotesInv
BY NotesAssumption DEF NotesInit, NotesInv, NotesTypeOK

LEMMA NotesStep == NotesInv /\ [NotesNext]_noteVars => NotesInv'
<1> SUFFICES ASSUME NotesInv, [NotesNext]_noteVars PROVE NotesInv'
  OBVIOUS
<1>a. /\ notes \in [NTabs -> Seq(Notes)] /\ raised \in 0 .. MaxNotes
      /\ es \in [NTabs -> {"connecting", "open", "refused"}] /\ bellOpen \in [NTabs -> BOOLEAN]
      /\ subscribed \in [NProcesses -> SUBSET NTabs] /\ roleUsers \in [NProcesses -> SUBSET NAgents]
  BY DEF NotesInv, NotesTypeOK, Notes
<1>b. ASSUME NEW t \in NTabs PROVE notes[t] \in Seq(Notes)
  BY <1>a
<1>1. ASSUME notes' \in [NTabs -> Seq(Notes)], bellOpen' \in [NTabs -> BOOLEAN],
             raised' \in 0 .. MaxNotes, UNCHANGED <<subscribed, roleUsers, es>>
      PROVE  NotesInv'
  BY <1>1 DEF NotesInv, NotesTypeOK, Notes
<1>2. ASSUME NEW p, NEW users, NEW type, Push(p, users, type) PROVE NotesInv'
  <2>1. raised + 1 \in 1 .. MaxNotes /\ raised' = raised + 1
    BY <1>2, <1>a, NotesAssumption DEF Push
  <2>2. ASSUME NEW t \in NTabs PROVE AddNotification(notes[t], raised + 1) \in Seq(Notes)
    BY <1>b, <2>1, BellKept
  <2>3. notes' \in [NTabs -> Seq(Notes)]
    BY <1>2, <1>b, <2>2 DEF Push
  <2> QED BY <1>2, <1>a, <1>1, <2>1, <2>3 DEF Push
<1>3. ASSUME NEW t \in NTabs, NEW p \in NProcesses, SubscribeUser(t, p) \/ StreamEnds(t, p)
      PROVE  NotesInv'
  <2>1. es' \in [NTabs -> {"connecting", "open", "refused"}]
    BY <1>3, <1>a DEF SubscribeUser, StreamEnds
  <2>2. subscribed' \in [NProcesses -> SUBSET NTabs]
    <3>1. PICK set : subscribed' = [subscribed EXCEPT ![p] = set] /\ set \subseteq NTabs
      <4>1. subscribed[p] \subseteq NTabs
        BY <1>a
      <4>2. CASE SubscribeUser(t, p)
        BY <4>1, <4>2 DEF SubscribeUser
      <4>3. CASE StreamEnds(t, p)
        BY <4>1, <4>3 DEF StreamEnds
      <4> QED BY <1>3, <4>2, <4>3
    <3> QED BY <1>a, <3>1
  <2>3. roleUsers' \in [NProcesses -> SUBSET NAgents]
    <3>1. PICK set : roleUsers' = [roleUsers EXCEPT ![p] = set] /\ set \subseteq NAgents
      <4>1. roleUsers[p] \subseteq NAgents
        BY <1>a
      <4>2. CASE SubscribeUser(t, p)
        BY <4>1, <4>2 DEF SubscribeUser
      <4>3. CASE StreamEnds(t, p)
        BY <4>1, <4>3 DEF StreamEnds
      <4> QED BY <1>3, <4>2, <4>3
    <3> QED BY <1>a, <3>1
  <2>4. UNCHANGED <<bellOpen, notes, raised>>
    BY <1>3 DEF SubscribeUser, StreamEnds
  <2> QED BY <1>a, <2>1, <2>2, <2>3, <2>4 DEF NotesInv, NotesTypeOK, Notes
<1>4. ASSUME NEW t \in NTabs, HandleOpen(t) \/ NotificationBell(t) PROVE NotesInv'
  <2>1. notes' \in [NTabs -> Seq(Notes)]
    BY <1>4, <1>a, <1>b, BellKept DEF HandleOpen, NotificationBell
  <2>2. ASSUME NEW b \in BOOLEAN PROVE [bellOpen EXCEPT ![t] = b] \in [NTabs -> BOOLEAN]
    BY <1>a
  <2>3. [bellOpen EXCEPT ![t] = ~bellOpen[t]] \in [NTabs -> BOOLEAN]
        /\ [bellOpen EXCEPT ![t] = FALSE] \in [NTabs -> BOOLEAN]
    <3>1. (~bellOpen[t]) \in BOOLEAN /\ FALSE \in BOOLEAN
      OBVIOUS
    <3> QED BY <2>2, <3>1
  <2>4. bellOpen' \in [NTabs -> BOOLEAN]
    BY <1>4, <1>a, <2>3 DEF HandleOpen, NotificationBell
  <2> QED BY <1>4, <1>a, <1>1, <2>1, <2>4 DEF HandleOpen, NotificationBell
<1>5. ASSUME NEW t \in NTabs, RefuseStream(t) PROVE NotesInv'
  BY <1>5 DEF RefuseStream, NotesInv, NotesTypeOK
<1>6. CASE UNCHANGED noteVars
  BY <1>6 DEF noteVars, NotesInv, NotesTypeOK
<1>7. ASSUME NEW p \in NProcesses, NotifyRole(p) PROVE NotesInv'
  BY <1>7, <1>2 DEF NotifyRole
<1>8. ASSUME NEW p \in NProcesses, NEW t \in NTabs, NotifyUser(NUserOf[t], p) PROVE NotesInv'
  <2> DEFINE type == IF NUserOf[t] \in NAgents THEN "quote_accepted" ELSE "quote_ready"
  <2>1. Push(p, {NUserOf[t]}, type)
    BY <1>8 DEF NotifyUser
  <2> HIDE DEF type
  <2> QED BY <2>1, <1>2
<1> QED BY <1>3, <1>4, <1>5, <1>6, <1>7, <1>8 DEF NotesNext

\* Every reachable state of the bells is well typed: each keeps notifications
\* that were raised, however streams end and reconnect.
THEOREM NotesTypeCorrect == NotesSpec => []NotesTypeOK
<1>1. NotesInv => NotesTypeOK
  BY DEF NotesInv
<1> QED BY NotesInitial, NotesStep, <1>1, PTL DEF NotesSpec

-----------------------------------------------------------------------------
(* All the screens *)

\* A behaviour that plays one screen is one of every screen: those it does not
\* play stutter.
LEMMA ScreensApart ==
  Spec => ChatSpec /\ NotesSpec /\ QSpec /\ PSpec /\ SSpec /\ BSpec /\ RSpec
<1>1. Init => ChatInit /\ NotesInit /\ QInit /\ PInit /\ SInit /\ BInit /\ RInit
  BY DEF Init
<1>2. [Next]_screens => /\ [ChatNext]_chatVars /\ [NotesNext]_noteVars /\ [QNext]_qVars
                        /\ [PNext]_pVars /\ [SNext]_sVars /\ [BNext]_bVars /\ [RNext]_rVars
  BY DEF Next, screens
<1> QED BY <1>1, <1>2, PTL DEF Spec, ChatSpec, NotesSpec, QSpec, PSpec, SSpec, BSpec, RSpec

Scened == scene \in {"room", "bell", "quotation", "price", "standalone", "build", "request"}

\* Whichever screen is played, it is well typed in every reachable state.
THEOREM ScreensTypeCorrect == Spec => []TypeOK
<1>1. /\ ChatTypeOK /\ NotesTypeOK /\ QTypeOK /\ PTypeOK /\ STypeOK /\ BTypeOK /\ RTypeOK
      /\ Scened
      => TypeOK
  BY DEF TypeOK, Scened
<1>2. Init => Scened
  BY DEF Init, Scened
<1>3. Scened /\ [Next]_screens => Scened'
  BY DEF Next, screens, Scened
<1> QED BY <1>1, <1>2, <1>3, ScreensApart, ChatTypeCorrect, NotesTypeCorrect, QTypeCorrect,
           PTypeCorrect, STypeCorrect, BTypeCorrect, RTypeCorrect, PTL DEF Spec

\* Everything the screens promise one by one holds when any of them is played:
\* messages, quotations' and requests' answers, what is filed and what is sent.
THEOREM ScreensKeepTheirWord ==
  Spec => /\ [](NothingLostWhileOpen /\ OwnActionShown /\ OwnAnswerShown)
          /\ [](FiledAsCalculated /\ CodeShownIsSent /\ MinimumOrderMet)
BY ScreensApart, AnnouncedStays, OwnActionsStay, AnswersStay, QuotedByTheServer,
   DropdownsTellTheCode, QuotedAboveMinimum, PTL

=============================================================================
