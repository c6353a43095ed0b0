---------------------------- MODULE QuoteBuilder ----------------------------
(***************************************************************************)
(* The page on which an agent quotes an RFQ: its quantity comes from the   *)
(* RFQ's product, once loaded, and from the AI extraction before that; its *)
(* price is calculated for every quantity and unit price; a catalogue      *)
(* product may be linked, whose minimum order must be met.                 *)
(***************************************************************************)
EXTENDS QueryCache, FiniteSets

CONSTANTS BQuantities, \* quantities
          BPrices,     \* unit prices
          BMaxFaults   \* bound: requests that fail

ASSUME BAssumption ==
  BQuantities \subseteq Nat \ {0} /\ BPrices \subseteq Nat \ {0} /\ BMaxFaults \in Nat

VARIABLES
  bReal,      \* server: quantity of the RFQ's first product, 0 without products
  bExtracted, \* server: the RFQ's extracted_entities: quantity and unit price (0: missing)
  bRfq,       \* cache: ["rfq", id]
  bProducts,  \* cache: ["rfq-products", id]: the quantity
  bCalc,      \* cache: ["pricing-calc", id, price, quantity]
  bManual,    \* manualUnitPrice, 0 if empty
  bCatalog,   \* the catalogue product linked: its minimum order (0: it has none), or NoData
  bSending,   \* quotation on its way, or NoQuote
  bError,     \* submitError is shown
  bSent,      \* server: the quotation created, or NoQuote
  bFaults     \* counter for BMaxFaults

bServer == <<bReal, bExtracted>>
bPage == <<bManual, bCatalog, bSending, bError>>
bVars == <<bServer, bRfq, bProducts, bCalc, bPage, bSent, bFaults>>

NoQuote == [quantity |-> 0, moq |-> 0, linked |-> FALSE]
CalcKeys == BPrices \X BQuantities

BFault == bFaults < BMaxFaults /\ bFaults' = bFaults + 1

-----------------------------------------------------------------------------
(* What the page derives *)

\* The product's quantity once it is loaded, the extraction's otherwise.
ExtractPricingInput(extracted, products) ==
  [unitPrice |-> extracted.price,
   quantity |-> IF HasData(products) /\ products.data # 0 THEN products.data ELSE extracted.quantity]

EffectiveUnitPrice(extracted, manual) == IF manual > 0 THEN manual ELSE extracted.price

CalcKey(price, quantity) == <<price, quantity>>

\* The entry the page uses, if it has a price.
KeyInUse(products, manual) ==
  CalcKey(EffectiveUnitPrice(bExtracted, manual), ExtractPricingInput(bExtracted, products).quantity)

HasEffectivePrice(manual) == EffectiveUnitPrice(bExtracted, manual) > 0

\* The calculation is asked for as soon as its key is used.  Its values are
\* the quantities it was asked for.
UseCalc(rfq, products, manual) ==
  IF HasData(rfq) /\ HasEffectivePrice(manual)
    THEN [bCalc EXCEPT ![KeyInUse(products, manual)] =
            IF @.fresh \/ @.fetch # "idle" THEN @
            ELSE Serve(Fetch(@), ExtractPricingInput(bExtracted, products).quantity)]
    ELSE bCalc

MoqViolation == bCatalog > ExtractPricingInput(bExtracted, bProducts).quantity

\* The calculation shown; of one that failed, the result it had.
Calc == bCalc[KeyInUse(bProducts, bManual)]
CalcShown == HasEffectivePrice(bManual) /\ HasData(Calc)

-----------------------------------------------------------------------------

BInit ==
  /\ bReal \in BQuantities \cup {0}
  /\ bExtracted \in [quantity : BQuantities, price : {0} \cup BPrices]
  /\ bRfq = Mount(NoEntry) /\ bProducts = Mount(NoEntry)
  /\ bCalc = [key \in CalcKeys |-> NoEntry]
  /\ bManual = 0 /\ bCatalog = NoData /\ bSending = NoQuote /\ bError = FALSE
  /\ bSent = NoQuote /\ bFaults = 0

BGotRfq ==
  /\ bRfq.fetch = "asked" /\ bRfq' = Answer(Serve(bRfq, 1))
  /\ bCalc' = UseCalc(bRfq', bProducts, bManual)
  /\ UNCHANGED <<bServer, bProducts, bPage, bSent, bFaults>>

BGotProducts ==
  /\ bProducts.fetch = "asked" /\ bProducts' = Answer(Serve(bProducts, bReal))
  /\ bCalc' = UseCalc(bRfq, bProducts', bManual)
  /\ UNCHANGED <<bServer, bRfq, bPage, bSent, bFaults>>

BGotCalc(key) ==
  /\ bCalc[key].fetch = "read" /\ bCalc' = [bCalc EXCEPT ![key] = Answer(@)]
  /\ UNCHANGED <<bServer, bRfq, bProducts, bPage, bSent, bFaults>>

\* A calculation is not tried again; the other two are, once.
BFetchFails ==
  /\ BFault
  /\ \/ bRfq.fetch = "asked" /\ bRfq' = Fail(bRfq) /\ UNCHANGED <<bProducts, bCalc>>
     \/ bProducts.fetch = "asked" /\ bProducts' = Fail(bProducts) /\ UNCHANGED <<bRfq, bCalc>>
     \/ \E key \in CalcKeys : /\ bCalc[key].fetch = "read" /\ bCalc' = [bCalc EXCEPT ![key] = Fail(@)]
                              /\ UNCHANGED <<bRfq, bProducts>>
  /\ UNCHANGED <<bServer, bPage, bSent>>

\* The field is there when the extraction brought no price.
SetManualUnitPrice(price) ==
  /\ HasData(bRfq) /\ bExtracted.price = 0
  /\ bManual' = price
  /\ bCalc' = UseCalc(bRfq, bProducts, price)
  /\ UNCHANGED <<bServer, bRfq, bProducts, bCatalog, bSending, bError, bSent, bFaults>>

\* A catalogue product is searched for and linked, or taken off again.
SetSelectedCatalogProduct(moq) ==
  /\ HasData(bRfq) /\ (moq = NoData) # (bCatalog = NoData)
  /\ bCatalog' = moq
  /\ UNCHANGED <<bServer, bRfq, bProducts, bCalc, bManual, bSending, bError, bSent, bFaults>>

\* The payload is what the page shows when the button is pressed: the
\* quantity of the calculation, the product and its minimum order.
BuildPayload == [quantity |-> Calc.data, moq |-> IF bCatalog = NoData THEN 0 ELSE bCatalog,
                 linked |-> HasData(bProducts) /\ bProducts.data # 0]

\* Mutant of SendDisabled: the minimum order is only a warning.
SendUnchecked == bSending # NoQuote \/ bSent # NoQuote \/ ~CalcShown

SendDisabled == bSending # NoQuote \/ bSent # NoQuote \/ ~CalcShown \/ MoqViolation

SendQuote ==
  /\ HasData(bRfq) /\ ~SendDisabled
  /\ bSending' = BuildPayload /\ bError' = FALSE
  /\ UNCHANGED <<bServer, bRfq, bProducts, bCalc, bManual, bCatalog, bSent, bFaults>>

QuoteSent ==
  /\ bSending # NoQuote
  /\ bSent' = bSending /\ bSending' = NoQuote
  /\ UNCHANGED <<bServer, bRfq, bProducts, bCalc, bManual, bCatalog, bError, bFaults>>

QuoteRefused ==
  /\ bSending # NoQuote /\ BFault
  /\ bSending' = NoQuote /\ bError' = TRUE
  /\ UNCHANGED <<bServer, bRfq, bProducts, bCalc, bManual, bCatalog, bSent>>

BNext ==
  \/ BGotRfq \/ BGotProducts \/ BFetchFails \/ SendQuote \/ QuoteSent \/ QuoteRefused
  \/ \E key \in CalcKeys : BGotCalc(key)
  \/ \E price \in {0} \cup BPrices : SetManualUnitPrice(price)
  \/ \E moq \in {NoData, 0} \cup BQuantities : SetSelectedCatalogProduct(moq)

BSpec == BInit /\ [][BNext]_bVars

-----------------------------------------------------------------------------
(* Properties *)

\* Type invariant.
BTypeOK ==
  /\ bRfq \in EntryType({1}) /\ bProducts \in EntryType(BQuantities \cup {0})
  /\ bCalc \in [CalcKeys -> EntryType(BQuantities)]
  /\ bManual \in {0} \cup BPrices /\ bCatalog \in {NoData, 0} \cup BQuantities /\ bError \in BOOLEAN
  /\ {bSending, bSent} \subseteq
       [quantity : {0} \cup BQuantities, moq : {0} \cup BQuantities, linked : BOOLEAN]

\* The quantity a quotation names meets the minimum order of the catalogue
\* product linked to it, although the RFQ's quantity may change on the page
\* between the calculation and the sending.
MinimumOrderMet == bSent.quantity >= bSent.moq

=============================================================================
