------------------------- MODULE PricingCalculator -------------------------
(***************************************************************************)
(* The calculator of an RFQ's landed cost: an RFQ is chosen, inputs for    *)
(* its products are filled in from the server's list, the server           *)
(* calculates (or the browser estimates, when the server does not), and a  *)
(* quotation is made of the result.  Amounts are left out: inputs and      *)
(* results are told apart by the RFQs whose products they are about.       *)
(***************************************************************************)
EXTENDS QueryCache, FiniteSets

CONSTANTS PRfqs,     \* RFQs with an id
          PListed,   \* those in the list the page loads
          PEmpty,    \* those without products
          PMaxAnswered, \* bound: calculations the server has answered
          PMaxFiled, \* bound: quotations filed
          PMaxFaults \* bound: requests that fail

ASSUME PAssumption ==
  /\ PListed \subseteq PRfqs /\ PEmpty \subseteq PRfqs
  /\ PMaxAnswered \in Nat /\ PMaxFiled \in Nat /\ PMaxFaults \in Nat

VARIABLES
  pUrl,      \* RFQ in the page's address, or "none"
  pHere,     \* the calculator is the page shown
  pRfq,      \* selectedRfqId, or "none"
  pList,     \* cache: ["rfqs", "all", 1]
  pProducts, \* cache: ["rfq-products", id]
  pTimers,   \* setTimeout callbacks that will fill the inputs of an RFQ
  pInputs,   \* productInputs: RFQs whose products have an input
  pPort,     \* destinationPort is filled in
  pCalc,     \* request to calculate under way, or NoResult
  pAnswered, \* server: calculations it answered
  pResult,   \* result shown, or NoResult
  pError,    \* an error is shown
  pFiling,   \* request to create a quotation under way, or NoResult
  pFiled,    \* server: quotations created
  pFaults    \* counter for PMaxFaults

pVars == <<pUrl, pHere, pRfq, pList, pProducts, pTimers, pInputs, pPort, pCalc, pAnswered, pResult,
           pError, pFiling, pFiled, pFaults>>

NoResult == [rfq |-> "none", of |-> {}, served |-> FALSE]

\* The products of the RFQ chosen, once loaded.
Loaded(products, rfq) == rfq # "none" /\ HasData(products[rfq])
HasProducts == Loaded(pProducts, pRfq) /\ pRfq \notin PEmpty

UseProducts(products, rfq) ==
  IF rfq = "none" THEN products ELSE [products EXCEPT ![rfq] = Mount(@)]

PInit ==
  /\ pUrl \in PRfqs \cup {"none"} /\ pRfq = pUrl /\ pHere = TRUE
  /\ pList = Mount(NoEntry)
  /\ pProducts = UseProducts([r \in PRfqs |-> NoEntry], pRfq)
  /\ pTimers = {} /\ pInputs = {} /\ pPort = FALSE
  /\ pCalc = NoResult /\ pAnswered = {} /\ pResult = NoResult /\ pError = FALSE
  /\ pFiling = NoResult /\ pFiled = {} /\ pFaults = 0

PFault == pFaults < PMaxFaults /\ pFaults' = pFaults + 1

-----------------------------------------------------------------------------
(* The page *)

\* The card's button is disabled for an estimate.
PricingResultCard(result) == result # NoResult /\ result.served

\* The controls a layout of the page offers: the list of RFQs once loaded, and
\* below it the products of the RFQ chosen, or a text when there are none.
PricingCalcPageDesktop ==
  [rfq |-> pHere /\ HasData(pList), port |-> pHere, rows |-> pHere /\ HasProducts,
   calculate |-> pHere /\ HasProducts /\ pCalc = NoResult,
   quote |-> pHere /\ PricingResultCard(pResult) /\ pFiling = NoResult]

\* The layout of a phone leaves none out.
PricingCalcPageMobile == PricingCalcPageDesktop

POffers(control) == PricingCalcPageDesktop[control] \/ PricingCalcPageMobile[control]

-----------------------------------------------------------------------------
(* Choosing an RFQ, and the inputs of its products *)

\* Empty inputs and a list of products: a timer will fill the inputs.
Deferred(products, rfq, inputs) ==
  IF Loaded(products, rfq) /\ rfq \notin PEmpty /\ inputs = {} THEN {rfq} ELSE {}

\* Choosing nothing brings the RFQ of the address back, when it is listed.
AutoSelected(rfq) == IF rfq = "none" /\ pUrl \in PListed THEN pUrl ELSE rfq

HandleRfqChange(r) ==
  /\ POffers("rfq") /\ r # pRfq
  /\ pRfq' = AutoSelected(r)
  /\ pInputs' = {} /\ pResult' = NoResult /\ pError' = FALSE
  /\ pProducts' = UseProducts(pProducts, pRfq')
  /\ pTimers' = pTimers \cup Deferred(pProducts', pRfq', {})
  /\ UNCHANGED <<pUrl, pHere, pList, pPort, pCalc, pAnswered, pFiling, pFiled, pFaults>>

PopulateInputs(r) ==
  /\ r \in pTimers
  /\ pTimers' = pTimers \ {r} /\ pInputs' = {r}
  /\ UNCHANGED <<pUrl, pHere, pRfq, pList, pProducts, pPort, pCalc, pAnswered, pResult, pError, pFiling, pFiled,
                 pFaults>>

SetDestinationPort ==
  /\ POffers("port") /\ pPort' = ~pPort
  /\ UNCHANGED <<pUrl, pHere, pRfq, pList, pProducts, pTimers, pInputs, pCalc, pAnswered, pResult, pError, pFiling,
                 pFiled, pFaults>>

\* Changing a row adds its product to the inputs.
ProductsInputTable ==
  /\ POffers("rows")
  /\ pInputs' = pInputs \cup {pRfq}
  /\ UNCHANGED <<pUrl, pHere, pRfq, pList, pProducts, pTimers, pPort, pCalc, pAnswered, pResult, pError, pFiling,
                 pFiled, pFaults>>

-----------------------------------------------------------------------------
(* Calculating *)

\* Input problems end here; else the request carries what is filled in now.
Calculate ==
  /\ POffers("calculate") /\ Cardinality(pAnswered) < PMaxAnswered
  /\ IF pPort /\ pInputs # {}
       THEN pCalc' = [rfq |-> pRfq, of |-> pInputs, served |-> TRUE] /\ UNCHANGED <<pResult, pError>>
       ELSE pResult' = NoResult /\ pError' = TRUE /\ UNCHANGED pCalc
  /\ UNCHANGED <<pUrl, pHere, pRfq, pList, pProducts, pTimers, pInputs, pPort, pAnswered, pFiling,
                 pFiled, pFaults>>

\* The page may have moved to another RFQ meanwhile.
Calculated ==
  /\ pCalc # NoResult
  /\ pCalc' = NoResult /\ pResult' = pCalc /\ pError' = FALSE
  /\ pAnswered' = pAnswered \cup {pCalc}
  /\ UNCHANGED <<pUrl, pHere, pRfq, pList, pProducts, pTimers, pInputs, pPort, pFiling, pFiled, pFaults>>

\* An estimate of what the page holds by now.
CalculateLocalFallback == [rfq |-> pRfq, of |-> pInputs, served |-> FALSE]

CalculationFailed ==
  /\ pCalc # NoResult /\ PFault
  /\ pCalc' = NoResult
  /\ IF pPort /\ pInputs # {}
       THEN pResult' = CalculateLocalFallback /\ pError' = FALSE
       ELSE pResult' = NoResult /\ pError' = TRUE
  /\ UNCHANGED <<pUrl, pHere, pRfq, pList, pProducts, pTimers, pInputs, pPort, pAnswered, pFiling, pFiled>>

-----------------------------------------------------------------------------
(* The result and its quotation *)

\* Mutant of CreateQuote: filed under the RFQ chosen by now.
CreateQuoteForChosen ==
  /\ POffers("quote") /\ Cardinality(pFiled) < PMaxFiled
  /\ pFiling' = [pResult EXCEPT !.rfq = pRfq]
  /\ UNCHANGED <<pUrl, pHere, pRfq, pList, pProducts, pTimers, pInputs, pPort, pCalc, pAnswered, pResult,
                 pError, pFiled, pFaults>>

\* The quotation is for the RFQ the result came with.
CreateQuote ==
  /\ POffers("quote") /\ Cardinality(pFiled) < PMaxFiled
  /\ pFiling' = pResult
  /\ UNCHANGED <<pUrl, pHere, pRfq, pList, pProducts, pTimers, pInputs, pPort, pCalc, pAnswered, pResult, pError,
                 pFiled, pFaults>>

\* The quotation's page opens, from wherever the user is by now.
QuoteCreated ==
  /\ pFiling # NoResult
  /\ pFiled' = pFiled \cup {pFiling} /\ pFiling' = NoResult /\ pHere' = FALSE
  /\ UNCHANGED <<pUrl, pRfq, pList, pProducts, pTimers, pInputs, pPort, pCalc, pAnswered, pResult, pError, pFaults>>

\* Refused or lost; nothing is shown.
QuoteNotCreated ==
  /\ pFiling # NoResult /\ PFault
  /\ pFiling' = NoResult
  /\ UNCHANGED <<pUrl, pHere, pRfq, pList, pProducts, pTimers, pInputs, pPort, pCalc, pAnswered, pResult, pError, pFiled>>

\* The RFQ's page, or any other.
LeaveCalculator ==
  /\ pHere /\ pHere' = FALSE
  /\ UNCHANGED <<pUrl, pRfq, pList, pProducts, pTimers, pInputs, pPort, pCalc, pAnswered, pResult, pError, pFiling,
                 pFiled, pFaults>>

-----------------------------------------------------------------------------
(* Fetches *)

GotRfqs ==
  /\ pList.fetch = "asked" /\ pList' = Answer(Serve(pList, 1))
  /\ UNCHANGED <<pUrl, pHere, pRfq, pProducts, pTimers, pInputs, pPort, pCalc, pAnswered, pResult, pError, pFiling,
                 pFiled, pFaults>>

GotProducts(r) ==
  /\ pProducts[r].fetch = "asked"
  /\ pProducts' = [pProducts EXCEPT ![r] = Answer(Serve(@, 1))]
  /\ pTimers' = pTimers \cup (IF pHere THEN Deferred(pProducts', pRfq, pInputs) ELSE {})
  /\ UNCHANGED <<pUrl, pHere, pRfq, pList, pInputs, pPort, pCalc, pAnswered, pResult, pError, pFiling, pFiled, pFaults>>

CalculatorFetchFails(r) ==
  /\ PFault
  /\ \/ pList.fetch = "asked" /\ pList' = Fail(pList) /\ UNCHANGED pProducts
     \/ pProducts[r].fetch = "asked" /\ pProducts' = [pProducts EXCEPT ![r] = Fail(@)] /\ UNCHANGED pList
  /\ UNCHANGED <<pUrl, pHere, pRfq, pTimers, pInputs, pPort, pCalc, pAnswered, pResult, pError, pFiling, pFiled>>

PNext ==
  \/ SetDestinationPort \/ ProductsInputTable \/ Calculate \/ Calculated \/ CalculationFailed
  \/ CreateQuote \/ QuoteCreated \/ QuoteNotCreated \/ LeaveCalculator \/ GotRfqs
  \/ \E r \in PListed \cup {"none"} : HandleRfqChange(r)
  \/ \E r \in PRfqs : PopulateInputs(r) \/ GotProducts(r) \/ CalculatorFetchFails(r)

PSpec == PInit /\ [][PNext]_pVars

-----------------------------------------------------------------------------
(* Properties *)

\* Type invariant.
PTypeOK ==
  /\ pRfq \in PRfqs \cup {"none"} /\ pTimers \subseteq PRfqs /\ pInputs \subseteq PRfqs
  /\ pList \in EntryType({1}) /\ pProducts \in [PRfqs -> EntryType({1})]
  /\ {pCalc, pResult, pFiling} \cup pAnswered \cup pFiled
       \subseteq [rfq : PRfqs \cup {"none"}, of : SUBSET PRfqs, served : BOOLEAN]
  /\ {pHere, pPort, pError} \subseteq BOOLEAN

\* A quotation is one of the calculations the server answered, for the RFQ and
\* with the products of that calculation: whichever RFQ is chosen when the
\* answer arrives or the quotation is asked for, and never the browser's
\* estimate of what the page holds by then.
FiledAsCalculated == pFiled \subseteq pAnswered

=============================================================================
