------------------------ MODULE StandaloneCalculator ------------------------
(***************************************************************************)
(* The calculator without an RFQ: rows of products typed in by the user,   *)
(* each with a dropdown to pick an HS code from the server's list, a       *)
(* calculation over the complete rows, and a quotation asked for of its    *)
(* result, which the server never makes: its endpoint reads the current    *)
(* user from a dependency that returns none, and answers 500.  Amounts are *)
(* left out: of a row only what decides whether it is sent.                *)
(***************************************************************************)
EXTENDS QueryCache, Sequences, SequencesExt

CONSTANTS SMaxRows,  \* bound: rows
          SMaxFaults \* bound: requests that fail

ASSUME SBounds == SMaxRows \in Nat \ {0} /\ SMaxFaults \in Nat

VARIABLES
  sRows,   \* products, in order
  sText,   \* per index: the query typed or shown in the dropdown of the row there
  sTyped,  \* per index: the query was typed and nothing was picked since
  sCodes,  \* cache: ["hs-codes"]
  sPort,   \* destinationPort is filled in
  sCalc,   \* rows of the request to calculate under way, {} if none
  sResult, \* rows of the result shown, {} if none
  sServed, \* the result is the server's, not an estimate
  sError,  \* an error is shown
  sFiling, \* rows of the quotation being created, {} if none
  sFaults  \* counter for SMaxFaults

sForm == <<sRows, sText, sTyped, sPort>>
sOutcome == <<sResult, sServed, sError>>
sVars == <<sForm, sCodes, sCalc, sOutcome, sFiling, sFaults>>

\* A row: its name and its price are filled in, and its HS code (0: none).
DefaultProduct == [name |-> FALSE, priced |-> FALSE, hs |-> 0]
HsCodes == 0 .. 1

SInit ==
  /\ sRows = <<DefaultProduct>> /\ sText = <<0>> /\ sTyped = <<FALSE>>
  /\ sCodes = Mount(NoEntry) /\ sPort = FALSE
  /\ sCalc = {} /\ sResult = {} /\ sServed = FALSE /\ sError = FALSE
  /\ sFiling = {} /\ sFaults = 0

SFault == sFaults < SMaxFaults /\ sFaults' = sFaults + 1

-----------------------------------------------------------------------------
(* The page *)

\* The card offers a quotation of a result that is not an estimate.
StandaloneResultCard == sResult # {} /\ sServed /\ sFiling = {}
MobileResultCard == StandaloneResultCard

\* The controls a layout of the page offers.
StandaloneCalcPageDesktop ==
  [form |-> TRUE, reset |-> sResult # {}, calculate |-> sCalc = {}, quote |-> StandaloneResultCard]

StandaloneCalcPageMobile ==
  [StandaloneCalcPageDesktop EXCEPT !.quote = MobileResultCard]

SOffers(control) == StandaloneCalcPageDesktop[control] \/ StandaloneCalcPageMobile[control]

-----------------------------------------------------------------------------
(* Rows *)

\* Mutant of Shown: the dropdown keeps what it shows.
ShownAsBefore(before, after, i) == [text |-> sText[i], typed |-> sTyped[i]]

\* A dropdown belongs to an index, not to a row: it keeps what it shows until
\* the code of the row at its index changes.
Shown(before, after, i) ==
  IF after[i].hs # before[i].hs
    THEN [text |-> after[i].hs, typed |-> FALSE]
    ELSE [text |-> sText[i], typed |-> sTyped[i]]

\* Rows are replaced and drawn: an index without a row before starts afresh.
SetProducts(rows) ==
  LET drawn == [i \in 1 .. Len(rows) |->
                  IF i <= Len(sRows) THEN Shown(sRows, rows, i)
                                     ELSE [text |-> rows[i].hs, typed |-> FALSE]]
  IN /\ sRows' = rows
     /\ sText' = [i \in DOMAIN drawn |-> drawn[i].text]
     /\ sTyped' = [i \in DOMAIN drawn |-> drawn[i].typed]

AddProduct ==
  /\ SOffers("form") /\ Len(sRows) < SMaxRows
  /\ SetProducts(Append(sRows, DefaultProduct))
  /\ UNCHANGED <<sPort, sCodes, sCalc, sOutcome, sFiling, sFaults>>

\* The only row cannot be removed.
RemoveProduct(i) ==
  /\ SOffers("form") /\ Len(sRows) > 1
  /\ SetProducts(RemoveAt(sRows, i))
  /\ UNCHANGED <<sPort, sCodes, sCalc, sOutcome, sFiling, sFaults>>

\* Name and price of a row, on the table's row or on the phone's card.
UpdateProduct(i) ==
  /\ SOffers("form")
  /\ \E name \in BOOLEAN, priced \in BOOLEAN :
       SetProducts([sRows EXCEPT ![i].name = name, ![i].priced = priced])
  /\ UNCHANGED <<sPort, sCodes, sCalc, sOutcome, sFiling, sFaults>>

\* What is typed in the dropdown is only a query: the row keeps its code.
TypeQuery(i, text) ==
  /\ SOffers("form")
  /\ sText' = [sText EXCEPT ![i] = text] /\ sTyped' = [sTyped EXCEPT ![i] = TRUE]
  /\ UNCHANGED <<sRows, sPort, sCodes, sCalc, sOutcome, sFiling, sFaults>>

\* A code is picked from the list, or the dropdown cleared.
HSCodeDropdown(i, code) ==
  /\ SOffers("form") /\ (code = 0 \/ HasData(sCodes))
  /\ sRows' = [sRows EXCEPT ![i].hs = code]
  /\ sText' = [sText EXCEPT ![i] = code] /\ sTyped' = [sTyped EXCEPT ![i] = FALSE]
  /\ UNCHANGED <<sPort, sCodes, sCalc, sOutcome, sFiling, sFaults>>

SetPort ==
  /\ SOffers("form") /\ sPort' = ~sPort
  /\ UNCHANGED <<sRows, sText, sTyped, sCodes, sCalc, sOutcome, sFiling, sFaults>>

\* A calculation under way goes on, and its result will show.
Reset ==
  /\ SOffers("reset")
  /\ SetProducts(<<DefaultProduct>>)
  /\ sPort' = FALSE /\ sResult' = {} /\ sServed' = FALSE /\ sError' = FALSE
  /\ UNCHANGED <<sCodes, sCalc, sFiling, sFaults>>

-----------------------------------------------------------------------------
(* Calculating *)

Complete(row) == row.name /\ row.priced

\* The rows sent, without those that lack a name or a price.
Validate ==
  IF sPort THEN {[name |-> row.name, priced |-> row.priced] : row \in {r \in ToSet(sRows) : Complete(r)}}
           ELSE {}

NothingToCalculate == sResult' = {} /\ sServed' = FALSE /\ sError' = TRUE

SCalculate ==
  /\ SOffers("calculate")
  /\ IF Validate # {} THEN sCalc' = Validate /\ UNCHANGED sOutcome
                      ELSE NothingToCalculate /\ UNCHANGED sCalc
  /\ UNCHANGED <<sForm, sCodes, sFiling, sFaults>>

SCalculated ==
  /\ sCalc # {}
  /\ sResult' = sCalc /\ sServed' = TRUE /\ sError' = FALSE /\ sCalc' = {}
  /\ UNCHANGED <<sForm, sCodes, sFiling, sFaults>>

\* An estimate of the rows as they are by now.
SCalculationFailed ==
  /\ sCalc # {} /\ SFault
  /\ sCalc' = {}
  /\ IF Validate # {} THEN sResult' = Validate /\ sServed' = FALSE /\ sError' = FALSE
                      ELSE NothingToCalculate
  /\ UNCHANGED <<sForm, sCodes, sFiling>>

-----------------------------------------------------------------------------
(* The result and its quotation *)

SCreateQuote ==
  /\ SOffers("quote") /\ sFiling' = sResult
  /\ UNCHANGED <<sForm, sCodes, sCalc, sOutcome, sFaults>>

\* The error is shown, and the quotation can be asked for again.
SQuoteNotCreated ==
  /\ sFiling # {} /\ sFiling' = {}
  /\ UNCHANGED <<sForm, sCodes, sCalc, sOutcome, sFaults>>

GotHsCodes ==
  /\ sCodes.fetch = "asked"
  /\ \/ sCodes' = Answer(Serve(sCodes, 1)) /\ UNCHANGED sFaults
     \/ sCodes' = Fail(sCodes) /\ SFault
  /\ UNCHANGED <<sForm, sCalc, sOutcome, sFiling>>

SNext ==
  \/ AddProduct \/ SetPort \/ Reset \/ SCalculate \/ SCalculated \/ SCalculationFailed
  \/ SCreateQuote \/ SQuoteNotCreated \/ GotHsCodes
  \/ \E i \in 1 .. Len(sRows) :
       \/ RemoveProduct(i) \/ UpdateProduct(i)
       \/ \E code \in HsCodes : TypeQuery(i, code) \/ HSCodeDropdown(i, code)

SSpec == SInit /\ [][SNext]_sVars

-----------------------------------------------------------------------------
(* Properties *)

\* Type invariant.
STypeOK ==
  /\ Len(sRows) \in 1 .. SMaxRows
  /\ \A i \in 1 .. Len(sRows) : sRows[i] \in [name : BOOLEAN, priced : BOOLEAN, hs : HsCodes]
  /\ DOMAIN sText = 1 .. Len(sRows) /\ DOMAIN sTyped = 1 .. Len(sRows)
  /\ sCodes \in EntryType({1})
  /\ UNION {sCalc, sResult, sFiling} \subseteq [name : BOOLEAN, priced : BOOLEAN]

\* A dropdown shows the code its row will send, except for text typed in it
\* and never picked: not the code of a row removed before or of one reset.
CodeShownIsSent == \A i \in 1 .. Len(sRows) : ~sTyped[i] => sText[i] = sRows[i].hs

=============================================================================
