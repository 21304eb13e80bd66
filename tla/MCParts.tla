------------------------------- MODULE MCParts -------------------------------
(***************************************************************************)
(* Parts of which only safety is asked: the gate of the gap recovery while *)
(* its requests answer, the range and the pages of a repair, the path of   *)
(* the trades and tickers over restarts, and the verification of a         *)
(* directory that changes.  They share nothing: a behaviour is of one,     *)
(* chosen once.                                                            *)
(***************************************************************************)
EXTENDS GapRecovery, HistoryRange, Quotes, Verification

VARIABLE part

partsVars == <<part, vars, rangeVars, quotesVars, verificationVars>>

\* A part that is not the one of the behaviour rests in few of its states.
PartsInit ==
    /\ part \in {"gate", "range", "quotes", "verification"}
    /\ Init /\ QuotesInit /\ VerificationInit /\ RangeInit
    /\ part # "verification" => \A n \in Names : directory[n].kind = "absent"
    /\ part # "range" => interval.length = 1 /\ outages = {} /\ serverTime = 1

GateStep == part = "gate" /\ Next /\ UNCHANGED <<part, rangeVars, quotesVars, verificationVars>>
RangeStep == part = "range" /\ RangeNext /\ UNCHANGED <<part, vars, quotesVars, verificationVars>>
QuotesStep ==
    part = "quotes" /\ QuotesNext /\ UNCHANGED <<part, vars, rangeVars, verificationVars>>
VerificationStep ==
    part = "verification" /\ VerificationNext /\ UNCHANGED <<part, vars, rangeVars, quotesVars>>

PartsSpec ==
    PartsInit /\ [][GateStep \/ RangeStep \/ QuotesStep \/ VerificationStep]_partsVars
=============================================================================
