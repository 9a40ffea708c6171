---------------------------- MODULE StreamChannel ----------------------------
(***************************************************************************)
(* How a batch reads Metax's answer: the goroutine of ReadStreamChannel    *)
(* (pkg/metax/api.go) decodes the records of the response body and hands   *)
(* them over the unbuffered channel outc to the loop of syncBatch          *)
(* (internal/shared/fetch.go), which writes each to the database and       *)
(* commits when outc is closed.  Errors go over errc, which holds one.     *)
(*                                                                         *)
(* The body is what arrives of the JSON array: a sequence of "[", "rec",   *)
(* "]" and "bad" (anything that is not JSON, half a record included).      *)
(* Reading past its end fails, be it the end of the file, a lost           *)
(* connection or the ten seconds the HTTP client gives a response.         *)
(***************************************************************************)
EXTENDS Naturals, Sequences, SequencesExt

CONSTANT MaxRecords     \* bound: records in an answer

ASSUME StreamAssumption == MaxRecords \in Nat

VARIABLES
    answer,   \* the body as it arrives, whole
    body,     \* what of it is not read yet
    ppc,      \* what the goroutine does next
    cpc,      \* what the loop does next, or how it ended
    errc,     \* the error in the channel
    closed,   \* whether outc is closed
    decoded,  \* records the goroutine decoded
    written,  \* records the loop wrote in its transaction
    expired   \* whether the fifteen seconds of the batch's context are over

streamVars == <<answer, body, ppc, cpc, errc, closed, decoded, written, expired>>

ProducerPCs == {"start", "more", "sending", "end", "closing", "done"}
Endings == {"committed", "failed", "timedout"}
ConsumerPCs == {"select", "sync", "commit"} \cup Endings

Complete(n) == <<"[">> \o [k \in 1 .. n |-> "rec"] \o <<"]">>

\* The array whole, cut off anywhere, or cut off and followed by something else.
Answers ==
    LET cut == UNION {Prefixes(Complete(n)) : n \in 0 .. MaxRecords}
    IN cut \cup {Append(a, "bad") : a \in cut}

StreamTypeOK ==
    /\ answer \in Answers
    /\ IsSuffix(body, answer)
    /\ ppc \in ProducerPCs
    /\ cpc \in ConsumerPCs
    /\ errc \in {<< >>, <<"error">>}
    /\ closed \in BOOLEAN
    /\ decoded \in 0 .. MaxRecords
    /\ written \in 0 .. decoded
    /\ expired \in BOOLEAN

StreamInit ==
    /\ answer \in Answers
    /\ body = answer
    /\ ppc = "start"
    /\ cpc = "select"
    /\ errc = << >>
    /\ closed = FALSE
    /\ decoded = 0 /\ written = 0
    /\ expired = FALSE

\* ctx.Done(): the context expires, or the loop cancels it as it returns.
Cancelled == expired \/ cpc \in Endings

Ahead(token) == body # << >> /\ Head(body) = token

-----------------------------------------------------------------------------
(* The goroutine.                                                          *)

\* errc <- err, which would block if the channel were full.
SendError(pc) == errc = << >> /\ errc' = <<"error">> /\ ppc' = pc

StartStream ==
    /\ ppc = "start"
    /\ IF Ahead("[")
       THEN body' = Tail(body) /\ ppc' = "more" /\ UNCHANGED errc
       ELSE SendError("done") /\ UNCHANGED body
    /\ UNCHANGED <<answer, cpc, closed, decoded, written, expired>>

\* dec.More() is false at the end of the array, and also when reading fails.
More ==
    /\ ppc = "more"
    /\ IF body = << >> \/ Ahead("]")
       THEN ppc' = "end" /\ UNCHANGED <<body, errc, decoded>>
       ELSE IF Ahead("rec")
       THEN /\ body' = Tail(body)
            /\ decoded' = decoded + 1
            /\ ppc' = "sending"
            /\ UNCHANGED errc
       ELSE SendError("done") /\ UNCHANGED <<body, decoded>>
    /\ UNCHANGED <<answer, cpc, closed, written, expired>>

\* outc <- &rec, which the loop receives.
SendRecord ==
    /\ ppc = "sending" /\ cpc = "select"
    /\ ppc' = "more" /\ cpc' = "sync"
    /\ UNCHANGED <<answer, body, errc, closed, decoded, written, expired>>

\* Mutant: the goroutine only waits for the loop to receive.
GiveUpNever == FALSE /\ UNCHANGED streamVars

\* Mutant: outc is closed on every way out.
GiveUpClosing ==
    /\ ppc = "sending" /\ Cancelled
    /\ ppc' = "closing"
    /\ UNCHANGED <<answer, body, cpc, errc, closed, decoded, written, expired>>

GiveUp ==
    /\ ppc = "sending" /\ Cancelled
    /\ ppc' = "done"
    /\ UNCHANGED <<answer, body, cpc, errc, closed, decoded, written, expired>>

EndStream ==
    /\ ppc = "end"
    /\ IF Ahead("]")
       THEN body' = Tail(body) /\ ppc' = "closing" /\ UNCHANGED errc
       ELSE SendError("closing") /\ UNCHANGED body
    /\ UNCHANGED <<answer, cpc, closed, decoded, written, expired>>

CloseOutc ==
    /\ ppc = "closing"
    /\ closed' = TRUE
    /\ ppc' = "done"
    /\ UNCHANGED <<answer, body, cpc, errc, decoded, written, expired>>

-----------------------------------------------------------------------------
(* The loop of syncBatch: select takes any of the cases that are ready.    *)

SyncRecord ==
    /\ cpc = "sync"
    /\ written' = written + 1
    /\ cpc' = "select"
    /\ UNCHANGED <<answer, body, ppc, errc, closed, decoded, expired>>

\* Mutant: the record received from the closed channel is not told from a real one.
AllReadUnchecked ==
    /\ cpc = "select" /\ closed
    /\ cpc' = "sync"
    /\ UNCHANGED <<answer, body, ppc, errc, closed, decoded, written, expired>>

AllRead ==
    /\ cpc = "select" /\ closed
    /\ cpc' = "commit"
    /\ UNCHANGED <<answer, body, ppc, errc, closed, decoded, written, expired>>

StreamError ==
    /\ cpc = "select" /\ errc # << >>
    /\ errc' = << >>
    /\ cpc' = "failed"
    /\ UNCHANGED <<answer, body, ppc, closed, decoded, written, expired>>

TimedOut ==
    /\ cpc = "select" /\ expired
    /\ cpc' = "timedout"
    /\ UNCHANGED <<answer, body, ppc, errc, closed, decoded, written, expired>>

CommitBatch ==
    /\ cpc = "commit"
    /\ cpc' \in {"committed", "failed"}
    /\ UNCHANGED <<answer, body, ppc, errc, closed, decoded, written, expired>>

Expire ==
    /\ ~expired /\ cpc \notin Endings
    /\ expired' = TRUE
    /\ UNCHANGED <<answer, body, ppc, cpc, errc, closed, decoded, written>>

-----------------------------------------------------------------------------
Producer == StartStream \/ More \/ GiveUp \/ EndStream \/ CloseOutc

Consumer == SendRecord \/ SyncRecord \/ AllRead \/ StreamError \/ TimedOut \/ CommitBatch

StreamNext == Producer \/ Consumer \/ Expire

(* Both goroutines are scheduled; the context need not expire.             *)
StreamSpec ==
    StreamInit /\ [][StreamNext]_streamVars /\ WF_streamVars(Producer) /\ WF_streamVars(Consumer)

-----------------------------------------------------------------------------
(* Properties.                                                             *)

(* A batch is committed only with every record written that was decoded,   *)
(* and none is on its way any more: however the end of the stream, the     *)
(* timeout and the last records race, select does not overtake a record.   *)
CommitsAllDecoded == cpc \in {"commit", "committed"} => written = decoded /\ ppc = "done"

(* Neither goroutine is left behind, whatever happens: the batch ends and  *)
(* gives its connection back, and the goroutine closes the response body.  *)
BothEnd == <>(ppc = "done" /\ cpc \in Endings)
===============================================================================
