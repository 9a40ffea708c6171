---------------------------- MODULE StreamProofs ----------------------------
(***************************************************************************)
(* Proofs, for answers with any number of records, that a batch is never   *)
(* committed with a decoded record missing, and that what the two          *)
(* goroutines read and count is always of the answer.                      *)
(***************************************************************************)
EXTENDS StreamChannel, SequenceTheorems, TLAPS

\* The records between being decoded and being written: one the goroutine offers
\* and one the loop is at.
InHand == (IF ppc = "sending" THEN 1 ELSE 0) + (IF cpc = "sync" THEN 1 ELSE 0)

\* CommitsAllDecoded alone is not inductive: outc is closed only once the
\* goroutine is done, and until it is done no record leaves its hands but to the
\* loop.  (A goroutine that gave up dropped a record, and leaves outc open.)
StreamInv ==
    /\ ppc \in ProducerPCs /\ cpc \in ConsumerPCs
    /\ decoded \in Nat /\ written \in Nat
    /\ closed \in BOOLEAN
    /\ closed => ppc = "done"
    /\ cpc \in {"commit", "committed"} => closed
    /\ ppc # "done" \/ closed => decoded = written + InHand

LEMMA StreamInitInv ==
    ASSUME StreamInit
    PROVE  StreamInv
  <1>1. ppc = "start" /\ cpc = "select" /\ ~closed /\ closed \in BOOLEAN
    BY DEF StreamInit
  <1>2. decoded = 0 /\ written = 0
    BY DEF StreamInit
  <1> QED BY <1>1, <1>2 DEF StreamInv, InHand, ProducerPCs, ConsumerPCs, Endings

LEMMA StreamNextInv ==
    ASSUME StreamInv, [StreamNext]_streamVars
    PROVE  StreamInv'
  <1> USE DEF StreamInv, InHand, ProducerPCs, ConsumerPCs, Endings
  <1>1. CASE StartStream
    BY <1>1 DEF StartStream, SendError
  <1>2. CASE More
    BY <1>2 DEF More, SendError
  <1>3. CASE SendRecord
    BY <1>3 DEF SendRecord
  <1>4. CASE GiveUp
    BY <1>4 DEF GiveUp
  <1>5. CASE EndStream
    BY <1>5 DEF EndStream, SendError
  <1>6. CASE CloseOutc
    BY <1>6 DEF CloseOutc
  <1>7. CASE SyncRecord
    BY <1>7 DEF SyncRecord
  <1>8. CASE AllRead
    BY <1>8 DEF AllRead
  <1>9. CASE StreamError \/ TimedOut \/ CommitBatch
    BY <1>9 DEF StreamError, TimedOut, CommitBatch
  <1>10. CASE Expire
    BY <1>10 DEF Expire
  <1>11. CASE UNCHANGED streamVars
    BY <1>11 DEF streamVars
  <1> QED BY <1>1, <1>2, <1>3, <1>4, <1>5, <1>6, <1>7, <1>8, <1>9, <1>10, <1>11
          DEF StreamNext, Producer, Consumer

(* However the end of the stream, the timeout, an error and the last       *)
(* records race in the select of syncBatch, a batch is committed only with *)
(* every decoded record written.                                           *)
THEOREM NoDecodedRecordIsLost == StreamSpec => []CommitsAllDecoded
  <1>1. StreamInit => StreamInv
    BY StreamInitInv
  <1>2. StreamInv /\ [StreamNext]_streamVars => StreamInv'
    BY StreamNextInv
  <1>3. StreamInv => CommitsAllDecoded
    BY DEF StreamInv, CommitsAllDecoded, InHand
  <1> QED BY <1>1, <1>2, <1>3, PTL DEF StreamSpec

-----------------------------------------------------------------------------
(* Type correctness.  The records decoded are no more than the tokens read *)
(* after the opening bracket, and an answer has no more than MaxRecords    *)
(* after its own; so the tokens read are counted, as the unread body tells.*)

Tokens == {"[", "rec", "]", "bad"}

TokensRead == Len(answer) - Len(body)

StreamTyped ==
    /\ answer \in Answers
    /\ body \in Seq(Tokens)
    /\ Len(body) <= Len(answer)
    /\ \A i \in 1 .. Len(body) : body[i] = answer[TokensRead + i]
    /\ errc \in {<< >>, <<"error">>}
    /\ closed \in BOOLEAN /\ expired \in BOOLEAN
    /\ decoded <= MaxRecords
    /\ decoded = 0 \/ decoded < TokensRead
    /\ written + (IF cpc = "sync" THEN 1 ELSE 0) <= decoded

\* The records of an array are between its brackets.
LEMMA CompleteRecords ==
    ASSUME NEW n \in 0 .. MaxRecords
    PROVE  /\ Complete(n) \in Seq(Tokens)
           /\ \A i \in 1 .. Len(Complete(n)) : Complete(n)[i] = "rec" => i \in 2 .. MaxRecords + 1
  <1> DEFINE open == <<"[">>
             recs == [k \in 1 .. n |-> "rec"]
             shut == <<"]">>
             some == open \o recs
  <1>1. MaxRecords \in Nat /\ n \in Nat /\ n <= MaxRecords
    BY StreamAssumption
  <1>2. open \in Seq(Tokens) /\ Len(open) = 1 /\ open[1] = "["
    BY DEF Tokens
  <1>3. recs \in Seq(Tokens) /\ Len(recs) = n
    BY <1>1 DEF Tokens
  <1>4. shut \in Seq(Tokens) /\ Len(shut) = 1 /\ shut[1] = "]"
    BY DEF Tokens
  <1> HIDE DEF open, recs, shut
  <1>5. some \in Seq(Tokens) /\ Len(some) = n + 1 /\ some[1] = "["
    BY <1>1, <1>2, <1>3, ConcatProperties
  <1> HIDE DEF some
  <1>6. /\ some \o shut \in Seq(Tokens) /\ Len(some \o shut) = n + 2
        /\ (some \o shut)[1] = "[" /\ (some \o shut)[n + 2] = "]"
    BY <1>1, <1>4, <1>5, ConcatProperties
  <1>7. Complete(n) = some \o shut
    BY DEF Complete, some, open, recs, shut
  <1> QED BY <1>1, <1>6, <1>7

LEMMA AnswerRecords ==
    ASSUME NEW a \in Answers
    PROVE  /\ a \in Seq(Tokens)
           /\ \A i \in 1 .. Len(a) : a[i] = "rec" => i \in 2 .. MaxRecords + 1
  <1>1. ASSUME NEW c \in UNION {Prefixes(Complete(n)) : n \in 0 .. MaxRecords}
        PROVE  /\ c \in Seq(Tokens)
               /\ \A i \in 1 .. Len(c) : c[i] = "rec" => i \in 2 .. MaxRecords + 1
    <2>1. PICK n \in 0 .. MaxRecords : \E l \in 0 .. Len(Complete(n)) : c = SubSeq(Complete(n), 1, l)
      BY <1>1 DEF Prefixes
    <2>2. PICK l \in 0 .. Len(Complete(n)) : c = SubSeq(Complete(n), 1, l)
      BY <2>1
    <2> DEFINE whole == Complete(n)
    <2>3. /\ whole \in Seq(Tokens)
          /\ \A i \in 1 .. Len(whole) : whole[i] = "rec" => i \in 2 .. MaxRecords + 1
      BY CompleteRecords
    <2> HIDE DEF whole
    <2>4. l \in Nat /\ Len(whole) \in Nat /\ l <= Len(whole) /\ \A i \in 1 .. l : whole[i] \in Tokens
      BY <2>2, <2>3 DEF whole
    <2>5. /\ SubSeq(whole, 1, l) \in Seq(Tokens) /\ Len(SubSeq(whole, 1, l)) = l
          /\ \A i \in 1 .. l : SubSeq(whole, 1, l)[i] = whole[i]
      BY <2>4, SubSeqProperties
    <2> QED BY <2>2, <2>3, <2>4, <2>5 DEF whole
  <1>2. ASSUME NEW c \in UNION {Prefixes(Complete(n)) : n \in 0 .. MaxRecords}, a = Append(c, "bad")
        PROVE  /\ a \in Seq(Tokens)
               /\ \A i \in 1 .. Len(a) : a[i] = "rec" => i \in 2 .. MaxRecords + 1
    <2>1. /\ a \in Seq(Tokens) /\ Len(a) = Len(c) + 1 /\ a[Len(c) + 1] = "bad"
          /\ \A i \in 1 .. Len(c) : a[i] = c[i]
      BY <1>1, <1>2, AppendProperties DEF Tokens
    <2>2. Len(c) \in Nat
      BY <1>1
    <2> QED BY <1>1, <2>1, <2>2
  <1> QED BY <1>1, <1>2 DEF Answers

LEMMA StreamInitTyped ==
    ASSUME StreamInit
    PROVE  StreamTyped
  <1>1. answer \in Seq(Tokens) /\ body = answer /\ answer \in Answers
    BY AnswerRecords DEF StreamInit
  <1>2. TokensRead = 0 /\ Len(body) \in Nat
    BY <1>1 DEF TokensRead
  <1>3. \A i \in 1 .. Len(body) : body[i] = answer[TokensRead + i]
    BY <1>1, <1>2
  <1>4. /\ decoded = 0 /\ written = 0 /\ cpc = "select" /\ errc = << >>
        /\ closed = FALSE /\ expired = FALSE
    BY DEF StreamInit
  <1>5. decoded <= MaxRecords /\ written + (IF cpc = "sync" THEN 1 ELSE 0) <= decoded
    BY <1>4, StreamAssumption
  <1>6. body \in Seq(Tokens) /\ Len(body) <= Len(answer)
    BY <1>1, <1>2
  <1> QED BY <1>1, <1>3, <1>4, <1>5, <1>6 DEF StreamTyped

\* The next token read.
LEMMA ReadToken ==
    ASSUME StreamTyped, NEW token, Ahead(token), body' = Tail(body), UNCHANGED answer
    PROVE  /\ body' \in Seq(Tokens) /\ Len(body') \in Nat /\ Len(body') <= Len(answer)
           /\ TokensRead \in Nat /\ TokensRead' = TokensRead + 1
           /\ \A i \in 1 .. Len(body') : body'[i] = answer[TokensRead' + i]
           /\ token = "rec" => TokensRead \in 1 .. MaxRecords
  <1>1. /\ answer \in Seq(Tokens)
        /\ \A i \in 1 .. Len(answer) : answer[i] = "rec" => i \in 2 .. MaxRecords + 1
    BY AnswerRecords DEF StreamTyped
  <1>2. body \in Seq(Tokens) /\ body # << >> /\ body[1] = token /\ Len(body) <= Len(answer)
    BY DEF StreamTyped, Ahead
  <1>3. /\ body' \in Seq(Tokens) /\ Len(body') = Len(body) - 1
        /\ \A i \in 1 .. Len(body') : body'[i] = body[i + 1]
    BY <1>2, HeadTailProperties
  <1>4. Len(answer) \in Nat /\ Len(body) \in Nat /\ Len(body) # 0 /\ Len(body') \in Nat
    BY <1>1, <1>2, <1>3
  <1>5. TokensRead \in Nat /\ TokensRead' = TokensRead + 1 /\ TokensRead + 1 \in 1 .. Len(answer)
    BY <1>2, <1>3, <1>4 DEF TokensRead
  <1>6. \A i \in 1 .. Len(body) : body[i] = answer[TokensRead + i]
    BY DEF StreamTyped
  <1>7. ASSUME NEW i \in 1 .. Len(body')
        PROVE  body'[i] = answer[TokensRead' + i]
    <2>1. i + 1 \in 1 .. Len(body) /\ TokensRead + (i + 1) = TokensRead' + i
      BY <1>3, <1>4, <1>5
    <2> QED BY <1>3, <1>6, <2>1
  <1>8. answer[TokensRead + 1] = token
    BY <1>2, <1>4, <1>6
  <1>9. token = "rec" => TokensRead \in 1 .. MaxRecords
    BY <1>1, <1>5, <1>8, StreamAssumption
  <1> QED BY <1>2, <1>3, <1>4, <1>5, <1>7, <1>9

LEMMA StreamNextTyped ==
    ASSUME StreamInv, StreamTyped, [StreamNext]_streamVars
    PROVE  StreamTyped'
  <1>1. decoded \in Nat /\ written \in Nat /\ MaxRecords \in Nat
    BY StreamAssumption DEF StreamInv
  <1>2. ASSUME UNCHANGED <<answer, body>>
        PROVE  TokensRead' = TokensRead
    BY <1>2 DEF TokensRead
  <1>3. ASSUME NEW token, Ahead(token), body' = Tail(body), UNCHANGED answer,
               UNCHANGED <<cpc, decoded, written, expired>>,
               closed' \in BOOLEAN, errc' \in {<< >>, <<"error">>}
        PROVE  StreamTyped'
    <2>1. decoded = 0 \/ decoded < TokensRead'
      BY <1>1, <1>3, ReadToken DEF StreamTyped
    <2> QED BY <1>3, <2>1, ReadToken DEF StreamTyped
  <1>4. ASSUME UNCHANGED <<answer, body, decoded>>, errc' \in {<< >>, <<"error">>},
               closed' \in BOOLEAN, expired' \in BOOLEAN,
               written' + (IF cpc' = "sync" THEN 1 ELSE 0) <= decoded
        PROVE  StreamTyped'
    BY <1>2, <1>4 DEF StreamTyped
  <1>5. CASE StartStream
    BY <1>3, <1>4, <1>5 DEF StartStream, SendError, StreamTyped
  <1>6. CASE More
    <2>1. CASE Ahead("rec") /\ body' = Tail(body) /\ decoded' = decoded + 1 /\ UNCHANGED errc
      <3>1. UNCHANGED <<answer, cpc, closed, written, expired>>
        BY <1>6 DEF More
      <3>2. decoded' <= MaxRecords /\ decoded' < TokensRead'
        BY <1>1, <2>1, <3>1, ReadToken DEF StreamTyped
      <3>3. written' + (IF cpc' = "sync" THEN 1 ELSE 0) <= decoded'
        BY <1>1, <2>1, <3>1 DEF StreamTyped
      <3> QED BY <2>1, <3>1, <3>2, <3>3, ReadToken DEF StreamTyped
    <2>2. CASE UNCHANGED <<body, decoded>>
      BY <1>4, <1>6, <2>2 DEF More, SendError, StreamTyped
    <2> QED BY <1>6, <2>1, <2>2 DEF More
  <1>7. CASE SendRecord
    <2>1. written + 1 <= decoded
      BY <1>1, <1>7 DEF SendRecord, StreamInv, InHand
    <2> QED BY <1>4, <1>7, <2>1 DEF SendRecord, StreamTyped
  <1>8. CASE EndStream
    BY <1>3, <1>4, <1>8 DEF EndStream, SendError, StreamTyped
  <1>9. CASE SyncRecord
    BY <1>1, <1>4, <1>9 DEF SyncRecord, StreamTyped
  <1>10. CASE GiveUp \/ CloseOutc \/ AllRead \/ StreamError \/ TimedOut \/ CommitBatch \/ Expire
    BY <1>4, <1>10 DEF GiveUp, CloseOutc, AllRead, StreamError, TimedOut, CommitBatch, Expire,
                       StreamTyped
  <1>11. CASE UNCHANGED streamVars
    BY <1>4, <1>11 DEF streamVars, StreamTyped
  <1> QED BY <1>5, <1>6, <1>7, <1>8, <1>9, <1>10, <1>11 DEF StreamNext, Producer, Consumer

\* In the terms of the library: what is not read yet is a suffix of the answer.
LEMMA UnreadIsSuffix ==
    ASSUME StreamTyped
    PROVE  IsSuffix(body, answer)
  <1> DEFINE n  == Len(body)
             rb == Reverse(body)
             ra == Reverse(answer)
  <1>1. /\ answer \in Seq(Tokens) /\ body \in Seq(Tokens) /\ n \in Nat /\ Len(answer) \in Nat
        /\ n <= Len(answer) /\ \A i \in 1 .. n : body[i] = answer[Len(answer) - n + i]
    BY AnswerRecords DEF StreamTyped, TokensRead
  <1>2. /\ rb \in Seq(Tokens) /\ Len(rb) = n
        /\ \A i \in 1 .. n : rb[i] = body[n - i + 1]
    BY <1>1 DEF Reverse
  <1>3. /\ ra \in Seq(Tokens) /\ Len(ra) = Len(answer)
        /\ \A i \in 1 .. n : ra[i] = answer[Len(answer) - i + 1]
    BY <1>1 DEF Reverse
  <1> HIDE DEF rb, ra
  <1>4. \A i \in 1 .. n : rb[i] = ra[i]
    <2> TAKE i \in 1 .. n
    <2>1. n - i + 1 \in 1 .. n /\ Len(answer) - n + (n - i + 1) = Len(answer) - i + 1
      BY <1>1
    <2> QED BY <1>1, <1>2, <1>3, <2>1
  <1> HIDE DEF n
  <1>5. /\ SubSeq(rb, 1, n) \in Seq(Tokens) /\ Len(SubSeq(rb, 1, n)) = n
        /\ \A i \in 1 .. n : SubSeq(rb, 1, n)[i] = rb[i]
    BY <1>1, <1>2, SubSeqProperties
  <1>6. /\ SubSeq(ra, 1, n) \in Seq(Tokens) /\ Len(SubSeq(ra, 1, n)) = n
        /\ \A i \in 1 .. n : SubSeq(ra, 1, n)[i] = ra[i]
    BY <1>1, <1>3, SubSeqProperties
  <1>7. SubSeq(rb, 1, n) = SubSeq(ra, 1, n)
    BY <1>4, <1>5, <1>6, SeqEqual
  <1> QED BY <1>1, <1>2, <1>3, <1>7 DEF IsSuffix, IsPrefix, rb, ra

(* Whatever arrives of an answer, the goroutine reads it in order and      *)
(* decodes no more records than it has, and the loop writes no more than   *)
(* were decoded.                                                           *)
THEOREM StreamTypeCorrect == StreamSpec => []StreamTypeOK
  <1> DEFINE Inv == StreamInv /\ StreamTyped
  <1>1. StreamInit => Inv
    BY StreamInitInv, StreamInitTyped
  <1>2. Inv /\ [StreamNext]_streamVars => Inv'
    BY StreamNextInv, StreamNextTyped
  <1>3. Inv => StreamTypeOK
    <2> SUFFICES ASSUME Inv
                 PROVE  StreamTypeOK
      OBVIOUS
    <2>1. written \in 0 .. decoded /\ decoded \in 0 .. MaxRecords
      BY StreamAssumption DEF StreamInv, StreamTyped
    <2> QED BY <2>1, UnreadIsSuffix DEF StreamInv, StreamTyped, StreamTypeOK
  <1> HIDE DEF Inv
  <1> QED BY <1>1, <1>2, <1>3, PTL DEF StreamSpec
===============================================================================
