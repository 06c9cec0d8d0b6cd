---------------------------- MODULE CommandProofs ----------------------------
(***************************************************************************)
(* Theorems about two kinds of commands, each alone: bl curl, which shows  *)
(* the answer of a hosted app once however it comes in (CurlRequest), and  *)
(* bl skills, several of which may be at work (SkillsCommands).            *)
(* They say of every instance what MCClient checks of a small one.         *)
(***************************************************************************)
EXTENDS CurlRequest, SkillsCommands, SequenceTheorems, FiniteSetTheorems, TLAPS

-----------------------------------------------------------------------------
(***************************************************************************)
(* CurlRequest, for bodies and a capture limit of any length: however      *)
(* curl's output and its header file come in, what the user sees is the    *)
(* last answer, whole and once, and what is sent again had to be.          *)
(***************************************************************************)

\* a proxy's answer to CONNECT is not among what is shown, and curl tries once
PlainOutput == ~(Has("proxy") /\ Has("include")) /\ ~Has("retry")

\* the state of a command, by what it does next
Turn ==
  /\ curlAt \in {"start", "login"} =>
           /\ sends = 0 /\ ~fresh /\ state = "forward"
           /\ shown = <<>> /\ held = <<>> /\ lines = 0 /\ put = 0
  /\ curlAt \in {"curl", "judge", "forget", "again"} => sends > 0
  /\ ~fresh => sends <= 1
  /\ curlAt \in {"forget", "again"} => ~fresh
  /\ curlAt = "end" <=> ending # "running"
  /\ call.sends = "unsafe" => ~call.safe
  /\ sends = 2 => call.safe
  /\ fresh \/ ~call.safe => state = "forward"
  /\ Retried => sends > 0 /\ Has("retry")

\* curl writes no body before the heads are in the header file
Written ==
  /\ lines <= HeadLines /\ put <= Length
  /\ put > Included /\ ~Has("retry") => lines = HeadLines

\* What the client does with the output is right for the answer it comes from: what
\* may be sent again is passed on only when the head is known and lets the session stand
Decided ==
  /\ state \in {"withhold", "discard"} /\ ~Has("retry") => Rejects(Known)
  /\ state = "withhold" => got <= Limit
  /\ state = "discard" => got > Limit
  /\ state = "undecided" /\ ~Has("retry") => got <= Included
  /\ state = "forward" /\ sends > 0 /\ call.safe /\ ~fresh /\ PlainOutput =>
       lines = HeadLines /\ ~Rejects(Known)

\* while curl runs, all that was read is either shown or held back
Passing ==
  curlAt = "curl" =>
        /\ state \in {"forward", "discard"} => held = <<>>
        /\ state \in {"undecided", "withhold"} => held = Between(0, got)
        /\ state # "forward" => shown = <<>>
        /\ state = "forward" /\ PlainOutput => shown = Between(0, got)

\* and when it has ended, nothing is left to read
Closed ==
  curlAt \in {"judge", "forget", "again"} \/ Ended =>
        /\ got = put
        /\ PlainOutput =>
             shown = IF \/ state = "forward"
                        \/ /\ state \in {"undecided", "withhold"}
                           /\ ~Rejects(Known) \/ ConsentIn(Between(0, got))
                       THEN Between(0, got) ELSE <<>>

Spurned == curlAt \in {"forget", "again"} => Rejects(Known)

CurlInv ==
  /\ CurlTypeOK /\ Turn /\ Written /\ Decided /\ Passing /\ Closed /\ Spurned
  /\ ShownOnce /\ ResentRightly

-----------------------------------------------------------------------------

LEMMA BetweenSeq ==
  ASSUME NEW i \in Nat, NEW j \in Nat, i <= j, j <= MaxBody + 6, sends \in 1..2
  PROVE  Between(i, j) \in Seq(Pieces) /\ Len(Between(i, j)) = j - i
<1>1. MaxBody \in Nat
  BY CurlSizes
<1>2. \A n \in 1..(j - i) : Piece(i + n) \in Pieces
  BY <1>1 DEF Piece, Pieces
<1>3. j - i \in Nat
  OBVIOUS
<1> QED
  BY <1>2, <1>3 DEF Between

LEMMA FromZero ==
  ASSUME NEW j \in Nat, j <= MaxBody + 6, sends \in 1..2
  PROVE  Between(0, j) \in Seq(Pieces) /\ Len(Between(0, j)) = j
<1>1. 0 \in Nat /\ 0 <= j /\ j - 0 = j
  OBVIOUS
<1> QED
  BY <1>1, BetweenSeq

LEMMA Joined ==
  ASSUME NEW i \in Nat, NEW j \in Nat, NEW k \in Nat, i <= j, j <= k
  PROVE  Between(i, j) \o Between(j, k) = Between(i, k)
<1> DEFINE s == Between(i, j)
           t == Between(j, k)
           u == Between(i, k)
<1>1. s \in Seq({Piece(n) : n \in Nat}) /\ t \in Seq({Piece(n) : n \in Nat})
      /\ u \in Seq({Piece(n) : n \in Nat})
  BY DEF Between
<1>2. Len(s) = j - i /\ Len(t) = k - j /\ Len(u) = k - i
  BY DEF Between
<1>5. /\ \A n \in 1..(j - i) : s[n] = Piece(i + n)
      /\ \A n \in 1..(k - j) : t[n] = Piece(j + n)
      /\ \A n \in 1..(k - i) : u[n] = Piece(i + n)
  BY DEF Between
<1> HIDE DEF s, t, u
<1>7. /\ Len(s \o t) = Len(s) + Len(t)
      /\ \A n \in 1..Len(s) + Len(t) :
           (s \o t)[n] = IF n <= Len(s) THEN s[n] ELSE t[n - Len(s)]
  BY <1>1, ConcatProperties
<1>3. Len(s \o t) = Len(u)
  BY <1>2, <1>7
<1>4. ASSUME NEW n \in 1..Len(u) PROVE (s \o t)[n] = u[n]
  <2>2. CASE n <= Len(s)
    BY <1>2, <1>5, <1>7, <2>2
  <2>3. CASE n > Len(s)
    <3>1. (s \o t)[n] = t[n - Len(s)]
      BY <1>2, <1>7, <2>3
    <3>2. n - Len(s) \in 1..(k - j) /\ j + (n - Len(s)) = i + n
      BY <1>2, <2>3
    <3>3. t[n - Len(s)] = Piece(j + (n - Len(s)))
      BY <1>5, <3>2
    <3>4. u[n] = Piece(i + n)
      BY <1>2, <1>5
    <3> QED
      BY <3>1, <3>2, <3>3, <3>4
  <2> QED
    BY <1>2, <2>2, <2>3
<1>6. s \o t = u
  BY <1>1, <1>3, <1>4, SeqEqual, ConcatProperties
<1> QED
  BY <1>6 DEF s, t, u

\* what more is read is appended
LEMMA Appended ==
  ASSUME CurlTypeOK, NEW n \in 1..(put - got)
  PROVE  Between(0, got) \o Between(got, got + n) = Between(0, got + n)
         /\ got + n \in 0..put
<1>1. /\ 0 \in Nat /\ got \in Nat /\ got + n \in Nat /\ got + n \in 0..put
      /\ 0 <= got /\ got <= got + n
  BY CurlSizes DEF CurlTypeOK
<1> QED
  BY <1>1, Joined

-----------------------------------------------------------------------------
(***************************************************************************)
(* Requests                                                                *)
(***************************************************************************)

\* What is sent again by itself has no effect: the client's notion of the method
\* and curl's agree where it matters.
LEMMA SafeIsSafe ==
  ASSUME NEW args \in Arguments
  PROVE  CallOf(args) \in Calls /\ (CallOf(args).safe => CallOf(args).sends # "unsafe")
<1> DEFINE named == (IF "head" \in args.options THEN {"HEAD"} ELSE {})
                      \cup (IF "upload" \in args.options THEN {"PUT"} ELSE {})
                      \cup (IF "body" \in args.options /\ "get" \notin args.options
                               THEN {"POST"} ELSE {})
<1>1. /\ args.custom \in {"none", "GET", "POST"} /\ args.options \subseteq MethodOptions
      /\ args.output \subseteq OutputOptions
  BY DEF Arguments
<1>2. IsFiniteSet(named)
  BY FS_EmptySet, FS_Singleton, FS_Union
<1>3. ASSUME NEW x \in named, NEW y \in named, x # y PROVE Cardinality(named) > 1
  <2>1. {x} \subseteq named \ {y} /\ IsFiniteSet(named \ {y})
    BY <1>2, <1>3, FS_RemoveElement
  <2>2. Cardinality({x}) <= Cardinality(named \ {y}) /\ Cardinality({x}) = 1
    BY <2>1, FS_Subset, FS_Singleton
  <2>3. Cardinality(named \ {y}) = Cardinality(named) - 1 /\ Cardinality(named) \in Nat
    BY <1>2, <1>3, FS_RemoveElement, FS_CardinalityType
  <2> QED
    BY <2>2, <2>3
<1>4. CurlMethod(args) =
        IF Cardinality(named) > 1 THEN "error"
        ELSE IF args.custom # "none" THEN args.custom
        ELSE IF named = {} THEN "GET" ELSE CHOOSE m \in named : TRUE
  BY DEF CurlMethod
<1>5. CallOf(args).safe = (Method(args) \in SafeMethods)
  BY DEF CallOf
<1>6. CallOf(args).sends = "unsafe" =>
       CurlMethod(args) # "error" /\ CurlMethod(args) \notin SafeMethods
  BY DEF CallOf
<1>7. CallOf(args) \in Calls
  <2>1. args.output \cup (IF "head" \in args.options THEN {"include"} ELSE {}) \subseteq OutputOptions
    BY <1>1 DEF OutputOptions
  <2>2. (Method(args) \in SafeMethods) \in BOOLEAN
    OBVIOUS
  <2>3. (CASE CurlMethod(args) = "error" -> "error"
           [] CurlMethod(args) \in SafeMethods -> "safe"
           [] OTHER -> "unsafe") \in {"error", "safe", "unsafe"}
    OBVIOUS
  <2> QED
    BY <2>1, <2>2, <2>3 DEF CallOf, Calls
<1>8. ASSUME Method(args) \in SafeMethods, CurlMethod(args) # "error"
      PROVE  CurlMethod(args) \in SafeMethods
  <2>1. CASE args.custom # "none"
    BY <1>4, <1>8, <2>1 DEF Method
  <2>2. CASE args.custom = "none" /\ "head" \in args.options
    <3>1. "HEAD" \in named
      BY <2>2
    <3>2. \A m \in named : m = "HEAD"
      BY <1>3, <1>4, <1>8, <3>1
    <3>3. (CHOOSE m \in named : TRUE) \in named
      BY <3>1
    <3> QED
      BY <1>4, <2>2, <3>1, <3>2, <3>3, <1>8 DEF SafeMethods
  <2>3. CASE args.custom = "none" /\ "head" \notin args.options
    <3>1. "upload" \notin args.options /\ ~("body" \in args.options /\ "get" \notin args.options)
      BY <1>8, <2>3 DEF Method, SafeMethods
    <3>2. named = {}
      BY <2>3, <3>1
    <3> QED
      BY <1>4, <1>8, <2>3, <3>2 DEF SafeMethods
  <2> QED
    BY <2>1, <2>2, <2>3
<1> QED
  BY <1>5, <1>6, <1>7, <1>8

-----------------------------------------------------------------------------
(***************************************************************************)
(* The answer                                                              *)
(***************************************************************************)

LEMMA Lengths ==
  ASSUME CurlTypeOK
  PROVE  /\ HeadLines \in {2, 4} /\ Included \in {0, HeadLines} /\ BodyShown \in 0..MaxBody
         /\ Length \in 0..(MaxBody + 6) /\ Included + Earlier + BodyShown <= Length
         /\ Earlier \in {0, 1} /\ (~Retried => Earlier = 0)
         /\ Length <= Included + Earlier + BodyShown + 1
         /\ Has("output") => Included = 0 /\ Earlier = 0 /\ BodyShown = 0
         /\ ~Has("write-out") => Length = Included + Earlier + BodyShown
<1>1. answer.body \in 0..MaxBody /\ MaxBody \in Nat
  BY CurlSizes DEF CurlTypeOK, AppAnswers
<1> QED
  BY <1>1 DEF HeadLines, Included, Earlier, BodyShown, Length

LEMMA Heads ==
  ASSUME CurlTypeOK
  PROVE  /\ answer.status \in {"other", "rejected", "consent"} /\ answer.header \in BOOLEAN
         /\ lines = HeadLines => Known = answer.status
         /\ Rejects(Known) /\ ~Retried => lines = HeadLines
         /\ Known = "consent" => lines = HeadLines
         /\ Known # "none" /\ ~Has("proxy") /\ ~Retried => lines = HeadLines
<1>1. answer.status \in {"other", "rejected", "consent"} /\ answer.header \in BOOLEAN
  BY DEF CurlTypeOK, AppAnswers
<1>2. lines \in 0..4 /\ HeadLines \in {2, 4}
  BY Lengths DEF CurlTypeOK
<1>3. CASE lines = HeadLines
  <2>1. Known = answer.status
    BY <1>2, <1>3 DEF Known
  <2> QED
    BY <1>1, <1>3, <2>1
<1>4. CASE lines # HeadLines
  <2>1. Known \in {"none", "other", "rejected"} /\ (Known = "rejected" => Retried)
        /\ (~Has("proxy") /\ ~Retried => Known = "none")
    BY <1>2, <1>4 DEF Known, Retried
  <2> QED
    BY <1>1, <1>4, <2>1 DEF Rejects
<1> QED
  BY <1>3, <1>4

\* a consent error that is all of the output ends it, after the heads
LEMMA Consents ==
  ASSUME CurlTypeOK, sends \in 1..2, NEW n \in 0..put, n <= Length, ConsentIn(Between(0, n))
  PROVE  answer.status = "consent" /\ n = Length /\ n > Included
<1>0. Earlier \in {0, 1}
  BY Lengths
<1>1. answer.status = "consent" /\ BodyShown > 0 /\ Between(0, n) = Between(0, Length)
      /\ ~Has("write-out")
  BY DEF ConsentIn
<1>2. n \in Nat /\ Length \in Nat /\ Length <= MaxBody + 6 /\ n <= MaxBody + 6
      /\ Length = Included + Earlier + BodyShown /\ Included \in Nat /\ BodyShown \in Nat
  BY <1>0, <1>1, Lengths, CurlSizes DEF CurlTypeOK
<1>3. Len(Between(0, n)) = n /\ Len(Between(0, Length)) = Length
  BY <1>2, BetweenSeq
<1> QED
  BY <1>0, <1>1, <1>2, <1>3

\* what does not change while the answer is the same
LEMMA SameAnswer ==
  ASSUME call' = call, answer' = answer
  PROVE  /\ HeadLines' = HeadLines /\ Included' = Included /\ BodyShown' = BodyShown
         /\ Length' = Length /\ Retried' = Retried /\ Earlier' = Earlier
         /\ PlainOutput' = PlainOutput
         /\ \A o : Has(o)' = Has(o)
         /\ lines' = lines => Known' = Known /\ (Rejects(Known)' <=> Rejects(Known))
BY DEF HeadLines, Included, Retried, Earlier, BodyShown, Length, PlainOutput, Has, Known, Rejects

LEMMA SameBetween ==
  ASSUME sends' = sends
  PROVE  \A i, j : Between(i, j)' = Between(i, j)
BY DEF Between, Piece

-----------------------------------------------------------------------------
(***************************************************************************)
(* curl's steps                                                            *)
(***************************************************************************)

\* while curl runs, and before, nothing is promised of the end
LEMMA NotEnded ==
  ASSUME ending' = "running", curlAt' \in {"start", "login", "curl"},
         call'.sends = "unsafe" => sends' <= 1
  PROVE  Closed' /\ Spurned' /\ ShownOnce' /\ ResentRightly'
BY DEF Closed, Spurned, ShownOnce, ResentRightly, Ended

LEMMA HeaderLineStep == ASSUME CurlInv, HeaderLine PROVE CurlInv'
<1>1. /\ curlAt = "curl" /\ lines < HeadLines /\ lines' = lines + 1
      /\ UNCHANGED <<curlAt, call, stored, fresh, answer, put, got, exited, state, held, shown,
                     sends, ending>>
      /\ CurlTypeOK /\ Turn /\ Written /\ Decided /\ Passing /\ ResentRightly
  BY DEF HeaderLine, CurlInv
<1>2. HeadLines \in {2, 4} /\ lines \in Nat
  BY <1>1, Lengths DEF CurlTypeOK
<1>3. CurlTypeOK'
  BY <1>1, <1>2 DEF CurlTypeOK
<1>4. Turn'
  BY <1>1, SameAnswer DEF Turn
<1>5. Written'
  BY <1>1, <1>2, SameAnswer DEF Written
<1>6. (~Rejects(Known) \/ Has("retry")) /\ lines # HeadLines
  BY <1>1, <1>2, Heads DEF Turn
<1>7. Decided'
  BY <1>1, <1>6, SameAnswer DEF Decided
<1>8. Passing'
  BY <1>1, SameAnswer, SameBetween DEF Passing
<1>9. Closed' /\ Spurned' /\ ShownOnce' /\ ResentRightly'
  BY <1>1, NotEnded DEF Turn, ResentRightly
<1> QED
  BY <1>3, <1>4, <1>5, <1>7, <1>8, <1>9 DEF CurlInv

LEMMA PutStep == ASSUME CurlInv, Put PROVE CurlInv'
<1>1. /\ curlAt = "curl" /\ put < Length /\ put' = put + 1
      /\ lines >= Due(put + 1)
      /\ UNCHANGED <<curlAt, call, stored, fresh, answer, lines, got, exited, state, held, shown,
                     sends, ending>>
      /\ CurlTypeOK /\ Turn /\ Written /\ Decided /\ Passing /\ ResentRightly
  BY DEF Put, CurlInv
<1>2. put \in Nat /\ Length \in 0..(MaxBody + 6) /\ Included \in Nat /\ MaxBody \in Nat
  BY <1>1, Lengths, CurlSizes DEF CurlTypeOK
<1>3. CurlTypeOK'
  <2>1. put' \in 0..(MaxBody + 6) /\ got' \in 0..put'
    BY <1>1, <1>2 DEF CurlTypeOK
  <2> QED
    BY <1>1, <2>1 DEF CurlTypeOK
<1>4. Turn'
  BY <1>1, SameAnswer DEF Turn
<1>5. Written'
  <2>1. put + 1 > Included /\ ~Has("retry") => Due(put + 1) = HeadLines
    BY <1>1, <1>2, Lengths DEF Turn, Due
  <2>2. lines \in Nat /\ HeadLines \in Nat
    BY <1>1, Lengths DEF CurlTypeOK
  <2> QED
    BY <1>1, <1>2, <2>1, <2>2, SameAnswer DEF Written
<1>6. Decided'
  BY <1>1, SameAnswer DEF Decided
<1>7. Passing'
  BY <1>1, SameAnswer, SameBetween DEF Passing
<1>8. Closed' /\ Spurned' /\ ShownOnce' /\ ResentRightly'
  BY <1>1, NotEnded DEF Turn, ResentRightly
<1> QED
  BY <1>3, <1>4, <1>5, <1>6, <1>7, <1>8 DEF CurlInv

LEMMA ExitStep == ASSUME CurlInv, Exit PROVE CurlInv'
<1>1. /\ curlAt = "curl" /\ exited' = TRUE
      /\ UNCHANGED <<curlAt, call, stored, fresh, answer, lines, put, got, state, held, shown,
                     sends, ending>>
      /\ CurlTypeOK /\ Turn /\ Written /\ Decided /\ Passing /\ ResentRightly
  BY DEF Exit, CurlInv
<1>2. CurlTypeOK' /\ Turn'
  BY <1>1, SameAnswer DEF CurlTypeOK, Turn
<1>3. Written' /\ Decided'
  BY <1>1, SameAnswer DEF Written, Decided
<1>4. Passing'
  BY <1>1, SameAnswer, SameBetween DEF Passing
<1>5. Closed' /\ Spurned' /\ ShownOnce' /\ ResentRightly'
  BY <1>1, NotEnded DEF Turn, ResentRightly
<1> QED
  BY <1>2, <1>3, <1>4, <1>5 DEF CurlInv

-----------------------------------------------------------------------------
(***************************************************************************)
(* The client's steps                                                      *)
(***************************************************************************)

\* a command that fails promises nothing
LEMMA FailedStep ==
  ASSUME CurlInv, curlAt \in {"start", "login", "forget", "again"}, EndCurl("failed"), NotStarted,
         UNCHANGED <<call, fresh, shown>>, stored' \in Sessions \cup {NoSession}
  PROVE  CurlInv'
<1>1. /\ curlAt' = "end" /\ ending' = "failed"
      /\ UNCHANGED <<answer, sends, state, lines, put, got, exited, held, call, fresh, shown>>
      /\ CurlTypeOK /\ Turn /\ Written /\ Decided /\ ResentRightly
  BY DEF EndCurl, NotStarted, CurlInv
<1>2. CurlTypeOK'
  BY <1>1 DEF CurlTypeOK, Endings
<1>3. Turn'
  BY <1>1, SameAnswer DEF Turn
<1>4. Written' /\ Decided'
  BY <1>1, SameAnswer DEF Written, Decided
<1>5. Passing' /\ Closed' /\ Spurned' /\ ShownOnce'
  BY <1>1 DEF Passing, Closed, Spurned, ShownOnce, Ended
<1>6. ResentRightly'
  BY <1>1 DEF ResentRightly
<1> QED
  BY <1>2, <1>3, <1>4, <1>5, <1>6 DEF CurlInv

\* curl is started
LEMMA StartStep ==
  ASSUME CurlInv, curlAt \in {"start", "login", "again"}, GoOn("curl"), NEW hold \in BOOLEAN,
         NEW a \in AnswersTo(call'), StartCurl(hold, a), UNCHANGED shown,
         call' \in Calls, stored' \in Sessions \cup {NoSession}, fresh' \in BOOLEAN,
         sends <= 1, curlAt = "again" => call'.safe /\ fresh',
         call'.sends = "unsafe" => ~call'.safe,
         hold <=> call'.safe /\ ~fresh',
         PlainOutput' => shown = <<>>, hold => shown = <<>>,
         sends = 0 \/ fresh'
  PROVE  CurlInv'
<1>1. /\ curlAt' = "curl" /\ ending' = ending /\ answer' = a /\ sends' = sends + 1
      /\ state' = IF hold THEN "undecided" ELSE "forward"
      /\ lines' = 0 /\ put' = 0 /\ got' = 0 /\ exited' = FALSE /\ held' = <<>> /\ shown' = shown
      /\ CurlTypeOK /\ Turn
  BY DEF GoOn, StartCurl, Clear, CurlInv
<1>2. MaxBody \in Nat /\ sends \in {0, 1} /\ sends' \in {1, 2} /\ a \in AppAnswers
      /\ (Retried' => Has("retry")')
  BY <1>1, CurlSizes DEF CurlTypeOK, AnswersTo, Retried, Has
<1>3. CurlTypeOK'
  <2>1. held' \in Seq(Pieces) /\ state' \in States
    BY <1>1 DEF States
  <2>2. lines' \in 0..4 /\ put' \in 0..(MaxBody + 6) /\ got' \in 0..put' /\ sends' \in 0..2
    BY <1>1, <1>2
  <2>3. shown' \in Seq(Pieces) /\ ending' \in Endings
    BY <1>1 DEF CurlTypeOK
  <2> QED
    BY <1>1, <1>2, <2>1, <2>2, <2>3 DEF CurlTypeOK
<1>4. Turn'
  <2>1. sends' = 2 => call'.safe
    BY <1>1, <1>2 DEF Turn
  <2>2. Retried' => sends' > 0 /\ Has("retry")'
    BY <1>2
  <2> QED
    BY <1>1, <1>2, <2>1, <2>2 DEF Turn
<1>5. HeadLines' \in {2, 4} /\ Included' \in {0, 2, 4} /\ Length' \in Nat
  <2>1. answer'.body \in Nat
    BY <1>1, <1>2 DEF AppAnswers
  <2> QED
    BY <2>1 DEF HeadLines, Included, Earlier, BodyShown, Length
<1>6. Written'
  BY <1>1, <1>5 DEF Written
<1>7. Decided'
  <2>1. ~hold => state' = "forward" /\ ~(call'.safe /\ ~fresh')
    BY <1>1
  <2>2. hold => state' = "undecided" /\ got' <= Included'
    BY <1>1, <1>5
  <2> QED
    BY <2>1, <2>2 DEF Decided
<1>8. Passing'
  <2>1. Between(0, 0)' = <<>>
    BY DEF Between
  <2> QED
    BY <1>1, <2>1 DEF Passing
<1>9. Closed' /\ Spurned' /\ ShownOnce' /\ ResentRightly'
  <2>1. ending' = "running"
    BY <1>1 DEF Turn, CurlTypeOK
  <2>2. call'.sends = "unsafe" => sends' <= 1
    BY <1>1, <1>2, <1>4 DEF Turn
  <2> QED
    BY <1>1, <2>1, <2>2, NotEnded
<1> QED
  BY <1>3, <1>4, <1>6, <1>7, <1>8, <1>9 DEF CurlInv

LEMMA RefuseStep == ASSUME CurlInv, Refuse PROVE CurlInv'
<1>1. stored' \in Sessions \cup {NoSession}
  BY DEF Refuse, CurlInv, CurlTypeOK
<1> QED
  BY <1>1, FailedStep DEF Refuse

LEMMA BeginCurlStep == ASSUME CurlInv, BeginCurl PROVE CurlInv'
<1>1. /\ curlAt = "start" /\ stored' = stored /\ fresh' = fresh /\ shown' = shown
      /\ CurlTypeOK /\ Turn /\ Decided
  BY DEF BeginCurl, CurlInv
<1>2. call' \in Calls /\ (call'.sends = "unsafe" => ~call'.safe)
  BY SafeIsSafe DEF BeginCurl
<1>3. sends = 0 /\ ~fresh /\ state = "forward" /\ shown = <<>> /\ held = <<>> /\ lines = 0 /\ put = 0
      /\ got = 0 /\ ending = "running"
  BY <1>1 DEF Turn, CurlTypeOK
<1>4. CASE GoOn("login") /\ NotStarted
  <2>1. /\ curlAt' = "login" /\ ending' = ending
        /\ UNCHANGED <<answer, sends, state, lines, put, got, exited, held>>
    BY <1>4 DEF GoOn, NotStarted
  <2>2. CurlTypeOK'
    BY <1>1, <1>2, <2>1 DEF CurlTypeOK
  <2>3. Turn'
    <3>1. ~Retried /\ Retried' = Retried
      BY <1>1, <1>3, <2>1 DEF Turn, Retried
    <3> QED
      BY <1>1, <1>2, <1>3, <2>1, <3>1 DEF Turn
  <2>4. HeadLines' \in {2, 4} /\ Included' \in {0, 2, 4} /\ Length' \in Nat
    <3>1. answer'.body \in Nat
      BY <1>1, <2>1, CurlSizes DEF CurlTypeOK, AppAnswers
    <3> QED
      BY <3>1 DEF HeadLines, Included, Earlier, BodyShown, Length
  <2>5. Written' /\ Decided' /\ Passing'
    BY <1>3, <2>1, <2>4 DEF Written, Decided, Passing
  <2>6. Closed' /\ Spurned' /\ ShownOnce' /\ ResentRightly'
    BY <1>3, <2>1, NotEnded
  <2> QED
    BY <2>2, <2>3, <2>5, <2>6 DEF CurlInv
<1>5. ASSUME NEW a \in AnswersTo(call'), StartCurl(call'.safe, a), GoOn("curl") PROVE CurlInv'
  <2>1. call'.safe \in BOOLEAN
    BY <1>2 DEF Calls
  <2>2. stored' \in Sessions \cup {NoSession} /\ fresh' \in BOOLEAN /\ ~fresh'
    BY <1>1, <1>3 DEF CurlTypeOK
  <2> QED
    BY <1>1, <1>2, <1>3, <1>5, <2>1, <2>2, StartStep
<1> QED
  BY <1>4, <1>5 DEF BeginCurl

LEMMA CurlLoginStep == ASSUME CurlInv, Login PROVE CurlInv'
<1>1. curlAt = "login" /\ call' = call /\ shown' = shown /\ CurlTypeOK /\ Turn
  BY DEF Login, CurlInv
<1>2. NewSession \in Sessions
  BY DEF NewSession, Sessions
<1>3. ASSUME NEW a \in AnswersTo(call), StartCurl(FALSE, a), GoOn("curl"), stored' = NewSession, fresh' = TRUE
      PROVE  CurlInv'
  <2>1. a \in AnswersTo(call')
    BY <1>1, <1>3
  <2> QED
    BY <1>1, <1>2, <1>3, <2>1, StartStep DEF Turn, CurlTypeOK
<1>4. CASE EndCurl("failed") /\ NotStarted /\ UNCHANGED <<stored, fresh>>
  BY <1>1, <1>4, FailedStep DEF CurlTypeOK
<1> QED
  BY <1>3, <1>4 DEF Login

LEMMA ReadStep == ASSUME CurlInv, NEW n \in 1..(MaxBody + 6), Read(n) PROVE CurlInv'
<1> DEFINE chunk == Between(got, got + n)
           all == held \o chunk
           next == IF state = "undecided" /\ Known # "none"
                     THEN IF Rejects(Known) THEN "withhold" ELSE "forward" ELSE state
<1>1. /\ curlAt = "curl" /\ n \in 1..(put - got) /\ got' = got + n
      /\ UNCHANGED <<curlAt, call, stored, fresh, answer, lines, put, exited, sends, ending>>
      /\ CurlTypeOK /\ Turn /\ Written /\ Decided /\ Passing /\ ResentRightly
  BY DEF Read, CurlInv
<1>2. \/ state = "forward" /\ shown' = shown \o chunk /\ state' = "forward" /\ held' = held
      \/ state = "discard" /\ shown' = shown /\ state' = "discard" /\ held' = held
      \/ /\ state = "undecided" /\ next = "forward"
         /\ shown' = shown \o all /\ held' = <<>> /\ state' = "forward"
      \/ /\ next = "withhold" /\ Len(all) > Limit /\ state \notin {"forward", "discard"}
         /\ state' = "discard" /\ held' = <<>> /\ shown' = shown
      \/ /\ state \notin {"forward", "discard"} /\ next # "forward"
         /\ ~(next = "withhold" /\ Len(all) > Limit)
         /\ state' = next /\ held' = all /\ shown' = shown
  BY <1>1 DEF Read, CurlTypeOK, States
<1>3. /\ got \in Nat /\ got + n \in Nat /\ got + n <= put /\ put \in Nat /\ put <= MaxBody + 6
      /\ n \in Nat /\ Limit \in Nat /\ MaxBody \in Nat /\ sends \in 1..2
      /\ Included \in Nat /\ state \in States
  BY <1>1, Lengths, CurlSizes DEF CurlTypeOK, Turn
<1>4. /\ chunk \in Seq(Pieces) /\ Between(0, got + n) \in Seq(Pieces)
      /\ Between(0, got) \o chunk = Between(0, got + n) /\ Len(Between(0, got + n)) = got + n
  <2>1. 0 \in Nat /\ 0 <= got + n /\ got <= got + n /\ got + n <= MaxBody + 6
    BY <1>3
  <2>2. chunk \in Seq(Pieces)
    BY <1>3, <2>1, BetweenSeq
  <2>3. Between(0, got + n) \in Seq(Pieces) /\ Len(Between(0, got + n)) = got + n
    BY <1>3, <2>1, FromZero
  <2>4. Between(0, got) \o chunk = Between(0, got + n)
    BY <1>1, Appended
  <2> QED
    BY <2>2, <2>3, <2>4
<1>5. state \in {"undecided", "withhold"} =>
        all = Between(0, got + n) /\ Len(all) = got + n /\ shown = <<>>
  BY <1>1, <1>4 DEF Passing
<1>6. Known = "none" /\ ~Has("retry") => got + n <= Included
  <2>1. put > Included /\ ~Has("retry") => lines = HeadLines
    BY <1>1 DEF Written
  <2>2. lines = HeadLines => Known # "none"
    BY <1>1, Heads
  <2> QED
    BY <1>3, <2>1, <2>2
<1>7. Known # "none" /\ PlainOutput => lines = HeadLines
  <2>1. CASE Has("proxy") /\ PlainOutput
    <3>1. Included = 0 /\ ~Has("retry")
      BY <2>1 DEF PlainOutput, Included
    <3> QED
      BY <1>1, <1>3, <3>1 DEF Written
  <2>2. CASE ~Has("proxy")
    BY <1>1, <2>2, Heads DEF PlainOutput, Turn
  <2> QED
    BY <2>1, <2>2
<1> HIDE DEF chunk, all
<1>8. /\ state = "undecided" /\ next = "forward" => Known # "none" /\ ~Rejects(Known)
      /\ state = "undecided" /\ next = "withhold" => Rejects(Known)
      /\ state = "undecided" /\ next = "undecided" => Known = "none"
      /\ state = "undecided" => next \in {"forward", "withhold", "undecided"}
      /\ state = "withhold" => next = "withhold"
  OBVIOUS
<1> HIDE DEF next
<1>9. CurlTypeOK'
  <2>1. held' \in Seq(Pieces) /\ shown' \in Seq(Pieces)
    <3>1. held \in Seq(Pieces) /\ shown \in Seq(Pieces) /\ all \in Seq(Pieces)
      BY <1>1, <1>4 DEF CurlTypeOK, all
    <3>2. shown \o chunk \in Seq(Pieces) /\ shown \o all \in Seq(Pieces)
      BY <1>4, <3>1
    <3>3. <<>> \in Seq(Pieces)
      OBVIOUS
    <3> QED
      BY <1>2, <3>1, <3>2, <3>3, Zenon
  <2>2. state' \in States
    BY <1>2, <1>3, <1>8 DEF States
  <2>3. got' \in 0..put'
    BY <1>1, <1>3
  <2> QED
    BY <1>1, <2>1, <2>2, <2>3 DEF CurlTypeOK
<1>10. Turn'
  BY <1>1, <1>2, SameAnswer DEF Turn
<1>11. Written'
  BY <1>1, SameAnswer DEF Written
<1>12. Decided'
  <2>1. state' \in {"withhold", "discard"} /\ ~Has("retry") => Rejects(Known)
    BY <1>1, <1>2, <1>3, <1>8 DEF Decided, States
  <2>2. state' = "withhold" => got + n <= Limit
    BY <1>2, <1>3, <1>5, <1>8 DEF States
  <2>3. state' = "discard" => got + n > Limit
    BY <1>1, <1>2, <1>3, <1>5, <1>8 DEF States, Decided
  <2>4. state' = "undecided" /\ ~Has("retry") => got + n <= Included
    BY <1>2, <1>3, <1>6, <1>8 DEF States
  <2>5. state' = "forward" /\ call.safe /\ ~fresh /\ PlainOutput =>
          lines = HeadLines /\ ~Rejects(Known)
    BY <1>1, <1>2, <1>3, <1>7, <1>8 DEF Decided, States
  <2> QED
    BY <1>1, <2>1, <2>2, <2>3, <2>4, <2>5, SameAnswer DEF Decided
<1>13. Passing'
  <2>1. state' \in {"forward", "discard"} => held' = <<>>
    BY <1>1, <1>2, <1>3, <1>8 DEF Passing, States
  <2>2. state' \in {"undecided", "withhold"} => held' = Between(0, got + n)
    BY <1>2, <1>3, <1>5 DEF States
  <2>3. state' # "forward" => shown' = <<>>
    BY <1>1, <1>2, <1>3, <1>5 DEF Passing, States
  <2>4. state' = "forward" /\ PlainOutput => shown' = Between(0, got + n)
    <3>1. <<>> \o Between(0, got + n) = Between(0, got + n)
      BY <1>4
    <3> QED
      BY <1>1, <1>2, <1>3, <1>4, <1>5, <3>1 DEF Passing, States
  <2> QED
    BY <1>1, <2>1, <2>2, <2>3, <2>4, SameAnswer, SameBetween DEF Passing
<1>14. Closed' /\ Spurned' /\ ShownOnce' /\ ResentRightly'
  BY <1>1, NotEnded DEF Turn, ResentRightly
<1> QED
  BY <1>9, <1>10, <1>11, <1>12, <1>13, <1>14 DEF CurlInv

LEMMA EndOfOutputStep == ASSUME CurlInv, EndOfOutput PROVE CurlInv'
<1>1. /\ curlAt = "curl" /\ got = put /\ curlAt' = "judge" /\ ending' = ending
      /\ UNCHANGED <<call, stored, fresh, answer, lines, put, got, exited, state, held, sends>>
      /\ CurlTypeOK /\ Turn /\ Written /\ Decided /\ Passing /\ ResentRightly
  BY DEF EndOfOutput, GoOn, CurlInv
<1>2. shown' = IF state \in {"undecided", "withhold"} /\ (~Rejects(Known) \/ ConsentIn(held))
                 THEN shown \o held ELSE shown
  BY DEF EndOfOutput
<1>3. /\ got \in Nat /\ got <= MaxBody + 6 /\ sends \in 1..2 /\ state \in States
  BY <1>1, CurlSizes DEF CurlTypeOK, Turn
<1>4. Between(0, got) \in Seq(Pieces)
  BY <1>3, BetweenSeq
<1>5. CurlTypeOK'
  <2>1. shown' \in Seq(Pieces)
    BY <1>1, <1>2 DEF CurlTypeOK
  <2> QED
    BY <1>1, <2>1 DEF CurlTypeOK
<1>6. Turn'
  BY <1>1, SameAnswer DEF Turn
<1>7. Written' /\ Decided'
  BY <1>1, SameAnswer DEF Written, Decided
<1>8. Passing' /\ Spurned'
  BY <1>1 DEF Passing, Spurned
<1>9. Closed'
  <2>1. PlainOutput =>
          shown' = IF \/ state = "forward"
                      \/ /\ state \in {"undecided", "withhold"}
                         /\ ~Rejects(Known) \/ ConsentIn(Between(0, got))
                     THEN Between(0, got) ELSE <<>>
    <3>1. <<>> \o Between(0, got) = Between(0, got)
      BY <1>4
    <3> QED
      BY <1>1, <1>2, <1>3, <3>1 DEF Passing, States
  <2>2. ConsentIn(Between(0, got))' <=> ConsentIn(Between(0, got))
    BY <1>1, SameAnswer, SameBetween DEF ConsentIn
  <2> QED
    BY <1>1, <2>1, <2>2, SameAnswer, SameBetween DEF Closed
<1>10. ShownOnce' /\ ResentRightly'
  BY <1>1 DEF Turn, ShownOnce, ResentRightly, Ended
<1> QED
  BY <1>5, <1>6, <1>7, <1>8, <1>9, <1>10 DEF CurlInv

\* consent is asked for, as far as curl's own output and header say so
Consented == Known = "consent" /\ (answer.header \/ (got <= Limit /\ ConsentIn(Between(0, got))))

\* What the end of the output means for what was shown.
LEMMA AtTheEnd ==
  ASSUME CurlTypeOK, Turn, Written, Decided, Closed, curlAt \in {"judge", "forget", "again"}
  PROVE  /\ PlainOutput /\ state = "forward" => shown = Between(0, put)
         /\ PlainOutput /\ ~Rejects(Known) => shown = Between(0, put)
         /\ PlainOutput /\ Consented => shown = Between(0, put)
         /\ PlainOutput /\ call.safe /\ ~fresh /\ Rejects(Known) /\ ~Consented => shown = <<>>
<1>1. got = put /\ got \in Nat /\ Limit \in Nat /\ state \in States /\ Included \in Nat
      /\ sends \in 1..2 /\ got \in 0..put
  BY Lengths, CurlSizes DEF CurlTypeOK, Turn, Closed
<1>2. PlainOutput =>
         shown = IF \/ state = "forward"
                    \/ /\ state \in {"undecided", "withhold"}
                       /\ ~Rejects(Known) \/ ConsentIn(Between(0, got))
                   THEN Between(0, got) ELSE <<>>
  BY DEF Closed
<1>3. PlainOutput /\ ~Rejects(Known) => state \in {"forward", "undecided"}
  BY <1>1 DEF Decided, States, PlainOutput
<1>4. ConsentIn(Between(0, got)) => answer.status = "consent" /\ got > Included
  BY <1>1, Consents DEF Written
<1>5. ASSUME Consented PROVE ~Rejects(Known) \/ (ConsentIn(Between(0, got)) /\ state # "discard")
  <2>1. CASE answer.header /\ Known = "consent"
    BY <2>1 DEF Rejects
  <2>2. CASE got <= Limit /\ ConsentIn(Between(0, got))
    BY <1>1, <2>2 DEF Decided
  <2> QED
    BY <1>5, <2>1, <2>2 DEF Consented
<1>6. ASSUME PlainOutput, call.safe, ~fresh, Rejects(Known), ~Consented
      PROVE  shown = <<>>
  <2>1. state # "forward"
    BY <1>6 DEF Decided, Turn
  <2>2. ConsentIn(Between(0, got)) => state # "undecided"
    BY <1>1, <1>4, <1>6 DEF Decided, PlainOutput
  <2>3. ConsentIn(Between(0, got)) => Known = "consent"
    BY <1>4, <1>6, Heads DEF PlainOutput, Turn
  <2>4. ConsentIn(Between(0, got)) => state # "withhold"
    BY <1>1, <1>6, <2>3 DEF Decided, Consented
  <2> QED
    BY <1>2, <1>6, <2>1, <2>2, <2>4
<1> QED
  BY <1>1, <1>2, <1>3, <1>5, <1>6 DEF States

LEMMA JudgeStep == ASSUME CurlInv, NEW filed \in BOOLEAN, Judge(filed) PROVE CurlInv'
<1>1. /\ curlAt = "judge" /\ UNCHANGED <<call, stored, fresh, shown, answer, sends, state, lines,
                                         put, got, exited, held>>
      /\ CurlTypeOK /\ Turn /\ Written /\ Decided /\ Closed /\ ResentRightly
  BY DEF Judge, NotStarted, CurlInv
<1>2. ConsentAsked(filed) <=>
        Consented \/ (Known = "consent" /\ filed /\ Has("output") /\ ~Has("fail") /\ answer.body > 0)
  BY DEF ConsentAsked, Consented
<1>3. \/ ConsentAsked(filed) /\ curlAt' = "end" /\ ending' = "consent"
      \/ ~ConsentAsked(filed) /\ Rejects(Known) /\ fresh /\ curlAt' = "end" /\ ending' = "rejected"
      \/ ~ConsentAsked(filed) /\ Rejects(Known) /\ ~fresh /\ curlAt' = "forget" /\ ending' = ending
      \/ ~ConsentAsked(filed) /\ ~Rejects(Known) /\ curlAt' = "end" /\ ending' = "exit"
  BY <1>1 DEF Judge, EndCurl, GoOn, CurlTypeOK
<1>4. ending = "running"
  BY <1>1 DEF Turn, CurlTypeOK
<1>5. CurlTypeOK'
  BY <1>1, <1>3, <1>4 DEF CurlTypeOK, Endings
<1>6. Turn'
  BY <1>1, <1>3, <1>4, SameAnswer DEF Turn
<1>7. Written' /\ Decided'
  BY <1>1, SameAnswer DEF Written, Decided
<1>8. (Rejects(Known)' <=> Rejects(Known)) /\ Known' = Known
      /\ (ConsentIn(Between(0, got))' <=> ConsentIn(Between(0, got)))
      /\ (Consented' <=> Consented)
  BY <1>1, SameAnswer, SameBetween DEF ConsentIn, Consented
<1>9. Passing' /\ Spurned'
  BY <1>3, <1>8 DEF Passing, Spurned
<1>10. Closed'
  BY <1>1, <1>8, SameAnswer, SameBetween DEF Closed
<1>11. ShownOnce'
  <2>1. ASSUME PlainOutput, ~(Has("write-out") /\ Has("output")), curlAt' = "end"
        PROVE  shown = Between(0, put)
    <3>1. CASE Consented \/ ~Rejects(Known)
      BY <1>1, <2>1, <3>1, AtTheEnd
    <3>2. CASE fresh
      BY <1>1, <2>1, <3>2, AtTheEnd DEF Turn
    <3>3. CASE Has("output") /\ ~Has("write-out")
      <4>1. Length = 0 /\ put = 0 /\ got = 0
        BY <1>1, <3>3, Lengths DEF Written, CurlTypeOK
      <4>2. Between(0, 0) = <<>>
        BY DEF Between
      <4> QED
        BY <1>1, <2>1, <4>1, <4>2 DEF Closed
    <3> QED
      BY <1>2, <1>3, <2>1, <3>1, <3>2, <3>3
  <2>2. Ended' => curlAt' = "end"
    BY <1>3, <1>4 DEF Ended
  <2> QED
    BY <1>1, <2>1, <2>2, SameAnswer, SameBetween DEF ShownOnce, PlainOutput
<1>12. ResentRightly'
  <2>1. curlAt' = "forget" \/ ending' \in {"exit", "rejected", "rerun"} => ~Consented
    BY <1>2, <1>3, <1>4
  <2> QED
    BY <1>1, <1>3, <1>8, <2>1 DEF ResentRightly, Consented
<1> QED
  BY <1>5, <1>6, <1>7, <1>9, <1>10, <1>11, <1>12 DEF CurlInv

LEMMA ForgetSessionStep == ASSUME CurlInv, ForgetSession PROVE CurlInv'
<1>1. /\ curlAt = "forget" /\ UNCHANGED <<call, fresh, shown>> /\ NotStarted
      /\ CurlTypeOK /\ Turn /\ Written /\ Decided /\ Closed /\ Spurned /\ ResentRightly
  BY DEF ForgetSession, CurlInv
<1>2. CASE stored' = NoSession /\ GoOn("again")
  <2>1. /\ UNCHANGED <<call, fresh, shown, answer, sends, state, lines, put, got, exited, held, ending>>
        /\ curlAt' = "again"
    BY <1>1, <1>2 DEF NotStarted, GoOn
  <2>2. CurlTypeOK' /\ Turn'
    BY <1>1, <1>2, <2>1, SameAnswer DEF CurlTypeOK, Turn
  <2>3. Written' /\ Decided'
    BY <1>1, <2>1, SameAnswer DEF Written, Decided
  <2>4. (Rejects(Known)' <=> Rejects(Known)) /\ Known' = Known
        /\ (ConsentIn(Between(0, got))' <=> ConsentIn(Between(0, got)))
    BY <2>1, SameAnswer, SameBetween DEF ConsentIn
  <2>5. Passing' /\ Spurned' /\ ResentRightly'
    BY <1>1, <2>1, <2>4 DEF Passing, Spurned, ResentRightly
  <2>6. Closed'
    BY <1>1, <2>1, <2>4, SameAnswer, SameBetween DEF Closed
  <2>7. ShownOnce'
    BY <1>1, <2>1 DEF ShownOnce, Ended, Turn
  <2> QED
    BY <2>2, <2>3, <2>5, <2>6, <2>7 DEF CurlInv
<1>3. CASE EndCurl("failed") /\ UNCHANGED stored
  BY <1>1, <1>3, FailedStep DEF CurlTypeOK
<1> QED
  BY <1>2, <1>3 DEF ForgetSession

LEMMA AgainStep == ASSUME CurlInv, Again PROVE CurlInv'
<1>1. /\ curlAt = "again" /\ UNCHANGED <<call, shown>>
      /\ CurlTypeOK /\ Turn /\ Written /\ Decided /\ Closed /\ Spurned /\ ResentRightly
  BY DEF Again, CurlInv
<1>2. NewSession \in Sessions
  BY DEF NewSession, Sessions
<1>3. ~fresh /\ sends = 1 /\ ending = "running" /\ Rejects(Known) /\ ~Consented
  BY <1>1 DEF Turn, Spurned, CurlTypeOK, ResentRightly, Consented
<1>4. ASSUME NEW a \in AnswersTo(call), call.safe, GoOn("curl"), StartCurl(FALSE, a),
             stored' = NewSession, fresh' = TRUE
      PROVE  CurlInv'
  <2>1. PlainOutput' => shown = <<>>
    BY <1>1, <1>3, <1>4, AtTheEnd DEF PlainOutput, Has, Turn
  <2>2. call' \in Calls /\ (call'.sends = "unsafe" => ~call'.safe)
    BY <1>1 DEF CurlTypeOK, Turn
  <2>3. /\ FALSE \in BOOLEAN /\ curlAt \in {"start", "login", "again"} /\ UNCHANGED shown
        /\ stored' \in Sessions \cup {NoSession} /\ fresh' \in BOOLEAN /\ fresh'
        /\ call'.safe /\ a \in AnswersTo(call')
    BY <1>1, <1>2, <1>4
  <2>4. sends <= 1
    BY <1>3
  <2> HIDE DEF CurlInv
  <2>5. /\ curlAt = "again" => call'.safe /\ fresh'
        /\ FALSE <=> call'.safe /\ ~fresh'
        /\ FALSE => shown = <<>>
        /\ sends = 0 \/ fresh'
    BY <2>3
  <2> QED
    BY <1>4, <2>1, <2>2, <2>3, <2>4, <2>5, StartStep
<1>5. CASE ~call.safe /\ EndCurl("rerun") /\ NotStarted /\ stored' = NewSession /\ fresh' = TRUE
  <2>1. /\ UNCHANGED <<call, shown, answer, sends, state, lines, put, got, exited, held>>
        /\ curlAt' = "end" /\ ending' = "rerun"
    BY <1>1, <1>5 DEF NotStarted, EndCurl
  <2>2. CurlTypeOK'
    BY <1>1, <1>2, <1>5, <2>1 DEF CurlTypeOK, Endings
  <2>3. Turn'
    BY <1>1, <1>3, <1>5, <2>1, SameAnswer DEF Turn
  <2>4. Written' /\ Decided'
    BY <1>1, <1>5, <2>1, SameAnswer DEF Written, Decided
  <2>5. (Rejects(Known)' <=> Rejects(Known)) /\ Known' = Known
        /\ (ConsentIn(Between(0, got))' <=> ConsentIn(Between(0, got)))
    BY <2>1, SameAnswer, SameBetween DEF ConsentIn
  <2>6. Passing' /\ Spurned' /\ ResentRightly'
    BY <1>1, <2>1, <2>5 DEF Passing, Spurned, ResentRightly
  <2>7. Closed'
    BY <1>1, <2>1, <2>5, SameAnswer, SameBetween DEF Closed
  <2>8. PlainOutput => shown = Between(0, put)
    BY <1>1, <1>5, AtTheEnd DEF Turn
  <2>9. ShownOnce'
    BY <2>1, <2>8, SameAnswer, SameBetween DEF ShownOnce, PlainOutput
  <2> QED
    BY <2>2, <2>3, <2>4, <2>6, <2>7, <2>9 DEF CurlInv
<1>6. CASE EndCurl("failed") /\ NotStarted /\ UNCHANGED <<stored, fresh>>
  BY <1>1, <1>6, FailedStep DEF CurlTypeOK
<1> QED
  BY <1>4, <1>5, <1>6 DEF Again

-----------------------------------------------------------------------------

LEMMA CurlInvInit == CurlInit => CurlInv
<1> SUFFICES ASSUME CurlInit PROVE CurlInv
  OBVIOUS
<1>1. MaxBody \in Nat /\ Limit \in Nat
  BY CurlSizes
<1>2. NoAnswer \in AppAnswers /\ NoCall \in Calls
  BY <1>1 DEF NoAnswer, AppAnswers, NoCall, Calls
<1>3. CurlTypeOK
  <2>1. lines \in 0..4 /\ put \in 0..(MaxBody + 6) /\ got \in 0..put /\ sends \in 0..2
    BY <1>1 DEF CurlInit
  <2>2. held \in Seq(Pieces) /\ shown \in Seq(Pieces)
    BY EmptySeq DEF CurlInit
  <2>3. /\ curlAt \in {"start", "login", "curl", "judge", "forget", "again", "end"}
        /\ fresh \in BOOLEAN /\ exited \in BOOLEAN /\ state \in States /\ ending \in Endings
        /\ stored \in Sessions \cup {NoSession}
    BY DEF CurlInit, States, Endings
  <2>4. call \in Calls /\ answer \in AppAnswers
    BY <1>2 DEF CurlInit
  <2> QED
    BY <2>1, <2>2, <2>3, <2>4 DEF CurlTypeOK
<1>4. Turn
  BY DEF CurlInit, Turn, NoCall, NoAnswer, Retried
<1>5. Written
  BY <1>1, <1>3, Lengths DEF CurlInit, Written
<1>6. Decided /\ Passing /\ Closed /\ Spurned /\ ShownOnce /\ ResentRightly
  BY DEF CurlInit, Decided, Passing, Closed, Spurned, ShownOnce, ResentRightly, Ended, NoCall
<1> QED
  BY <1>3, <1>4, <1>5, <1>6 DEF CurlInv

LEMMA CurlInvNext == CurlInv /\ [CurlNext]_curlVars => CurlInv'
<1> SUFFICES ASSUME CurlInv, [CurlNext]_curlVars PROVE CurlInv'
  OBVIOUS
<1>1. CASE UNCHANGED curlVars
  BY <1>1 DEF curlVars, CurlInv, CurlTypeOK, Turn, Written, Decided, Passing, Closed, Spurned, ShownOnce,
     ResentRightly, Ended, PlainOutput, Has, HeadLines, Included, Retried, Earlier, BodyShown, Length, Known,
     Rejects, ConsentIn, Between, Piece
<1> QED
  BY <1>1, HeaderLineStep, PutStep, ExitStep, RefuseStep, BeginCurlStep, CurlLoginStep, AgainStep,
     ReadStep, EndOfOutputStep, JudgeStep, ForgetSessionStep DEF CurlNext

LEMMA CurlInvariant == CurlSpec => []CurlInv
BY CurlInvInit, CurlInvNext, PTL DEF CurlSpec

\* The client's counters stay within what curl has put out.
THEOREM CurlTypeCorrect == CurlSpec => []CurlTypeOK
BY CurlInvariant, PTL DEF CurlInv

\* Nothing of an answer that is followed by another request is shown, and all
\* of the last one is, in order.
THEOREM AnswerShownOnce == CurlSpec => []ShownOnce
BY CurlInvariant, PTL DEF CurlInv

\* A consent error is never taken for the end of a session, and a request with
\* an effect is sent once.
THEOREM ResendsAreRight == CurlSpec => []ResentRightly
BY CurlInvariant, PTL DEF CurlInv

-----------------------------------------------------------------------------
(***************************************************************************)
(* SkillsCommands, for any number of commands at once and any skills,      *)
(* dependencies and targets: type correctness, that a command changes only *)
(* what it is about, that what reports success is installed, and that an   *)
(* update preserves placements.                                            *)
(***************************************************************************)

\* the run has the install lock
Holding(r) == phase[r] \in {"plan", "execute"} /\ ~Dry(order[r])

\* the marketplace is asked for a plan
Planning(r) == order[r].command \in {"install", "update"}

\* What a run has made sure of before it goes on
Prepared(r) ==
  /\ phase[r] # "idle" => order[r] \in Orders
  /\ phase[r] = "plan" => Planning(r)
  /\ phase[r] \in {"lock", "execute"} => ~Dry(order[r])
  /\ order[r].command = "update" /\ phase[r] \in {"lock", "plan", "execute"} =>
         ~Refused(order[r], seen[r])
  /\ todo[r] # {} => phase[r] = "execute" /\ Planning(r)

\* Of what is asked for, the plan replaces what is local by force only.
Faithful(r) ==
  \A op \in todo[r] :
    op.action \in {"install", "update"} /\ op.skill \in Asked(order[r], seen[r]) =>
      order[r].force \/ ~IsLocal(seen[r][op.skill])

\* Under the lock nobody else changes anything: a skill is as it was read, or as
\* the plan wants it.
Kept(r) ==
  Holding(r) /\ ~outdated[r] =>
    \A s \in Skills :
      \/ inst[s] = seen[r][s]
      \/ /\ phase[r] = "execute" /\ Planning(r)
         /\ inst[s] # Nothing /\ ~IsLocal(inst[s])
         /\ order[r].command = "update" => ~IsPinned(inst[s])
         /\ inst[s].targets = TargetNames(order[r], seen[r])

\* what is asked for is installed, or still to be
Complete(r) ==
  phase[r] = "execute" /\ Planning(r) /\ ~outdated[r] =>
       \A s \in Asked(order[r], seen[r]) :
         \/ inst[s] # Nothing
         \/ \E op \in todo[r] : op.skill = s /\ op.action \in {"install", "update"}

Own(r) == Prepared(r) /\ Faithful(r) /\ Kept(r) /\ Complete(r)

Inv == SkillsTypeOK /\ \A r \in Actors : Own(r)

-----------------------------------------------------------------------------
(***************************************************************************)
(* Jobs and plans                                                          *)
(***************************************************************************)

LEMMA JobShape ==
  ASSUME NEW j \in Orders
  PROVE  /\ j.command \in {"install", "update", "local", "remove"} /\ j # NoOrder
         /\ j.skills \in SUBSET Skills
         /\ j.command # "remove" => j.targets \in {NoTargets, Given} /\ j.force \in BOOLEAN
         /\ j.command \in {"install", "update"} => j.dry \in BOOLEAN
         /\ j.command = "update" => j.all \in BOOLEAN
         /\ j.command \in {"local", "remove"} => ~Dry(j)
<1>d. j.command \in {"local", "remove"} => ~Dry(j)
  BY DEF Dry
<1>1. Singles \subseteq SUBSET Skills
  BY DEF Singles
<1>2. CASE j \in [command : {"install"}, skills : Singles \cup {Skills}, version : {Nothing} \cup Versions,
                  targets : {NoTargets, Given}, force : BOOLEAN, dry : {FALSE}]
  <2>1. /\ j.command = "install" /\ j.skills \in Singles \cup {Skills}
        /\ j.targets \in {NoTargets, Given} /\ j.force \in BOOLEAN /\ j.dry \in BOOLEAN
    BY <1>2
  <2> QED
    BY <1>1, <1>d, <2>1 DEF NoOrder
<1>3. CASE j \in [command : {"install"}, skills : Singles \cup {Skills}, version : {Nothing},
                  targets : {NoTargets}, force : {FALSE}, dry : {TRUE}]
  <2>1. /\ j.command = "install" /\ j.skills \in Singles \cup {Skills}
        /\ j.targets = NoTargets /\ j.force \in BOOLEAN /\ j.dry \in BOOLEAN
    BY <1>3
  <2> QED
    BY <1>1, <1>d, <2>1 DEF NoOrder
<1>4. CASE j \in [command : {"update"}, skills : Singles, targets : {NoTargets, Given},
                  all : {FALSE}, force : BOOLEAN, dry : {FALSE}]
  <2>1. /\ j.command = "update" /\ j.skills \in Singles
        /\ j.targets \in {NoTargets, Given} /\ j.all \in BOOLEAN /\ j.force \in BOOLEAN /\ j.dry \in BOOLEAN
    BY <1>4
  <2> QED
    BY <1>1, <1>d, <2>1 DEF NoOrder
<1>5. CASE j \in [command : {"update"}, skills : {Skills}, targets : {NoTargets, Given},
                  all : {TRUE}, force : BOOLEAN, dry : BOOLEAN]
  <2>1. /\ j.command = "update" /\ j.skills = Skills
        /\ j.targets \in {NoTargets, Given} /\ j.all \in BOOLEAN /\ j.force \in BOOLEAN /\ j.dry \in BOOLEAN
    BY <1>5
  <2> QED
    BY <1>d, <2>1 DEF NoOrder
<1>6. CASE j \in [command : {"local"}, skills : Singles, targets : {NoTargets, Given},
                  force : BOOLEAN]
  BY <1>1, <1>d, <1>6 DEF NoOrder
<1>7. CASE j \in [command : {"remove"}, skills : Singles]
  BY <1>1, <1>d, <1>7 DEF NoOrder
<1> QED
  BY <1>2, <1>3, <1>4, <1>5, <1>6, <1>7 DEF Orders

LEMMA MetadataShape ==
  ASSUME NEW m \in Metadata
  PROVE  m.targets \in Placements /\ m.version \in Versions \cup {Local}
BY DEF Metadata

\* where the skills of a plan go
LEMMA TargetsShape ==
  ASSUME NEW j \in Orders, NEW content \in Contents, j.command # "remove"
  PROVE  TargetNames(j, content) \in Placements
<1>1. j.targets \in {NoTargets, Given}
  BY JobShape
<1>2. CASE j.targets # NoTargets
  BY <1>1, <1>2, Sizes DEF TargetNames
<1>3. CASE j.targets = NoTargets /\ \E s \in Slugs(j, content) : content[s] # Nothing
                                 /\ j.command = "update"
  <2> DEFINE known == Slugs(j, content) \cap Installed(content)
  <2>1. TargetNames(j, content) = UNION {content[s].targets : s \in known}
    BY <1>3 DEF TargetNames
  <2>2. \A s \in known : content[s].targets \in Placements
    BY MetadataShape DEF Contents, Installed
  <2>3. known # {}
    <3>1. Slugs(j, content) \subseteq Skills
      BY JobShape DEF Slugs, UpdateSlugs, Installed
    <3> QED
      BY <1>3, <3>1 DEF Installed
  <2> QED
    BY <2>1, <2>2, <2>3 DEF Placements
<1>4. CASE j.targets = NoTargets
             /\ ~(j.command = "update" /\ \E s \in Slugs(j, content) : content[s] # Nothing)
  BY <1>4, Sizes DEF TargetNames
<1> QED
  BY <1>2, <1>3, <1>4

LEMMA AskedShape ==
  ASSUME NEW j \in Orders, NEW content \in Contents
  PROVE  Asked(j, content) \subseteq Skills /\ Slugs(j, content) \subseteq Asked(j, content)
<1>1. Slugs(j, content) \subseteq Skills
  BY JobShape DEF Slugs, UpdateSlugs, Installed
<1> QED
  BY <1>1, Sizes DEF Asked

\* What the marketplace plans: an operation for every skill asked for that is not
\* there, and none for a local one of those that is not forced.
LEMMA PlansAreRight ==
  ASSUME SkillsTypeOK, NEW j \in Orders, NEW content \in Contents, j.command \in {"install", "update"},
         NEW operations \in Plans(j, content)
  PROVE  /\ operations \subseteq Operations
         /\ \A op \in operations :
              op.action \in {"install", "update"} /\ op.skill \in Asked(j, content) =>
                j.force \/ ~IsLocal(content[op.skill])
         /\ \A s \in Asked(j, content) : content[s] = Nothing =>
              \E op \in operations : op.skill = s /\ op.action \in {"install", "update"}
<1> DEFINE asked == Asked(j, content)
           payload == Payload(j, content)
           unasked == UNION {Unasked(s) : s \in Skills \ asked}
<1>1. PICK others \in {{}} \cup {{op} : op \in unasked} :
        operations = (UNION {Planned(s, payload) : s \in asked}) \cup others
  BY DEF Plans
<1>2. \A s \in Skills : payload[s] = Nothing \/ payload[s] = content[s]
  BY DEF Payload
<1>3. ~j.force => \A s \in Skills : payload[s] = content[s]
  BY DEF Payload
<1>4. asked \subseteq Skills
  BY AskedShape
<1>u. ASSUME NEW op \in unasked PROVE op \in Operations /\ op.skill \notin asked
  <2>1. PICK s \in Skills \ asked : op \in Unasked(s)
    BY <1>u
  <2>2. newest[s] \in Versions
    BY <2>1 DEF SkillsTypeOK
  <2> QED
    BY <2>1, <2>2 DEF Unasked, Operations
<1> HIDE DEF asked, payload, unasked
<1>5. \A op \in others : op \in Operations /\ op.skill \notin asked
  BY <1>1, <1>u
<1>6. ASSUME NEW s \in asked, NEW op \in Planned(s, payload)
      PROVE  /\ op \in Operations /\ op.skill = s /\ ~IsLocal(payload[s])
             /\ op.action \in {"noop", "install", "update"}
             /\ payload[s] = Nothing => op.action = "install"
  <2>1. op = [action |-> IF payload[s] = Nothing THEN "install"
                         ELSE IF payload[s].version = newest[s] THEN "noop" ELSE "update",
              skill |-> s, version |-> newest[s]] /\ ~IsLocal(payload[s])
    BY <1>6 DEF Planned
  <2>2. newest[s] \in Versions /\ s \in Skills
    BY <1>4 DEF SkillsTypeOK
  <2> QED
    BY <2>1, <2>2 DEF Operations
<1>7. operations \subseteq Operations
  BY <1>1, <1>5, <1>6
<1>8. ASSUME NEW op \in operations, op.action \in {"install", "update"}, op.skill \in asked
      PROVE  j.force \/ ~IsLocal(content[op.skill])
  <2>1. PICK s \in asked : op \in Planned(s, payload)
    BY <1>1, <1>5, <1>8
  <2> QED
    BY <1>3, <1>4, <1>6, <2>1
<1>9. ASSUME NEW s \in asked, content[s] = Nothing
      PROVE  \E op \in operations : op.skill = s /\ op.action \in {"install", "update"}
  <2>1. payload[s] = Nothing
    BY <1>2, <1>4, <1>9
  <2>2. PICK op \in Planned(s, payload) : TRUE
    BY <2>1 DEF Planned, IsLocal
  <2>3. op \in operations
    BY <1>1
  <2> QED
    BY <1>6, <2>1, <2>2, <2>3
<1> QED
  BY <1>7, <1>8, <1>9 DEF asked

-----------------------------------------------------------------------------
(***************************************************************************)
(* A step of one run                                                       *)
(***************************************************************************)

\* what the step of a run leaves of the others
Frame(r) ==
  \A q \in Actors \ {r} : /\ phase'[q] = phase[q] /\ order'[q] = order[q] /\ seen'[q] = seen[q]
                          /\ todo'[q] = todo[q] /\ report'[q] = report[q]
                          /\ outdated'[q] = outdated[q]

LEMMA OthersOwn ==
  ASSUME Inv, NEW q \in Actors, phase'[q] = phase[q], order'[q] = order[q], seen'[q] = seen[q],
         todo'[q] = todo[q], outdated'[q] = outdated[q], inst' = inst \/ holder # q
  PROVE  Own(q)'
<1>1. Own(q) /\ (Holding(q) => holder = q)
  BY DEF Inv, SkillsTypeOK, Holding
<1>2. Prepared(q)' /\ Faithful(q)'
  BY <1>1 DEF Own, Prepared, Faithful, Planning
<1>3. Kept(q)'
  BY <1>1 DEF Own, Kept, Holding, Planning
<1>4. Complete(q)'
  BY <1>1 DEF Own, Prepared, Complete, Holding, Planning
<1> QED
  BY <1>2, <1>3, <1>4 DEF Own

\* what has to be shown of a step of a run
LEMMA RunStep ==
  ASSUME Inv, NEW r \in Actors, Frame(r), SkillsTypeOK', Own(r)', inst' = inst \/ holder = r
  PROVE  Inv'
<1>1. \A q \in Actors \ {r} : Own(q)'
  BY OthersOwn DEF Frame
<1> QED
  BY <1>1 DEF Inv

LEMMA ForgetRunStep ==
  ASSUME Inv, NEW r \in Actors, ForgetRun(r)
  PROVE  Inv'
<1>1. /\ phase' = [phase EXCEPT ![r] = "idle"] /\ report' = [report EXCEPT ![r] = "running"]
      /\ holder' = IF holder = r THEN Nothing ELSE holder
      /\ order' = [order EXCEPT ![r] = NoOrder] /\ seen' = [seen EXCEPT ![r] = NoSkills]
      /\ todo' = [todo EXCEPT ![r] = {}] /\ outdated' = [outdated EXCEPT ![r] = FALSE]
      /\ newest' = newest /\ inst' = inst /\ SkillsTypeOK
  BY DEF ForgetRun, Inv
<1>2. Frame(r)
  BY <1>1 DEF Frame, SkillsTypeOK
<1>3. /\ phase'[r] = "idle" /\ order'[r] = NoOrder /\ todo'[r] = {}
  BY <1>1 DEF SkillsTypeOK
<1>4. SkillsTypeOK'
  <2>1. NoSkills \in Contents
    BY DEF NoSkills, Contents
  <2>2. \A q \in Actors : phase'[q] \in {"plan", "execute"} /\ ~Dry(order'[q]) <=> holder' = q
    BY <1>1, <1>2, <1>3, Sizes DEF Frame, SkillsTypeOK
  <2> QED
    BY <1>1, <2>1, <2>2 DEF SkillsTypeOK
<1>5. Own(r)'
  <2>1. order'[r].command = "none"
    BY <1>3 DEF NoOrder
  <2> QED
    BY <1>3, <2>1 DEF Own, Prepared, Faithful, Kept, Complete, Holding
<1> QED
  BY <1>1, <1>2, <1>4, <1>5, RunStep

LEMMA BeginRunStep ==
  ASSUME Inv, NEW r \in Actors, NEW j \in Orders, Begin(r, j)
  PROVE  Inv'
<1>1. /\ phase[r] = "idle" /\ j.command # "update" /\ order' = [order EXCEPT ![r] = j]
      /\ phase' = [phase EXCEPT ![r] = IF j.command = "install" /\ j.dry THEN "plan" ELSE "lock"]
      /\ seen' = IF Dry(j) THEN [seen EXCEPT ![r] = inst] ELSE seen
      /\ UNCHANGED <<newest, inst, todo, outdated, report, holder>> /\ SkillsTypeOK
  BY DEF Begin, GoTo, Inv
<1>2. Frame(r)
  BY <1>1 DEF Frame, SkillsTypeOK
<1>3. /\ phase'[r] \in {"plan", "lock"} /\ order'[r] = j /\ todo'[r] = {}
      /\ phase'[r] = "plan" <=> Dry(j)
      /\ phase'[r] = "plan" => j.command = "install"
  BY <1>1, JobShape DEF SkillsTypeOK, Dry, Inv, Own, Prepared
<1>4. SkillsTypeOK'
  <2>1. \A q \in Actors : phase'[q] \in {"plan", "execute"} /\ ~Dry(order'[q]) <=> holder' = q
    BY <1>1, <1>2, <1>3 DEF Frame, SkillsTypeOK
  <2>2. seen' \in [Actors -> Contents]
    BY <1>1 DEF SkillsTypeOK
  <2> QED
    BY <1>1, <2>1, <2>2 DEF SkillsTypeOK
<1>5. Own(r)'
  BY <1>1, <1>3 DEF Own, Prepared, Faithful, Kept, Complete, Holding, Planning
<1> QED
  BY <1>1, <1>2, <1>4, <1>5, RunStep

LEMMA BeginUpdateStep ==
  ASSUME Inv, NEW r \in Actors, NEW j \in Orders, BeginUpdate(r, j)
  PROVE  Inv'
<1>1. /\ phase[r] = "idle" /\ j.command = "update" /\ order' = [order EXCEPT ![r] = j]
      /\ seen' = [seen EXCEPT ![r] = inst]
      /\ UNCHANGED <<newest, inst, todo, outdated>> /\ SkillsTypeOK /\ holder # r
  BY DEF BeginUpdate, Inv, SkillsTypeOK
<1>2. \/ /\ ~Refused(j, inst) /\ report' = report
         /\ phase' = [phase EXCEPT ![r] = IF j.dry THEN "plan" ELSE "lock"]
      \/ phase' = [phase EXCEPT ![r] = "end"] /\ report' = [report EXCEPT ![r] = "done"]
  BY DEF BeginUpdate, GoTo, Succeed
<1>3. holder' = holder
  BY <1>1 DEF BeginUpdate, GoTo, Succeed
<1>4. Frame(r)
  BY <1>1, <1>2 DEF Frame, SkillsTypeOK
<1>5. /\ order'[r] = j /\ todo'[r] = {} /\ seen'[r] = inst
      /\ \/ phase'[r] \in {"plan", "lock"} /\ ~Refused(j, inst) /\ (phase'[r] = "plan" <=> Dry(j))
         \/ phase'[r] = "end"
  BY <1>1, <1>2, JobShape DEF SkillsTypeOK, Dry, Inv, Own, Prepared
<1>6. SkillsTypeOK'
  <2>1. \A q \in Actors : phase'[q] \in {"plan", "execute"} /\ ~Dry(order'[q]) <=> holder' = q
    BY <1>1, <1>3, <1>4, <1>5 DEF Frame, SkillsTypeOK
  <2>2. phase' \in [Actors -> {"idle", "lock", "plan", "execute", "end"}]
        /\ report' \in [Actors -> {"running", "done"}]
    BY <1>1, <1>2 DEF SkillsTypeOK
  <2> QED
    BY <1>1, <1>3, <2>1, <2>2 DEF SkillsTypeOK
<1>7. Own(r)'
  BY <1>1, <1>5 DEF Own, Prepared, Faithful, Kept, Complete, Holding, Planning
<1> QED
  BY <1>1, <1>4, <1>6, <1>7, RunStep

LEMMA LockStep ==
  ASSUME Inv, NEW r \in Actors, Lock(r)
  PROVE  Inv'
<1>1. /\ phase[r] = "lock" /\ holder = Nothing /\ holder' = r
      /\ phase' = [phase EXCEPT ![r] = IF order[r].command \in {"local", "remove"} THEN "execute"
                                       ELSE "plan"]
      /\ UNCHANGED <<newest, inst, order, todo, report>> /\ SkillsTypeOK /\ Own(r) /\ order[r] \in Orders \cup {NoOrder}
  BY DEF Lock, Inv, SkillsTypeOK
<1>2. /\ outdated' \in [Actors -> BOOLEAN] /\ seen' \in [Actors -> Contents]
      /\ \A q \in Actors \ {r} : outdated'[q] = outdated[q] /\ seen'[q] = seen[q]
      /\ \/ seen'[r] = inst /\ order[r].command # "update"
         \/ seen'[r] = seen[r] /\ (~outdated'[r] => seen[r] = inst)
    <2>1. CASE order[r].command = "update"
      <3>1. outdated' = [outdated EXCEPT ![r] = (seen[r] # inst)] /\ UNCHANGED seen
        BY <2>1 DEF Lock
      <3> QED
        BY <1>1, <3>1 DEF SkillsTypeOK
    <2>2. CASE order[r].command # "update"
      <3>1. seen' = [seen EXCEPT ![r] = inst] /\ UNCHANGED outdated
        BY <2>2 DEF Lock
      <3> QED
        BY <1>1, <2>2, <3>1 DEF SkillsTypeOK
    <2> QED
      BY <2>1, <2>2
<1>3. Frame(r)
  BY <1>1, <1>2 DEF Frame, SkillsTypeOK
<1>4. /\ phase'[r] \in {"plan", "execute"} /\ ~Dry(order[r]) /\ todo'[r] = {}
      /\ phase'[r] = "execute" => order[r].command \in {"local", "remove"}
      /\ phase'[r] = "plan" => order[r].command \notin {"local", "remove"}
      /\ order[r] \in Orders
      /\ order[r].command = "update" => ~Refused(order[r], seen[r]) /\ seen'[r] = seen[r]
  BY <1>1, <1>2 DEF SkillsTypeOK, Own, Prepared
<1>5. SkillsTypeOK'
  <2>1. \A q \in Actors : phase'[q] \in {"plan", "execute"} /\ ~Dry(order'[q]) <=> holder' = q
    BY <1>1, <1>3, <1>4, Sizes DEF Frame, SkillsTypeOK
  <2>2. phase' \in [Actors -> {"idle", "lock", "plan", "execute", "end"}]
    BY <1>1 DEF SkillsTypeOK
  <2> QED
    BY <1>1, <1>2, <2>1, <2>2 DEF SkillsTypeOK
<1>6. Own(r)'
  <2>1. phase'[r] = "plan" => order[r].command \in {"install", "update"} \/ order[r].command = "remove"
    BY <1>4, JobShape
  <2>2. Prepared(r)'
    BY <1>1, <1>2, <1>4, <2>1 DEF Prepared, Planning
  <2> QED
    BY <1>1, <1>2, <1>4, <2>2 DEF Own, Faithful, Kept, Complete, Holding, Planning
<1> QED
  BY <1>1, <1>3, <1>5, <1>6, RunStep

\* the last step of a command that reports success
LEMMA SucceedStep ==
  ASSUME Inv, NEW r \in Actors, phase[r] \in {"plan", "execute"}, todo[r] = {}, Succeed(r),
         UNCHANGED <<newest, order, seen, todo, outdated>>,
         inst' \in Contents, inst' = inst \/ holder = r
  PROVE  Inv'
<1>1. /\ phase' = [phase EXCEPT ![r] = "end"] /\ report' = [report EXCEPT ![r] = "done"]
      /\ holder' = IF holder = r THEN Nothing ELSE holder
      /\ SkillsTypeOK /\ Own(r)
  BY DEF Succeed, Inv
<1>2. Frame(r)
  BY <1>1 DEF Frame, SkillsTypeOK
<1>3. phase'[r] = "end" /\ todo'[r] = {}
  BY <1>1 DEF SkillsTypeOK
<1>4. SkillsTypeOK'
  <2>1. \A q \in Actors : phase'[q] \in {"plan", "execute"} /\ ~Dry(order'[q]) <=> holder' = q
    BY <1>1, <1>2, <1>3, Sizes DEF Frame, SkillsTypeOK
  <2>2. /\ phase' \in [Actors -> {"idle", "lock", "plan", "execute", "end"}]
        /\ report' \in [Actors -> {"running", "done"}] /\ holder' \in Actors \cup {Nothing}
    BY <1>1 DEF SkillsTypeOK
  <2> QED
    BY <1>1, <2>1, <2>2 DEF SkillsTypeOK
<1>5. Own(r)'
  BY <1>1, <1>3 DEF Own, Prepared, Faithful, Kept, Complete, Holding
<1> QED
  BY <1>2, <1>4, <1>5, RunStep

LEMMA PlanStep ==
  ASSUME Inv, NEW r \in Actors, Plan(r)
  PROVE  Inv'
<1>1. /\ phase[r] = "plan" /\ UNCHANGED <<newest, inst, order, seen, outdated>>
      /\ SkillsTypeOK /\ Own(r) /\ seen[r] \in Contents /\ inst \in Contents
  BY DEF Plan, Inv, SkillsTypeOK
<1>2. PICK operations \in Plans(order[r], seen[r]) :
        IF order[r].dry THEN Succeed(r) /\ UNCHANGED todo
        ELSE GoTo(r, "execute") /\ todo' = [todo EXCEPT ![r] = operations]
  BY DEF Plan
<1>3. /\ order[r] \in Orders /\ Planning(r) /\ todo[r] = {}
      /\ order[r].command = "update" => ~Refused(order[r], seen[r])
  BY <1>1 DEF Own, Prepared
<1>4. Dry(order[r]) <=> order[r].dry
  BY <1>3 DEF Planning, Dry
<1>5. CASE order[r].dry
  <2>1. Succeed(r) /\ UNCHANGED todo
    BY <1>2, <1>5
  <2> QED
    BY <1>1, <1>3, <2>1, SucceedStep
<1>6. CASE ~order[r].dry
  <2>1. /\ phase' = [phase EXCEPT ![r] = "execute"] /\ UNCHANGED <<report, holder>>
        /\ todo' = [todo EXCEPT ![r] = operations]
    BY <1>2, <1>6 DEF GoTo
  <2>2. /\ operations \subseteq Operations
        /\ \A op \in operations :
             op.action \in {"install", "update"} /\ op.skill \in Asked(order[r], seen[r]) =>
               order[r].force \/ ~IsLocal(seen[r][op.skill])
        /\ \A s \in Asked(order[r], seen[r]) : seen[r][s] = Nothing =>
             \E op \in operations : op.skill = s /\ op.action \in {"install", "update"}
    BY <1>1, <1>2, <1>3, PlansAreRight DEF Planning
  <2>3. Frame(r) /\ phase'[r] = "execute" /\ todo'[r] = operations
    BY <1>1, <2>1 DEF Frame, SkillsTypeOK
  <2>4. Holding(r) /\ holder = r
    BY <1>1, <1>4, <1>6 DEF Holding, SkillsTypeOK
  <2>5. SkillsTypeOK'
    <3>1. \A q \in Actors : phase'[q] \in {"plan", "execute"} /\ ~Dry(order'[q]) <=> holder' = q
      BY <1>1, <2>1, <2>3, <2>4 DEF Frame, SkillsTypeOK, Holding
    <3>2. todo' \in [Actors -> SUBSET Operations]
      BY <1>1, <2>1, <2>2 DEF SkillsTypeOK
    <3> QED
      BY <1>1, <2>1, <3>1, <3>2 DEF SkillsTypeOK
  <2>6. Prepared(r)' /\ Faithful(r)'
    BY <1>1, <1>3, <1>4, <1>6, <2>2, <2>3 DEF Prepared, Faithful, Planning
  <2>7. ~outdated[r] => \A s \in Skills : inst[s] = seen[r][s]
    BY <1>1, <2>4 DEF Own, Kept
  <2>8. Kept(r)'
    BY <1>1, <2>7 DEF Kept
  <2>9. Complete(r)'
    BY <1>1, <1>3, <2>2, <2>3, <2>7, AskedShape DEF Complete
  <2> QED
    BY <1>1, <2>3, <2>5, <2>6, <2>8, <2>9, RunStep DEF Own
<1> QED
  BY <1>5, <1>6

-----------------------------------------------------------------------------
(***************************************************************************)
(* Carrying it out                                                         *)
(***************************************************************************)

\* what one that carries out a plan knows
LEMMA Executing ==
  ASSUME Inv, NEW r \in Actors, phase[r] = "execute"
  PROVE  /\ Holding(r) /\ holder = r /\ order[r] \in Orders
         /\ \A q \in Actors : holder = q => q = r
BY DEF Inv, SkillsTypeOK, Own, Prepared, Holding

\* what is left of the plan once an operation is out of it
LEMMA PlanShrinks ==
  ASSUME Inv, NEW r \in Actors, NEW op \in todo[r], phase[r] = "execute",
         todo' = [todo EXCEPT ![r] = @ \ {op}],
         UNCHANGED <<newest, phase, report, holder, order, seen, outdated>>, inst' \in Contents
  PROVE  SkillsTypeOK' /\ Frame(r) /\ Prepared(r)' /\ Faithful(r)' /\ todo'[r] = todo[r] \ {op}
<1>1. SkillsTypeOK /\ Own(r)
  BY DEF Inv
<1>2. todo'[r] = todo[r] \ {op} /\ Frame(r)
  BY <1>1 DEF SkillsTypeOK, Frame
<1>3. SkillsTypeOK'
  BY <1>1 DEF SkillsTypeOK
<1>4. Prepared(r)'
  BY <1>1, <1>2 DEF Own, Prepared, Planning
<1>5. Faithful(r)'
  BY <1>1, <1>2 DEF Own, Faithful
<1> QED
  BY <1>2, <1>3, <1>4, <1>5

LEMMA ExecuteStep ==
  ASSUME Inv, NEW r \in Actors, NEW op \in todo[r], Execute(r, op)
  PROVE  Inv'
<1> DEFINE meta == [version |-> op.version, pinned |-> op.skill \in PinnedSlugs(order[r]),
                    targets |-> TargetNames(order[r], seen[r])]
<1>1. /\ phase[r] = "execute" /\ op.action \in {"install", "update"}
      /\ inst' = [inst EXCEPT ![op.skill] = meta]
      /\ todo' = [todo EXCEPT ![r] = @ \ {op}]
      /\ UNCHANGED <<newest, phase, report, holder, order, seen, outdated>>
      /\ SkillsTypeOK /\ Own(r)
  BY DEF Execute, Inv
<1>2. Holding(r) /\ holder = r /\ order[r] \in Orders
  BY <1>1, Executing
<1>3. /\ Planning(r)
      /\ op \in Operations /\ seen[r] \in Contents /\ inst \in Contents
  BY <1>1 DEF Own, Prepared, SkillsTypeOK
<1>4. op.skill \in Skills /\ op.version \in Versions
  BY <1>1, <1>3 DEF Operations
<1>5. meta \in Metadata /\ meta.version # Local
  <2>1. TargetNames(order[r], seen[r]) \in Placements
    BY <1>2, <1>3, TargetsShape DEF Planning
  <2>2. op.version # Local
    BY <1>4, Sizes DEF Versions, Local
  <2>3. meta \in [version : Versions, pinned : BOOLEAN, targets : Placements]
    BY <1>4, <2>1
  <2>4. meta.version # Local
    BY <2>2
  <2> HIDE DEF meta
  <2> QED
    BY <2>3, <2>4 DEF Metadata
<1>6. meta # Nothing /\ ~IsLocal(meta)
  BY <1>5, Absent DEF IsLocal
<1>7. inst' \in Contents /\ inst'[op.skill] = meta
      /\ \A s \in Skills \ {op.skill} : inst'[s] = inst[s]
  BY <1>1, <1>3, <1>4, <1>5 DEF Contents
<1>8. /\ meta.targets = TargetNames(order[r], seen[r])
      /\ order[r].command = "update" => ~IsPinned(meta)
  BY DEF PinnedSlugs, IsPinned
<1> HIDE DEF meta
<1>9. SkillsTypeOK' /\ Frame(r) /\ Prepared(r)' /\ Faithful(r)' /\ todo'[r] = todo[r] \ {op}
  BY <1>1, <1>7, PlanShrinks
<1>10. Kept(r)'
  <2>1. ~outdated[r] => \A s \in Skills :
          \/ inst'[s] = seen[r][s]
          \/ /\ inst'[s] # Nothing /\ ~IsLocal(inst'[s])
             /\ order[r].command = "update" => ~IsPinned(inst'[s])
             /\ inst'[s].targets = TargetNames(order[r], seen[r])
    BY <1>1, <1>2, <1>3, <1>6, <1>7, <1>8 DEF Own, Kept
  <2> QED
    BY <1>1, <1>3, <2>1 DEF Kept, Planning
<1>11. Complete(r)'
  <2>1. ~outdated[r] => \A s \in Asked(order[r], seen[r]) :
          \/ inst'[s] # Nothing
          \/ \E o \in todo'[r] : o.skill = s /\ o.action \in {"install", "update"}
    BY <1>1, <1>2, <1>3, <1>6, <1>7, <1>9, AskedShape DEF Own, Complete
  <2> QED
    BY <1>1, <2>1 DEF Complete
<1> QED
  BY <1>2, <1>9, <1>10, <1>11, RunStep DEF Own

LEMMA SkipStep ==
  ASSUME Inv, NEW r \in Actors, NEW op \in todo[r], Skip(r, op)
  PROVE  Inv'
<1>1. /\ phase[r] = "execute" /\ op.action \in {"noop", "remove"}
      /\ todo' = [todo EXCEPT ![r] = @ \ {op}]
      /\ UNCHANGED <<newest, inst, phase, report, holder, order, seen, outdated>>
      /\ SkillsTypeOK /\ Own(r)
  BY DEF Skip, Inv
<1>2. inst' \in Contents
  BY <1>1 DEF SkillsTypeOK
<1>3. SkillsTypeOK' /\ Frame(r) /\ Prepared(r)' /\ Faithful(r)' /\ todo'[r] = todo[r] \ {op}
  BY <1>1, <1>2, PlanShrinks
<1>4. Kept(r)'
  BY <1>1 DEF Own, Kept, Holding, Planning
<1>5. Complete(r)'
  BY <1>1, <1>3 DEF Own, Complete, Planning
<1> QED
  BY <1>1, <1>3, <1>4, <1>5, RunStep DEF Own

LEMMA FinishStep ==
  ASSUME Inv, NEW r \in Actors, Finish(r)
  PROVE  Inv'
<1>1. inst' \in Contents
  BY DEF Finish, Inv, SkillsTypeOK
<1> QED
  BY <1>1, SucceedStep DEF Finish

LEMMA InstallLocalStep ==
  ASSUME Inv, NEW r \in Actors, InstallLocal(r)
  PROVE  Inv'
<1>1. /\ phase[r] = "execute" /\ order[r].command = "local" /\ Succeed(r)
      /\ UNCHANGED <<newest, order, seen, todo, outdated>>
      /\ SkillsTypeOK /\ Own(r)
  BY DEF InstallLocal, Inv
<1>2. order[r] \in Orders /\ holder = r /\ todo[r] = {}
  BY <1>1, Executing DEF Own, Prepared, Planning
<1>3. TargetNames(order[r], seen[r]) \in Placements
  BY <1>1, <1>2, TargetsShape DEF SkillsTypeOK
<1>4. [version |-> Local, pinned |-> FALSE, targets |-> TargetNames(order[r], seen[r])] \in Metadata
  BY <1>3 DEF Metadata
<1>5. inst' \in Contents
  BY <1>1, <1>4 DEF InstallLocal, SkillsTypeOK, Contents
<1> QED
  BY <1>1, <1>2, <1>5, SucceedStep

LEMMA RemoveStep ==
  ASSUME Inv, NEW r \in Actors, Remove(r)
  PROVE  Inv'
<1>1. /\ phase[r] = "execute" /\ order[r].command = "remove" /\ Succeed(r)
      /\ UNCHANGED <<newest, order, seen, todo, outdated>>
      /\ SkillsTypeOK /\ Own(r)
  BY DEF Remove, Inv
<1>2. holder = r /\ todo[r] = {}
  BY <1>1, Executing DEF Own, Prepared, Planning
<1>3. inst' \in Contents
  BY <1>1 DEF Remove, SkillsTypeOK, Contents
<1> QED
  BY <1>1, <1>2, <1>3, SucceedStep

LEMMA NewVersionStep ==
  ASSUME Inv, NEW s \in Skills, Publish(s)
  PROVE  Inv'
<1>1. /\ newest[s] < MaxVersion /\ newest' = [newest EXCEPT ![s] = @ + 1]
      /\ UNCHANGED <<inst, holder, phase, order, seen, todo, report, outdated>> /\ SkillsTypeOK
  BY DEF Publish, Inv
<1>2. newest' \in [Skills -> Versions]
  BY <1>1, Sizes DEF SkillsTypeOK, Versions
<1>3. SkillsTypeOK'
  BY <1>1, <1>2 DEF SkillsTypeOK
<1>4. \A q \in Actors : Own(q)'
  BY <1>1, OthersOwn
<1> QED
  BY <1>3, <1>4 DEF Inv

LEMMA ElsewhereStep ==
  ASSUME Inv, NEW s \in Skills, Elsewhere(s)
  PROVE  Inv'
<1>1. /\ holder = Nothing
      /\ UNCHANGED <<newest, holder, phase, order, seen, todo, report, outdated>> /\ SkillsTypeOK
  BY DEF Elsewhere, Inv
<1>2. inst' \in Contents
  BY <1>1 DEF Elsewhere, SkillsTypeOK, Contents
<1>3. SkillsTypeOK'
  BY <1>1, <1>2 DEF SkillsTypeOK
<1>4. \A q \in Actors : holder # q
  BY <1>1, Sizes
<1>5. \A q \in Actors : Own(q)'
  BY <1>1, <1>4, OthersOwn
<1> QED
  BY <1>3, <1>5 DEF Inv

-----------------------------------------------------------------------------

LEMMA InitInv == SkillsInit => Inv
<1> SUFFICES ASSUME SkillsInit PROVE Inv
  OBVIOUS
<1>1. SkillsTypeOK
  <2>1. NoSkills \in Contents
    BY DEF NoSkills, Contents
  <2>2. 1 \in Versions
    BY Sizes DEF Versions
  <2> QED
    BY <2>1, <2>2, Sizes DEF SkillsInit, SkillsTypeOK
<1>2. ASSUME NEW r \in Actors PROVE Own(r)
  BY DEF SkillsInit, Own, Prepared, Faithful, Kept, Complete, Holding
<1> QED
  BY <1>1, <1>2 DEF Inv

LEMMA NextInv == Inv /\ [SkillsNext]_skillsVars => Inv'
<1> SUFFICES ASSUME Inv, [SkillsNext]_skillsVars PROVE Inv'
  OBVIOUS
<1>1. ASSUME NEW r \in Actors, NEW j \in Orders, Begin(r, j) PROVE Inv'
  BY <1>1, BeginRunStep
<1>2. ASSUME NEW r \in Actors, NEW j \in Orders, BeginUpdate(r, j) PROVE Inv'
  BY <1>2, BeginUpdateStep
<1>3. ASSUME NEW r \in Actors, Lock(r) PROVE Inv'
  BY <1>3, LockStep
<1>4. ASSUME NEW r \in Actors, Plan(r) PROVE Inv'
  BY <1>4, PlanStep
<1>5. ASSUME NEW r \in Actors, Stop(r) \/ ReturnRun(r) PROVE Inv'
  BY <1>5, ForgetRunStep DEF Stop, ReturnRun
<1>6. ASSUME NEW r \in Actors, NEW op \in todo[r], Execute(r, op) PROVE Inv'
  BY <1>6, ExecuteStep
<1>7. ASSUME NEW r \in Actors, NEW op \in todo[r], Skip(r, op) PROVE Inv'
  BY <1>7, SkipStep
<1>8. ASSUME NEW r \in Actors, Finish(r) PROVE Inv'
  BY <1>8, FinishStep
<1>9. ASSUME NEW r \in Actors, InstallLocal(r) PROVE Inv'
  BY <1>9, InstallLocalStep
<1>10. ASSUME NEW r \in Actors, Remove(r) PROVE Inv'
  BY <1>10, RemoveStep
<1>11. ASSUME NEW s \in Skills, Publish(s) PROVE Inv'
  BY <1>11, NewVersionStep
<1>12. ASSUME NEW s \in Skills, Elsewhere(s) PROVE Inv'
  BY <1>12, ElsewhereStep
<1>13. CASE UNCHANGED skillsVars
  BY <1>13 DEF skillsVars, Inv, SkillsTypeOK, Own, Prepared, Faithful, Kept, Complete, Holding, Planning
<1> QED
  BY <1>1, <1>2, <1>3, <1>4, <1>5, <1>6, <1>7, <1>8, <1>9, <1>10, <1>11, <1>12, <1>13 DEF SkillsNext

LEMMA Invariance == SkillsSpec => []Inv
BY InitInv, NextInv, PTL DEF SkillsSpec

\* SkillsTypeOK: each run is at one of the places of the command, with what it has read
\* and what is planned for it, and the lock is with the one that changes things.
THEOREM SkillsTypeCorrect == SkillsSpec => []SkillsTypeOK
<1>1. Inv => SkillsTypeOK
  BY DEF Inv
<1> QED
  BY <1>1, Invariance, PTL

-----------------------------------------------------------------------------
(***************************************************************************)
(* What a command changes                                                  *)
(***************************************************************************)

\* a skill changes under the lock by an operation of the plan, or is the one a
\* local install or a removal names
LEMMA Changes ==
  ASSUME Inv, [SkillsNext]_skillsVars, NEW r \in Actors, NEW s \in ChangedBy(r)
  PROVE  /\ phase[r] = "execute" /\ order[r] \in Orders
         /\ \/ \E op \in todo[r] : Execute(r, op) /\ op.skill = s
            \/ order[r].command \in {"local", "remove"} /\ s \in order[r].skills
<1>1. holder = r /\ inst'[s] # inst[s] /\ s \in Skills /\ inst \in Contents
  BY DEF ChangedBy, Inv, SkillsTypeOK
<1>2. \A q \in Actors : phase[q] = "execute" => q = r
  BY <1>1, Executing
<1>3. holder # Nothing
  BY <1>1, Sizes
<1>4. \/ \E op \in todo[r] : Execute(r, op)
      \/ InstallLocal(r)
      \/ Remove(r)
  <2>1. inst' # inst
    BY <1>1
  <2>2. \A t \in Skills : ~Publish(t) /\ ~Elsewhere(t)
    BY <1>3, <2>1 DEF Publish, Elsewhere
  <2>3. \A q \in Actors : /\ \A j \in Orders : ~Begin(q, j) /\ ~BeginUpdate(q, j)
                          /\ ~Lock(q) /\ ~Plan(q) /\ ~Stop(q) /\ ~Finish(q) /\ ~ReturnRun(q)
                          /\ \A op \in todo[q] : ~Skip(q, op)
    BY <2>1 DEF Begin, BeginUpdate, Lock, Plan, Stop, Finish, ReturnRun, Skip, ForgetRun
  <2>4. \A q \in Actors : \A op \in todo[q] : Execute(q, op) => q = r
    BY <1>2 DEF Execute
  <2>5. \A q \in Actors : InstallLocal(q) \/ Remove(q) => q = r
    BY <1>2 DEF InstallLocal, Remove
  <2>6. SkillsNext
    BY <2>1 DEF skillsVars
  <2> QED
    BY <2>2, <2>3, <2>4, <2>5, <2>6 DEF SkillsNext
<1>5. phase[r] = "execute"
  BY <1>4 DEF Execute, InstallLocal, Remove
<1>6. order[r] \in Orders
  BY <1>5, Executing
<1>7. ASSUME NEW op \in todo[r], Execute(r, op) PROVE op.skill = s
  BY <1>1, <1>7 DEF Execute, Contents
<1>8. InstallLocal(r) => order[r].command = "local" /\ s \in order[r].skills
  BY <1>1 DEF InstallLocal, Contents
<1>9. Remove(r) => order[r].command = "remove" /\ s \in order[r].skills
  BY <1>1 DEF Remove, Contents
<1> QED
  BY <1>4, <1>5, <1>6, <1>7, <1>8, <1>9

\* what an operation that is carried out may count on
LEMMA Carried ==
  ASSUME Inv, NEW r \in Actors, NEW op \in todo[r], Execute(r, op)
  PROVE  /\ op.skill \in Skills /\ inst'[op.skill] # Nothing
         /\ op.skill \in Asked(order[r], seen[r]) =>
              order[r].force \/ ~IsLocal(seen[r][op.skill])
         /\ inst'[op.skill].targets = TargetNames(order[r], seen[r])
         /\ ~outdated[r] =>
              \/ inst[op.skill] = seen[r][op.skill]
              \/ /\ ~IsLocal(inst[op.skill])
                 /\ order[r].command = "update" => ~IsPinned(inst[op.skill])
                 /\ inst[op.skill].targets = TargetNames(order[r], seen[r])
<1> DEFINE meta == [version |-> op.version, pinned |-> op.skill \in PinnedSlugs(order[r]),
                    targets |-> TargetNames(order[r], seen[r])]
<1>1. /\ phase[r] = "execute" /\ op.action \in {"install", "update"} /\ Own(r) /\ SkillsTypeOK
      /\ inst' = [inst EXCEPT ![op.skill] = meta]
  BY DEF Execute, Inv
<1>2. order[r] \in Orders /\ seen[r] \in Contents /\ Holding(r)
  BY <1>1, Executing DEF SkillsTypeOK
<1>3. op.skill \in Asked(order[r], seen[r]) => order[r].force \/ ~IsLocal(seen[r][op.skill])
  BY <1>1 DEF Own, Faithful
<1>4. op.skill \in Skills /\ op.version \in Versions /\ Planning(r)
  BY <1>1 DEF SkillsTypeOK, Operations, Own, Prepared
<1>5. inst'[op.skill] = meta
  BY <1>1, <1>4 DEF SkillsTypeOK, Contents
<1>6. meta \in Metadata
  <2>1. TargetNames(order[r], seen[r]) \in Placements
    BY <1>2, <1>4, TargetsShape DEF Planning
  <2>2. meta \in [version : Versions, pinned : BOOLEAN, targets : Placements]
    BY <1>4, <2>1
  <2> HIDE DEF meta
  <2> QED
    BY <2>2 DEF Metadata
<1>7. meta # Nothing /\ meta.targets = TargetNames(order[r], seen[r])
  BY <1>6, Absent
<1> HIDE DEF meta
<1> QED
  BY <1>1, <1>2, <1>3, <1>4, <1>5, <1>7 DEF Own, Kept

\* what an update without --force is about was neither pinned nor local
LEMMA NamedForUpdate ==
  ASSUME Inv, NEW r \in Actors, phase[r] = "execute", order[r].command = "update",
         NEW s \in Slugs(order[r], seen[r])
  PROVE  seen[r][s] # Nothing /\ (order[r].force \/ ~IsPinned(seen[r][s]))
<1>1. ~Refused(order[r], seen[r])
  BY DEF Inv, Own, Prepared
<1>2. CASE order[r].all
  BY <1>2 DEF Slugs, UpdateSlugs, Installed
<1>3. CASE ~order[r].all
  BY <1>1, <1>3 DEF Slugs, UpdateSlugs, Refused
<1> QED
  BY <1>2, <1>3

\* Whatever the marketplace plans, an install or update removes no skill, and without
\* force replaces no local skill it asks for and no pinned one it is about:
\* execute_plan without removals, after the checks of install and update.
THEOREM CommandsKeepSkills == SkillsSpec => KeptUnlessForced
<1>1. ASSUME Inv, [SkillsNext]_skillsVars, NEW r \in Actors, NEW s \in ChangedBy(r),
             order[r].command \in {"install", "update"}
      PROVE  /\ inst'[s] # Nothing
             /\ \/ IsLocal(inst[s]) /\ s \in Asked(order[r], seen[r])
                \/ /\ IsPinned(inst[s]) /\ order[r].command = "update"
                   /\ s \in Slugs(order[r], seen[r])
                => order[r].force \/ outdated[r]
  <2>1. PICK op \in todo[r] : Execute(r, op) /\ op.skill = s
    BY <1>1, Changes
  <2>2. phase[r] = "execute" /\ outdated[r] \in BOOLEAN
    BY <1>1, <2>1 DEF Execute, Inv, SkillsTypeOK
  <2>3. inst'[s] # Nothing
    BY <1>1, <2>1, Carried
  <2>4. ASSUME ~outdated[r], IsLocal(inst[s]), s \in Asked(order[r], seen[r]) PROVE order[r].force
    <3>1. inst[s] = seen[r][s]
      BY <1>1, <2>1, <2>4, Carried
    <3>2. IsLocal(seen[r][s])
      BY <2>4, <3>1
    <3> QED
      BY <1>1, <2>1, <2>4, <3>2, Carried
  <2>5. ASSUME ~outdated[r], IsPinned(inst[s]), order[r].command = "update",
               s \in Slugs(order[r], seen[r])
        PROVE  order[r].force
    <3>1. inst[s] = seen[r][s]
      BY <1>1, <2>1, <2>5, Carried
    <3>2. IsPinned(seen[r][s])
      BY <2>5, <3>1
    <3> QED
      BY <1>1, <2>2, <2>5, <3>2, NamedForUpdate
  <2> QED
    BY <2>2, <2>3, <2>4, <2>5
<1>2. Inv /\ [SkillsNext]_skillsVars =>
        [\A r \in Actors, s \in Skills :
           s \in ChangedBy(r) /\ order[r].command \in {"install", "update"} =>
             /\ inst'[s] # Nothing
             /\ \/ IsLocal(inst[s]) /\ s \in Asked(order[r], seen[r])
                \/ /\ IsPinned(inst[s]) /\ order[r].command = "update"
                   /\ s \in Slugs(order[r], seen[r])
                => order[r].force \/ outdated[r]]_skillsVars
  BY <1>1
<1> QED
  BY <1>2, Invariance, PTL DEF SkillsSpec, KeptUnlessForced

\* An update takes no skill it is about out of a target, unless other targets are
\* asked for: the default targets of skills update.  What else is in the plan has
\* no such promise.
THEOREM UpdatesKeepPlacements == SkillsSpec => PlacementsPreserved
<1>1. ASSUME Inv, [SkillsNext]_skillsVars, NEW r \in Actors, order[r].command = "update",
             order[r].targets = NoTargets, ~outdated[r],
             NEW s \in ChangedBy(r) \cap Slugs(order[r], seen[r])
      PROVE  inst[s].targets \subseteq inst'[s].targets
  <2>1. PICK op \in todo[r] : Execute(r, op) /\ op.skill = s
    BY <1>1, Changes
  <2>2. /\ inst'[s].targets = TargetNames(order[r], seen[r]) /\ s \in Skills
        /\ inst[s] = seen[r][s] \/ inst[s].targets = TargetNames(order[r], seen[r])
    BY <1>1, <2>1, Carried
  <2>3. seen[r][s] # Nothing
    <3>1. phase[r] = "execute"
      BY <1>1, Changes
    <3> QED
      BY <1>1, <3>1, NamedForUpdate
  <2>4. TargetNames(order[r], seen[r])
          = UNION {seen[r][t].targets : t \in Slugs(order[r], seen[r]) \cap Installed(seen[r])}
    BY <1>1, <2>3 DEF TargetNames
  <2>5. seen[r][s].targets \subseteq TargetNames(order[r], seen[r])
    BY <2>2, <2>3, <2>4, <1>1 DEF Installed
  <2> QED
    BY <2>2, <2>5
<1>2. Inv /\ [SkillsNext]_skillsVars =>
        [\A r \in Actors :
           order[r].command = "update" /\ order[r].targets = NoTargets /\ ~outdated[r] =>
               \A s \in ChangedBy(r) \cap Slugs(order[r], seen[r]) :
                 inst[s].targets \subseteq inst'[s].targets]_skillsVars
  BY <1>1
<1> QED
  BY <1>2, Invariance, PTL DEF SkillsSpec, PlacementsPreserved

\* An install or update that reports success has every skill it is about, and
\* everything they need, installed (execute_plan goes on with no operation left
\* out), with any number of commands waiting for the lock.
THEOREM SuccessIsInstalled == SkillsSpec => DoneIsInstalled
<1>1. ASSUME Inv, [SkillsNext]_skillsVars, NEW r \in Actors,
             report[r] = "running", report'[r] = "done",
             order'[r].command \in {"install", "update"}, ~Dry(order'[r]), ~outdated[r],
             order'[r].command = "update" => Installed(seen'[r]) # {}
      PROVE  Asked(order'[r], seen'[r]) \subseteq Installed(inst')
  <2>1. SkillsTypeOK /\ Own(r)
    BY <1>1 DEF Inv
  <2>2. ASSUME NEW q \in Actors, Succeed(q) PROVE q = r
    BY <1>1, <2>1, <2>2 DEF Succeed, SkillsTypeOK
  <2>3. ASSUME NEW q \in Actors, ForgetRun(q) PROVE FALSE
    BY <1>1, <2>1, <2>3 DEF ForgetRun, SkillsTypeOK
  <2>4. report' # report
    BY <1>1
  <2>5. CASE Finish(r)
    <3>1. /\ phase[r] = "execute" /\ Planning(r) /\ todo[r] = {}
          /\ order' = order /\ seen' = seen /\ inst' = inst
      BY <2>5 DEF Finish, Planning
    <3>2. order[r] \in Orders /\ seen[r] \in Contents
      BY <1>1, <2>1, <3>1, Executing DEF SkillsTypeOK
    <3>3. \A s \in Asked(order[r], seen[r]) : inst[s] # Nothing
      BY <1>1, <2>1, <3>1 DEF Own, Complete
    <3> QED
      BY <3>1, <3>2, <3>3, AskedShape DEF Installed
  <2>6. CASE \E j \in Orders : BeginUpdate(r, j)
    <3>1. PICK j \in Orders : BeginUpdate(r, j)
      BY <2>6
    <3>2. j.command = "update" /\ order'[r] = j /\ seen'[r] = inst
      BY <2>1, <3>1 DEF BeginUpdate, SkillsTypeOK
    <3>3. Installed(inst) = {} \/ UpdateSlugs(j, inst) = {}
      BY <1>1, <2>4, <3>1 DEF BeginUpdate, GoTo
    <3>4. UpdateSlugs(j, inst) = {}
      BY <1>1, <3>2, <3>3
    <3> QED
      BY <3>2, <3>4 DEF Asked, Slugs
  <2>7. CASE Plan(r)
    <3>1. order'[r] = order[r] /\ order[r].dry
      BY <2>4, <2>7 DEF Plan, GoTo
    <3> QED
      BY <1>1, <3>1 DEF Dry
  <2>8. CASE InstallLocal(r) \/ Remove(r)
    BY <1>1, <2>8 DEF InstallLocal, Remove
  <2>9. SkillsNext
    BY <1>1, <2>4 DEF skillsVars
  <2>10. \A q \in Actors : /\ ~Stop(q) /\ ~ReturnRun(q) /\ ~Lock(q)
                           /\ \A j \in Orders : ~Begin(q, j)
                           /\ \A op \in todo[q] : ~Execute(q, op) /\ ~Skip(q, op)
    BY <2>3, <2>4 DEF Stop, ReturnRun, Lock, Begin, GoTo, Execute, Skip
  <2>11. \A s \in Skills : ~Publish(s) /\ ~Elsewhere(s)
    BY <2>4 DEF Publish, Elsewhere
  <2>12. \A q \in Actors : /\ Finish(q) \/ InstallLocal(q) \/ Remove(q) \/ Plan(q) => q = r
                           /\ \A j \in Orders : BeginUpdate(q, j) => q = r
    BY <2>2, <2>4 DEF Finish, InstallLocal, Remove, Plan, BeginUpdate, GoTo
  <2> QED
    BY <2>5, <2>6, <2>7, <2>8, <2>9, <2>10, <2>11, <2>12 DEF SkillsNext
<1>2. Inv /\ [SkillsNext]_skillsVars =>
        [\A r \in Actors :
           /\ report[r] = "running" /\ report'[r] = "done"
           /\ order'[r].command \in {"install", "update"} /\ ~Dry(order'[r]) /\ ~outdated[r]
           /\ order'[r].command = "update" => Installed(seen'[r]) # {}
           => Asked(order'[r], seen'[r]) \subseteq Installed(inst')]_skillsVars
  BY <1>1
<1> QED
  BY <1>2, Invariance, PTL DEF SkillsSpec, DoneIsInstalled
=============================================================================
