------------------------- MODULE RelayClient_proofs -------------------------
(***************************************************************************)
(* Proofs about RelayClient, for any number of requests, sessions, chunks  *)
(* and any cutting of a stream into chunks.  AnswersWhole is not           *)
(* inductive: what a task still has to send must continue what it has      *)
(* sent, so the invariant says of every place of a task which frames are   *)
(* out and which are left.  TextIntact needs that what was passed on ends  *)
(* at the end of a character.  BackoffExact needs the equation of the      *)
(* powers of two, proved by induction on initial segments, and how often   *)
(* the wait was doubled at every place of the loop.                        *)
(***************************************************************************)
EXTENDS RelayClient, SequenceTheorems, WellFoundedInduction, TLAPS

-----------------------------------------------------------------------------
(* UTF-8.                                                                  *)

LEMMA ValidParts ==
    ASSUME NEW b \in Seq(Byte)
    PROVE  Valid(b) <=> \A i \in 1 .. Len(b) :
                            /\ b[i] = "first" => i < Len(b) /\ b[i + 1] = "last"
                            /\ b[i] = "last" => i > 1 /\ b[i - 1] = "first"
BY DEF Valid

LEMMA FrontParts ==
    ASSUME NEW b \in Seq(Byte), b # <<>>
    PROVE  /\ Front(b) \in Seq(Byte) /\ Len(Front(b)) = Len(b) - 1
           /\ Len(b) \in Nat /\ Len(b) >= 1
           /\ \A i \in 1 .. Len(b) - 1 : Front(b)[i] = b[i]
           /\ Last(b) = b[Len(b)] /\ Last(b) \in Byte
           /\ b = Front(b) \o <<Last(b)>>
<1>1. Len(b) \in Nat /\ Len(b) >= 1
  BY EmptySeq
<1>2. Front(b) = SubSeq(b, 1, Len(b) - 1) /\ Last(b) = b[Len(b)]
  BY DEF Front, Last
<1>3. Last(b) \in Byte
  BY <1>1, <1>2
<1>4. \A i \in 1 .. Len(b) - 1 : b[i] \in Byte
  BY <1>1
<1>5. Front(b) \in Seq(Byte) /\ Len(Front(b)) = Len(b) - 1
  <2> DEFINE m == Len(b) - 1
  <2>1. m \in Int /\ m >= 0 /\ m = Len(b) - 1
    BY <1>1
  <2> HIDE DEF m
  <2>2. Front(b) = SubSeq(b, 1, m) /\ \A i \in 1 .. m : b[i] \in Byte
    BY <1>2, <1>4, <2>1
  <2>3. SubSeq(b, 1, m) \in Seq(Byte) /\ Len(SubSeq(b, 1, m)) = IF 1 <= m THEN m - 1 + 1 ELSE 0
    BY <2>1, <2>2, SubSeqProperties
  <2> QED BY <2>1, <2>2, <2>3
<1>6. \A i \in 1 .. Len(b) - 1 : Front(b)[i] = b[i]
  BY <1>1, <1>2
<1>7. b = Front(b) \o <<Last(b)>>
  BY <1>1, <1>2
<1> QED BY <1>1, <1>2, <1>3, <1>5, <1>6, <1>7

\* A text that is cut somewhere is cut at the end of a character or in one.
LEMMA PrefixSplits ==
    ASSUME NEW h \in Seq(Byte), Valid(h), NEW a \in Seq(Byte), Len(a) <= Len(h),
           \A i \in 1 .. Len(a) : a[i] = h[i]
    PROVE  Valid(a) \/ Cut(a)
<1>1. Len(a) \in Nat /\ Len(h) \in Nat
  OBVIOUS
<1>2. \A i \in 1 .. Len(h) : /\ h[i] = "first" => i < Len(h) /\ h[i + 1] = "last"
                             /\ h[i] = "last" => i > 1 /\ h[i - 1] = "first"
  BY ValidParts
<1>3. CASE a = <<>>
  BY <1>3 DEF Valid
<1>4. CASE a # <<>> /\ Last(a) # "first"
  <2>1. Len(a) >= 1 /\ a[Len(a)] # "first"
    BY <1>4, FrontParts
  <2>2. ASSUME NEW i \in 1 .. Len(a)
        PROVE  /\ a[i] = "first" => i < Len(a) /\ a[i + 1] = "last"
               /\ a[i] = "last" => i > 1 /\ a[i - 1] = "first"
    <3>1. i \in 1 .. Len(h) /\ a[i] = h[i]
      BY <1>1
    <3>2. ASSUME a[i] = "first" PROVE i < Len(a) /\ a[i + 1] = "last"
      <4>1. i # Len(a)
        BY <2>1, <3>2
      <4>2. i + 1 \in 1 .. Len(a)
        BY <1>1, <4>1
      <4> QED BY <1>1, <1>2, <3>1, <3>2, <4>2
    <3>3. ASSUME a[i] = "last" PROVE i > 1 /\ a[i - 1] = "first"
      <4>1. i > 1 /\ h[i - 1] = "first"
        BY <1>2, <3>1, <3>3
      <4>2. i - 1 \in 1 .. Len(a)
        BY <1>1, <4>1
      <4> QED BY <4>1, <4>2
    <3> QED BY <3>2, <3>3
  <2> QED BY <2>2, ValidParts
<1>5. CASE a # <<>> /\ Last(a) = "first"
  <2> DEFINE b == Front(a)
  <2>1. /\ b \in Seq(Byte) /\ Len(b) = Len(a) - 1 /\ Len(a) >= 1 /\ a[Len(a)] = "first"
        /\ \A i \in 1 .. Len(a) - 1 : b[i] = a[i]
    BY <1>5, FrontParts
  <2> HIDE DEF b
  <2>2. ASSUME NEW i \in 1 .. Len(b)
        PROVE  /\ b[i] = "first" => i < Len(b) /\ b[i + 1] = "last"
               /\ b[i] = "last" => i > 1 /\ b[i - 1] = "first"
    <3>1. i \in 1 .. Len(h) /\ b[i] = h[i] /\ i \in Nat /\ i + 1 \in 1 .. Len(a)
      BY <1>1, <2>1
    <3>2. ASSUME b[i] = "first" PROVE i < Len(b) /\ b[i + 1] = "last"
      <4>1. a[i + 1] = "last"
        BY <1>2, <3>1, <3>2
      <4>2. i + 1 # Len(a)
        BY <2>1, <4>1
      <4>3. i + 1 \in 1 .. Len(a) - 1
        BY <1>1, <3>1, <4>2
      <4> QED BY <1>1, <2>1, <4>1, <4>3
    <3>3. ASSUME b[i] = "last" PROVE i > 1 /\ b[i - 1] = "first"
      <4>1. i > 1 /\ h[i - 1] = "first"
        BY <1>2, <3>1, <3>3
      <4>2. i - 1 \in 1 .. Len(a) - 1 /\ i - 1 \in 1 .. Len(a)
        BY <1>1, <2>1, <4>1
      <4> QED BY <2>1, <4>1, <4>2
    <3> QED BY <3>2, <3>3
  <2>3. Valid(b)
    BY <2>1, <2>2, ValidParts
  <2> QED BY <1>5, <2>3 DEF Cut, b
<1> QED BY <1>3, <1>4, <1>5

\* What follows a whole number of characters stands for itself.
LEMMA SuffixValid ==
    ASSUME NEW p \in Seq(Byte), NEW b \in Seq(Byte), Valid(p), Valid(p \o b)
    PROVE  Valid(b)
<1> DEFINE g == p \o b
           k == Len(p)
<1>1. /\ g \in Seq(Byte) /\ Len(g) = k + Len(b) /\ k \in Nat /\ Len(b) \in Nat
      /\ \A i \in 1 .. k : g[i] = p[i]
      /\ \A i \in 1 .. Len(b) : g[k + i] = b[i]
  OBVIOUS
<1>2. /\ \A i \in 1 .. Len(g) : /\ g[i] = "first" => i < Len(g) /\ g[i + 1] = "last"
                                /\ g[i] = "last" => i > 1 /\ g[i - 1] = "first"
      /\ \A i \in 1 .. k : p[i] = "first" => i < k
  BY <1>1, ValidParts
<1> HIDE DEF g, k
<1>3. ASSUME NEW i \in 1 .. Len(b)
      PROVE  /\ b[i] = "first" => i < Len(b) /\ b[i + 1] = "last"
             /\ b[i] = "last" => i > 1 /\ b[i - 1] = "first"
  <2>1. k + i \in 1 .. Len(g) /\ g[k + i] = b[i] /\ i \in Nat /\ i >= 1 /\ i <= Len(b)
    BY <1>1
  <2>2. ASSUME b[i] = "first" PROVE i < Len(b) /\ b[i + 1] = "last"
    <3>1. k + i < Len(g) /\ g[k + i + 1] = "last"
      BY <1>2, <2>1, <2>2
    <3>2. i + 1 \in 1 .. Len(b) /\ k + (i + 1) = k + i + 1
      BY <1>1, <2>1, <3>1
    <3>3. g[k + (i + 1)] = b[i + 1]
      BY <1>1, <3>2
    <3> QED BY <1>1, <2>1, <3>1, <3>2, <3>3
  <2>3. ASSUME b[i] = "last" PROVE i > 1 /\ b[i - 1] = "first"
    <3>1. k + i > 1 /\ g[k + i - 1] = "first"
      <4> DEFINE j == k + i
      <4>1. j \in 1 .. Len(g) /\ g[j] = "last"
        BY <2>1, <2>3
      <4> HIDE DEF j
      <4>2. j > 1 /\ g[j - 1] = "first"
        BY <1>2, <4>1
      <4> QED BY <1>1, <2>1, <4>2 DEF j
    <3>2. i # 1
      <4> SUFFICES ASSUME i = 1 PROVE FALSE
        OBVIOUS
      <4>1. k + i - 1 = k /\ k \in 1 .. k
        BY <1>1, <3>1
      <4>2. p[k] = "first"
        BY <1>1, <3>1, <4>1
      <4> QED BY <1>1, <1>2, <4>1, <4>2
    <3>3. i - 1 \in 1 .. Len(b) /\ k + (i - 1) = k + i - 1
      BY <1>1, <2>1, <3>2
    <3>4. g[k + (i - 1)] = b[i - 1]
      BY <1>1, <3>3
    <3> QED BY <2>1, <3>1, <3>2, <3>3, <3>4
  <2> QED BY <2>2, <2>3
<1> QED BY <1>3, ValidParts

LEMMA CutIsNotValid ==
    ASSUME NEW b \in Seq(Byte), Cut(b)
    PROVE  ~Valid(b)
<1>1. b # <<>> /\ Last(b) = "first"
  BY DEF Cut
<1>2. Len(b) \in Nat /\ Len(b) >= 1 /\ b[Len(b)] = "first"
  BY <1>1, FrontParts
<1>3. Len(b) \in 1 .. Len(b) /\ ~(Len(b) < Len(b))
  BY <1>2
<1> QED BY <1>2, <1>3, ValidParts

LEMMA Joined ==
    ASSUME NEW p \in Seq(Byte), NEW b \in Seq(Byte), b # <<>>
    PROVE  /\ p \o b # <<>> /\ Last(p \o b) = Last(b) /\ Front(p \o b) = p \o Front(b)
<1> DEFINE g == p \o b
           f == Front(b)
           h == p \o f
<1>1. /\ f \in Seq(Byte) /\ Len(f) = Len(b) - 1 /\ Len(b) \in Nat /\ Len(b) >= 1
      /\ \A i \in 1 .. Len(b) - 1 : f[i] = b[i]
      /\ Last(b) = b[Len(b)]
  BY FrontParts
<1> HIDE DEF f
<1>2. /\ g \in Seq(Byte) /\ Len(g) = Len(p) + Len(b) /\ Len(p) \in Nat
      /\ \A i \in 1 .. Len(g) : g[i] = IF i <= Len(p) THEN p[i] ELSE b[i - Len(p)]
  BY <1>1, ConcatProperties
<1>3. /\ h \in Seq(Byte) /\ Len(h) = Len(p) + Len(f)
      /\ \A i \in 1 .. Len(h) : h[i] = IF i <= Len(p) THEN p[i] ELSE f[i - Len(p)]
  <2>1. f \in Seq(Byte)
    BY <1>1
  <2> QED BY <2>1, ConcatProperties
<1> HIDE DEF g, h
<1>4. g # <<>>
  BY <1>1, <1>2, EmptySeq
<1>5. /\ Front(g) \in Seq(Byte) /\ Len(Front(g)) = Len(g) - 1
      /\ \A i \in 1 .. Len(g) - 1 : Front(g)[i] = g[i]
      /\ Last(g) = g[Len(g)]
  BY <1>2, <1>4, FrontParts
<1>6. Last(g) = Last(b)
  <2>1. Len(g) \in 1 .. Len(g) /\ ~(Len(g) <= Len(p)) /\ Len(g) - Len(p) = Len(b)
    BY <1>1, <1>2
  <2> QED BY <1>1, <1>2, <1>5, <2>1
<1>7. Len(Front(g)) = Len(h)
  BY <1>1, <1>2, <1>3, <1>5
<1>8. ASSUME NEW i \in 1 .. Len(h) PROVE Front(g)[i] = h[i]
  <2>1. i \in 1 .. Len(g) - 1 /\ i \in 1 .. Len(g)
    BY <1>1, <1>2, <1>3
  <2>2. Front(g)[i] = IF i <= Len(p) THEN p[i] ELSE b[i - Len(p)]
    BY <1>2, <1>5, <2>1
  <2>3. CASE i <= Len(p)
    BY <1>3, <2>2, <2>3
  <2>4. CASE ~(i <= Len(p))
    <3>1. i - Len(p) \in 1 .. Len(b) - 1
      BY <1>1, <1>2, <1>3, <2>4
    <3> QED BY <1>1, <1>3, <2>2, <2>4, <3>1
  <2> QED BY <2>3, <2>4
<1>9. Front(g) = h
  BY <1>3, <1>5, <1>7, <1>8, SeqEqual
<1> QED BY <1>4, <1>6, <1>9 DEF g, h, f

\* What is left of a text of which whole characters were passed on.
LEMMA SuffixSplits ==
    ASSUME NEW p \in Seq(Byte), NEW b \in Seq(Byte), Valid(p), Valid(p \o b) \/ Cut(p \o b)
    PROVE  /\ Valid(p \o b) => Valid(b)
           /\ Cut(p \o b) => Cut(b) /\ ~Valid(b) /\ Valid(p \o Front(b))
<1>1. Valid(p \o b) => Valid(b)
  BY SuffixValid
<1>2. ASSUME Cut(p \o b) PROVE Cut(b) /\ ~Valid(b) /\ Valid(p \o Front(b))
  <2>1. b # <<>>
    <3> SUFFICES ASSUME b = <<>> PROVE FALSE
      OBVIOUS
    <3>1. p \o b = p
      OBVIOUS
    <3> QED BY <1>2, <3>1, CutIsNotValid
  <2>2. Last(p \o b) = Last(b) /\ Front(p \o b) = p \o Front(b)
    BY <2>1, Joined
  <2>3. Last(b) = "first" /\ Valid(p \o Front(b))
    BY <1>2, <2>2 DEF Cut
  <2>4. Front(b) \in Seq(Byte)
    BY <2>1, FrontParts
  <2>5. Valid(Front(b))
    BY <2>3, <2>4, SuffixValid
  <2>6. Cut(b)
    BY <2>1, <2>3, <2>5 DEF Cut
  <2> QED BY <2>3, <2>6, CutIsNotValid
<1> QED BY <1>1, <1>2

\* A text cut off at any byte.
LEMMA PrefixOf ==
    ASSUME NEW a \in Seq(Byte), NEW c \in Seq(Byte), Valid(a \o c) \/ Cut(a \o c)
    PROVE  Valid(a) \/ Cut(a)
<1> DEFINE g == a \o c
<1>1. g \in Seq(Byte) /\ Len(g) = Len(a) + Len(c) /\ \A i \in 1 .. Len(a) : g[i] = a[i]
  OBVIOUS
<1>2. CASE Valid(g)
  <2>1. Len(a) <= Len(g)
    BY <1>1
  <2> HIDE DEF g
  <2> QED BY <1>1, <1>2, <2>1, PrefixSplits
<1>3. CASE Cut(g) /\ c = <<>>
  <2>1. g = a
    BY <1>3
  <2> QED BY <1>3, <2>1
<1>4. CASE Cut(g) /\ c # <<>>
  <2> DEFINE h == a \o Front(c)
  <2>1. Front(c) \in Seq(Byte) /\ Front(g) = h
    BY <1>4, FrontParts, Joined
  <2>2. Valid(h)
    BY <1>4, <2>1 DEF Cut
  <2>3. h \in Seq(Byte) /\ Len(a) <= Len(h) /\ \A i \in 1 .. Len(a) : a[i] = h[i]
    BY <2>1
  <2> HIDE DEF h
  <2> QED BY <2>2, <2>3, PrefixSplits
<1> QED BY <1>2, <1>3, <1>4

LEMMA Associative ==
    ASSUME NEW a \in Seq(Byte), NEW b \in Seq(Byte), NEW c \in Seq(Byte)
    PROVE  (a \o b) \o c = a \o (b \o c)
BY ConcatAssociative

LEMMA DrainParts ==
    ASSUME NEW b \in Seq(Byte)
    PROVE  /\ Valid(b) => Drain(b).text = b /\ Drain(b).held = <<>>
           /\ ~Valid(b) /\ Cut(b) => Drain(b).text = Front(b) /\ Drain(b).held = <<Last(b)>>
           /\ ~Valid(b) /\ ~Cut(b) => Drain(b).text = Lossy /\ Drain(b).held = <<>>
<1>1. ASSUME Valid(b) PROVE Drain(b) = [text |-> b, held |-> <<>>]
  BY <1>1, CutIsNotValid, Zenon DEF Drain
<1>2. ASSUME ~Valid(b), Cut(b) PROVE Drain(b) = [text |-> Front(b), held |-> <<Last(b)>>]
  BY <1>2, Zenon DEF Drain
<1>3. ASSUME ~Valid(b), ~Cut(b) PROVE Drain(b) = [text |-> Lossy, held |-> <<>>]
  BY <1>3, Zenon DEF Drain
<1> QED BY <1>1, <1>2, <1>3

\* What has come of a stream, what was passed on and what is held back.
Intact(got, passed, held) ==
    Valid(got) \/ Cut(got) =>
        /\ passed \in Seq(Byte) /\ Valid(passed)
        /\ held = <<>> \/ held = <<"first">>
        /\ passed \o held = got

\* drain_utf8_chunk keeps a well-formed text whole.
LEMMA DrainIntact ==
    ASSUME NEW got \in Seq(Byte), NEW passed, NEW held \in Seq(Byte), Intact(got, passed, held),
           NEW chunk \in Seq(Byte), NEW next, next = Drain(held \o chunk)
    PROVE  Intact(got \o chunk, passed \o next.text, next.held)
<1> SUFFICES ASSUME Valid(got \o chunk) \/ Cut(got \o chunk)
             PROVE  /\ passed \o next.text \in Seq(Byte) /\ Valid(passed \o next.text)
                    /\ next.held = <<>> \/ next.held = <<"first">>
                    /\ (passed \o next.text) \o next.held = got \o chunk
  BY DEF Intact
<1>1. Valid(got) \/ Cut(got)
  BY PrefixOf
<1>2. passed \in Seq(Byte) /\ Valid(passed) /\ passed \o held = got
  BY <1>1 DEF Intact
<1> DEFINE b == held \o chunk
<1>3. b \in Seq(Byte) /\ got \o chunk = passed \o b
  <2>1. (passed \o held) \o chunk = passed \o (held \o chunk)
    BY <1>2, Associative
  <2> QED BY <1>2, <2>1
<1>4. next = Drain(b)
  OBVIOUS
<1> HIDE DEF b
<1>5. /\ Valid(passed \o b) => Valid(b)
      /\ Cut(passed \o b) => Cut(b) /\ ~Valid(b) /\ Valid(passed \o Front(b))
      /\ Valid(passed \o b) \/ Cut(passed \o b)
  BY <1>2, <1>3, SuffixSplits
<1>6. CASE Valid(passed \o b)
  <2>1. next.text = b /\ next.held = <<>>
    BY <1>3, <1>4, <1>5, <1>6, DrainParts
  <2>2. passed \o b \in Seq(Byte) /\ (passed \o b) \o <<>> = passed \o b
    BY <1>2, <1>3
  <2> QED BY <1>3, <1>6, <2>1, <2>2
<1>7. CASE Cut(passed \o b)
  <2>1. next.text = Front(b) /\ next.held = <<Last(b)>>
    BY <1>3, <1>4, <1>5, <1>7, DrainParts
  <2>2. b # <<>> /\ Last(b) = "first"
    BY <1>5, <1>7 DEF Cut
  <2>3. Front(b) \in Seq(Byte) /\ b = Front(b) \o <<Last(b)>> /\ <<Last(b)>> \in Seq(Byte)
    BY <1>3, <2>2, FrontParts DEF Byte
  <2>4. (passed \o Front(b)) \o <<Last(b)>> = passed \o (Front(b) \o <<Last(b)>>)
    BY <1>2, <2>3, Associative
  <2>5. passed \o Front(b) \in Seq(Byte)
    BY <1>2, <2>3
  <2>6. (passed \o next.text) \o next.held = got \o chunk
    BY <1>3, <2>1, <2>3, <2>4
  <2> QED BY <1>5, <1>7, <2>1, <2>2, <2>5, <2>6
<1> QED BY <1>5, <1>6, <1>7

-----------------------------------------------------------------------------
(* The inductive invariants.                                               *)

Kind == {"full", "head", "part", "end"}
Frame == [kind : Kind, session : Session]
Text == Seq(Byte \cup {"replaced"})
Task ==
    [at : Place, session : 0 .. MaxSessions, out : Seq(Kind), chunks : Nat,
     held : Seq(Byte), got : Seq(Byte), passed : Text]

\* The types of the tunnel's own variables.
LoopTyped ==
    /\ phase \in Phase
    /\ backoff \in InitialBackoff .. MaxBackoff
    /\ session \in 0 .. MaxSessions
    /\ loop \in {"select", "lock", "send"}
    /\ quiet \in 0 .. IdlePings + 1
    /\ conn \in [Session -> {"none", "open", "silent", "closed"}]
    /\ sink \in [Session -> Request \cup {Loop, None}]
    /\ phase \in {"register", "serve"} => session \in Session

\* A task that was started has the number of a session there has been.
TaskTyped ==
    /\ task \in [Request -> Task]
    /\ sent \in [Request -> Seq(Frame)]
    /\ \A r \in Request :
          /\ IF task[r].at = "none" THEN task[r].out = <<>> ELSE task[r].session \in Session
          /\ task[r].session <= session

Typed == LoopTyped /\ TaskTyped

\* The frames of an answer: a stream that goes on, and a whole answer.
Streaming(q) ==
    /\ Len(q) >= 1
    /\ \A i \in 1 .. Len(q) : q[i].kind = IF i = 1 THEN "head" ELSE "part"

Whole(q) ==
    \/ Len(q) = 1 /\ q[1].kind = "full"
    \/ /\ Len(q) >= 2
       /\ \A i \in 1 .. Len(q) :
             q[i].kind = IF i = 1 THEN "head" ELSE IF i = Len(q) THEN "end" ELSE "part"

\* What is left to send continues what was sent.
Answering(at, out, q, closed) ==
    \/ at \in {"none", "local", "body"} /\ out = <<>> /\ q = <<>>
    \/ at = "stream" /\ out = <<"head">> /\ q = <<>>
    \/ at = "stream" /\ out \in {<<>>, <<"part">>} /\ Streaming(q)
    \/ at = "done" /\ out = <<"full">> /\ q = <<>>
    \/ /\ at = "done" /\ Streaming(q)
       /\ out \in {<<"part", "part", "end">>, <<"part", "end">>, <<"end">>}
    \/ at = "done" /\ out = <<>> /\ Whole(q)
    \/ at = "done" /\ out = <<>> /\ closed /\ (q = <<>> \/ Streaming(q))

AnswersOf(r) ==
    /\ Answering(task[r].at, task[r].out, sent[r], CutOff(r))
    /\ \A i \in 1 .. Len(sent[r]) : sent[r][i].session = task[r].session

TextsOf(r) == Intact(task[r].got, task[r].passed, task[r].held)

Answers == \A r \in Request : AnswersOf(r) /\ TextsOf(r)

-----------------------------------------------------------------------------
(* Types.                                                                  *)

LEMMA DrainTyped ==
    ASSUME NEW b \in Seq(Byte)
    PROVE  Drain(b).text \in Text /\ Drain(b).held \in Seq(Byte)
<1>1. <<>> \in Seq(Byte) /\ Lossy \in Text
  BY DEF Lossy, Text
<1>2. \A q \in Seq(Byte) : q \in Text
  BY DEF Text
<1>3. CASE Valid(b)
  BY <1>1, <1>2, <1>3, DrainParts
<1>4. CASE ~Valid(b) /\ Cut(b)
  <2>1. b # <<>>
    BY <1>4 DEF Cut
  <2>2. Front(b) \in Seq(Byte) /\ Last(b) \in Byte
    BY <2>1, FrontParts
  <2>3. <<Last(b)>> \in Seq(Byte)
    BY <2>2
  <2> QED BY <1>2, <1>4, <2>2, <2>3, DrainParts
<1>5. CASE ~Valid(b) /\ ~Cut(b)
  BY <1>1, <1>5, DrainParts
<1> QED BY <1>3, <1>4, <1>5

LEMMA InitTyped ==
    Init => Typed
<1> SUFFICES ASSUME Init PROVE Typed
  OBVIOUS
<1>1. LoopTyped
  BY RelayAssumption DEF Init, LoopTyped, Phase, Session
<1>2. NoTask \in Task
  BY RelayAssumption DEF NoTask, Task, Text, Place
<1>3. NoTask.at = "none" /\ NoTask.session = 0 /\ NoTask.out = <<>>
  BY DEF NoTask
<1>4. TaskTyped
  <2>1. task \in [Request -> Task] /\ sent \in [Request -> Seq(Frame)]
    BY <1>2 DEF Init
  <2>2. \A r \in Request :
            task[r].at = "none" /\ task[r].out = <<>> /\ task[r].session = 0 /\ session = 0
    BY <1>3 DEF Init
  <2> QED BY <2>1, <2>2 DEF TaskTyped
<1> QED BY <1>1, <1>4 DEF Typed

LEMMA LoopTypeStep ==
    ASSUME LoopTyped, [Next]_vars
    PROVE  LoopTyped'
<1> USE RelayAssumption DEF LoopTyped, Phase, Session
<1>1. CASE Connect
  BY <1>1 DEF Connect
<1>2. CASE ConnectionFails
  BY <1>2 DEF ConnectionFails
<1>3. CASE Registered
  BY <1>3 DEF Registered
<1>4. CASE Wake
  BY <1>4 DEF Wake, Least
<1>5. CASE Receive
  <2>1. CASE TakeOther
    BY <2>1 DEF TakeOther, Selecting, dial
  <2>2. CASE TakePing
    BY <2>2 DEF TakePing, Selecting, dial
  <2>3. ASSUME NEW r \in Request, TakeRequest(r) PROVE LoopTyped'
    BY <2>3 DEF TakeRequest, Selecting, dial
  <2> QED BY <1>5, <2>1, <2>2, <2>3 DEF Receive
<1>6. CASE PingTick
  BY <1>6 DEF PingTick, Selecting, dial
<1>7. CASE IdleTimeout \/ ConnectionLost
  BY <1>7 DEF IdleTimeout, ConnectionLost, Selecting, Disconnect
<1>8. CASE LoopLocks
  BY <1>8 DEF LoopLocks, dial
<1>9. CASE LoopSends
  BY <1>9 DEF LoopSends, Disconnect, dial
<1>10. ASSUME NEW r \in Request, Run(r) PROVE LoopTyped'
  BY <1>10 DEF Run, LocalFails, LocalAnswers, BodyRead, BodyTimesOut, StreamChunk, StreamFails,
               StreamEnds, dial
<1>11. ASSUME NEW r \in Request, TaskLocks(r) \/ TaskSends(r) PROVE LoopTyped'
  BY <1>11 DEF TaskLocks, TaskSends, dial
<1>12. ASSUME NEW s \in Session, Network(s) PROVE LoopTyped'
  BY <1>12 DEF Network, Silence, Close, GiveUp, dial
<1>13. CASE UNCHANGED vars
  BY <1>13 DEF vars
<1> QED BY <1>1, <1>2, <1>3, <1>4, <1>5, <1>6, <1>7, <1>8, <1>9, <1>10, <1>11, <1>12, <1>13
        DEF Next, Dial

\* What a step of relay_local_request makes of its task.
Moves(t, u) ==
    /\ u \in Task /\ u.session = t.session /\ t.out = <<>>
    /\ \/ t.at \in {"local", "body"} /\ u.at = "body" /\ u.out = <<>>
       \/ t.at \in {"local", "body"} /\ u.at = "done" /\ u.out = <<"full">>
       \/ t.at = "local" /\ u.at = "stream" /\ u.out = <<"head">>
       \/ t.at = "stream" /\ u.at = "stream" /\ u.out \in {<<>>, <<"part">>}
       \/ /\ t.at = "stream" /\ u.at = "done"
          /\ u.out \in {<<"part", "part", "end">>, <<"part", "end">>, <<"end">>}
    /\ Intact(t.got, t.passed, t.held) => Intact(u.got, u.passed, u.held)

Becomes(r, u) == task' = [task EXCEPT ![r] = u]

\* The frames at the end of a stream.
LEMMA Tails ==
    <<"part">> \o <<"end">> = <<"part", "end">>
<1> DEFINE a == <<"part">>
           b == <<"end">>
           c == a \o b
           d == <<"part", "end">>
<1>1. a \in Seq(Kind) /\ b \in Seq(Kind) /\ Len(a) = 1 /\ Len(b) = 1 /\ a[1] = "part" /\ b[1] = "end"
  BY DEF Kind
<1>2. d \in Seq(Kind) /\ Len(d) = 2 /\ d[1] = "part" /\ d[2] = "end"
  BY DEF Kind
<1> HIDE DEF a, b, d
<1>3. c \in Seq(Kind) /\ Len(c) = 2 /\ c[1] = "part" /\ c[2] = "end"
  BY <1>1, ConcatProperties
<1> HIDE DEF c
<1>4. \A i \in 1 .. Len(c) : c[i] = d[i]
  BY <1>2, <1>3
<1>5. c = d
  BY <1>2, <1>3, <1>4, SeqEqual
<1> QED BY <1>5 DEF a, b, c, d

LEMMA ChunkMoves ==
    ASSUME TaskTyped, NEW r \in Request, NEW chunk \in Seq(Byte), StreamChunk(r, chunk)
    PROVE  \E u : Moves(task[r], u) /\ Becomes(r, u)
<1> DEFINE next == Drain(task[r].held \o chunk)
           u == [task[r] EXCEPT !.chunks = @ + 1, !.held = next.held, !.got = @ \o chunk,
                                !.passed = @ \o next.text, !.out = Part(next.text)]
<1>1. /\ task[r] \in Task /\ task[r].held \in Seq(Byte) /\ task[r].got \in Seq(Byte)
      /\ task[r].passed \in Text /\ task[r].chunks \in Nat
  BY DEF TaskTyped, Task
<1>2. next.text \in Text /\ next.held \in Seq(Byte)
  <2>1. task[r].held \o chunk \in Seq(Byte)
    BY <1>1
  <2> QED BY <2>1, DrainTyped
<1>3. task[r].at = "stream" /\ task[r].out = <<>> /\ Becomes(r, u)
  BY DEF StreamChunk, Idle, Becomes, TaskTyped
<1>4. Intact(task[r].got, task[r].passed, task[r].held)
          => Intact(task[r].got \o chunk, task[r].passed \o next.text, next.held)
  BY <1>1, DrainIntact
<1> HIDE DEF next
<1> DEFINE rest == Part(next.text)
           got == task[r].got \o chunk
           passed == task[r].passed \o next.text
<1>5. rest \in {<<>>, <<"part">>} /\ rest \in Seq(Kind)
  <2>1. rest \in {<<>>, <<"part">>}
    BY DEF Part
  <2>2. <<>> \in Seq(Kind) /\ <<"part">> \in Seq(Kind)
    BY DEF Kind
  <2> QED BY <2>1, <2>2, Zenon
<1>6. got \in Seq(Byte) /\ passed \in Text
  BY <1>1, <1>2 DEF Text
<1>7. /\ u \in Task /\ u.session = task[r].session /\ u.at = task[r].at /\ u.out = rest
      /\ u.got = got /\ u.passed = passed /\ u.held = next.held
  <2>1. u = [task[r] EXCEPT !.chunks = task[r].chunks + 1, !.held = next.held, !.got = got,
                            !.passed = passed, !.out = rest]
    BY <1>1 DEF Task
  <2>2. task[r].chunks + 1 \in Nat
    BY <1>1
  <2> HIDE DEF rest, got, passed, u
  <2> QED BY <1>1, <1>2, <1>5, <1>6, <2>1, <2>2 DEF Task
<1> HIDE DEF u
<1>8. Moves(task[r], u)
  BY <1>3, <1>4, <1>5, <1>7 DEF Moves
<1> QED BY <1>3, <1>8

LEMMA EndMoves ==
    ASSUME TaskTyped, NEW r \in Request, StreamEnds(r)
    PROVE  \E u : Moves(task[r], u) /\ Becomes(r, u)
<1> DEFINE next == Drain(task[r].held)
           rest == Part(next.text) \o <<"end">>
           u == [task[r] EXCEPT !.held = next.held, !.passed = @ \o next.text,
                                !.out = rest, !.at = "done"]
<1>1. /\ task[r] \in Task /\ task[r].held \in Seq(Byte) /\ task[r].got \in Seq(Byte)
      /\ task[r].passed \in Text
  BY DEF TaskTyped, Task
<1>2. next.text \in Text /\ next.held \in Seq(Byte)
  BY <1>1, DrainTyped
<1>3. task[r].at = "stream" /\ task[r].out = <<>> /\ Becomes(r, u)
  BY DEF StreamEnds, Idle, Becomes, TaskTyped
<1>4. rest \in {<<"part", "end">>, <<"end">>} /\ rest \in Seq(Kind)
  <2>1. Part(next.text) \in {<<>>, <<"part">>}
    BY DEF Part
  <2> DEFINE p == Part(next.text)
  <2> HIDE DEF p
  <2>2. CASE p = <<>>
    BY <2>2 DEF p, Kind
  <2>3. CASE p = <<"part">>
    <3>1. <<"part">> \o <<"end">> = <<"part", "end">>
      BY Tails
    <3> QED BY <2>3, <3>1 DEF p, Kind
  <2> QED BY <2>1, <2>2, <2>3 DEF p
<1>5. task[r].passed \o next.text \in Text
  BY <1>1, <1>2 DEF Text
<1>6. Intact(task[r].got, task[r].passed, task[r].held)
          => Intact(task[r].got, task[r].passed \o next.text, next.held)
  <2>1. /\ <<>> \in Seq(Byte)
        /\ task[r].got \o <<>> = task[r].got /\ task[r].held \o <<>> = task[r].held
    BY <1>1
  <2>2. next = Drain(task[r].held \o <<>>)
    BY <2>1
  <2> HIDE DEF next
  <2>3. Intact(task[r].got, task[r].passed, task[r].held)
          => Intact(task[r].got \o <<>>, task[r].passed \o next.text, next.held)
    BY <1>1, <2>1, <2>2, DrainIntact
  <2> QED BY <2>1, <2>3
<1> HIDE DEF next, rest
<1>7. /\ u \in Task /\ u.session = task[r].session /\ u.at = "done" /\ u.out = rest
      /\ u.got = task[r].got /\ u.passed = task[r].passed \o next.text
      /\ u.held = next.held
  BY <1>1, <1>2, <1>4, <1>5 DEF Task, Place
<1> HIDE DEF u
<1>8. Moves(task[r], u)
  BY <1>3, <1>4, <1>6, <1>7 DEF Moves
<1> QED BY <1>3, <1>8

LEMMA RunMoves ==
    ASSUME TaskTyped, NEW r \in Request, Run(r)
    PROVE  /\ \E u : Moves(task[r], u) /\ Becomes(r, u)
           /\ UNCHANGED <<dial, loop, quiet, conn, sink, sent>>
<1>1. UNCHANGED <<dial, loop, quiet, conn, sink, sent>>
  BY DEF Run, LocalFails, LocalAnswers, BodyRead, BodyTimesOut, StreamChunk, StreamFails, StreamEnds
<1> SUFFICES \E u : Moves(task[r], u) /\ Becomes(r, u)
  BY <1>1
<1>2. task[r] \in Task
  BY DEF TaskTyped
<1>3. /\ <<"full">> \in Seq(Kind) /\ <<"head">> \in Seq(Kind)
      /\ <<"part", "part", "end">> \in Seq(Kind)
  BY DEF Kind
<1>4. ASSUME Idle(r, "local") \/ Idle(r, "body"), Reply(r, <<"full">>, "done")
      PROVE  \E u : Moves(task[r], u) /\ Becomes(r, u)
  <2> DEFINE frames == <<"full">>
             there == "done"
  <2>1. there \in Place /\ frames \in Seq(Kind) /\ Reply(r, frames, there)
    BY <1>3, <1>4 DEF Place
  <2> HIDE DEF frames, there
  <2> DEFINE u == [task[r] EXCEPT !.out = frames, !.at = there]
  <2>2. /\ u \in Task /\ u.session = task[r].session /\ u.at = there /\ u.out = frames
        /\ u.got = task[r].got /\ u.passed = task[r].passed /\ u.held = task[r].held
    BY <1>2, <2>1 DEF Task
  <2>3. Becomes(r, u)
    BY <2>1 DEF Becomes, Reply, TaskTyped
  <2> HIDE DEF u
  <2>4. task[r].at \in {"local", "body"} /\ task[r].out = <<>>
    BY <1>4 DEF Idle
  <2>5. Moves(task[r], u)
    BY <2>2, <2>4 DEF Moves, frames, there
  <2> QED BY <2>3, <2>5
<1>5. CASE LocalFails(r) \/ BodyRead(r) \/ BodyTimesOut(r)
  BY <1>4, <1>5 DEF LocalFails, BodyRead, BodyTimesOut
<1>6. CASE Idle(r, "local") /\ task' = [task EXCEPT ![r].at = "body"]
  <2> DEFINE u == [task[r] EXCEPT !.at = "body"]
  <2>1. /\ u \in Task /\ u.session = task[r].session /\ u.at = "body" /\ u.out = task[r].out
        /\ u.got = task[r].got /\ u.passed = task[r].passed /\ u.held = task[r].held
    BY <1>2 DEF Task, Place
  <2>2. Becomes(r, u)
    BY <1>6 DEF Becomes, TaskTyped
  <2>3. task[r].at = "local" /\ task[r].out = <<>>
    BY <1>6 DEF Idle
  <2> HIDE DEF u
  <2>4. Moves(task[r], u)
    BY <2>1, <2>3 DEF Moves
  <2> QED BY <2>2, <2>4
<1>7. CASE Idle(r, "local") /\ Reply(r, <<"head">>, "stream")
  <2> DEFINE frames == <<"head">>
             there == "stream"
  <2>1. there \in Place /\ frames \in Seq(Kind) /\ Reply(r, frames, there)
    BY <1>3, <1>7 DEF Place
  <2> HIDE DEF frames, there
  <2> DEFINE u == [task[r] EXCEPT !.out = frames, !.at = there]
  <2>2. /\ u \in Task /\ u.session = task[r].session /\ u.at = there /\ u.out = frames
        /\ u.got = task[r].got /\ u.passed = task[r].passed /\ u.held = task[r].held
    BY <1>2, <2>1 DEF Task
  <2>3. Becomes(r, u)
    BY <2>1 DEF Becomes, Reply, TaskTyped
  <2> HIDE DEF u
  <2>4. task[r].at = "local" /\ task[r].out = <<>>
    BY <1>7 DEF Idle
  <2>5. Moves(task[r], u)
    BY <2>2, <2>4 DEF Moves, frames, there
  <2> QED BY <2>3, <2>5
<1>8. CASE LocalAnswers(r)
  BY <1>6, <1>7, <1>8 DEF LocalAnswers
<1>9. CASE StreamFails(r)
  <2> DEFINE frames == <<"part", "part", "end">>
             there == "done"
  <2>1. there \in Place /\ frames \in Seq(Kind) /\ Reply(r, frames, there)
    BY <1>3, <1>9 DEF Place, StreamFails
  <2> HIDE DEF frames, there
  <2> DEFINE u == [task[r] EXCEPT !.out = frames, !.at = there]
  <2>2. /\ u \in Task /\ u.session = task[r].session /\ u.at = there /\ u.out = frames
        /\ u.got = task[r].got /\ u.passed = task[r].passed /\ u.held = task[r].held
    BY <1>2, <2>1 DEF Task
  <2>3. Becomes(r, u)
    BY <2>1 DEF Becomes, Reply, TaskTyped
  <2> HIDE DEF u
  <2>4. task[r].at = "stream" /\ task[r].out = <<>>
    BY <1>9 DEF StreamFails, Idle
  <2>5. Moves(task[r], u)
    BY <2>2, <2>4 DEF Moves, frames, there
  <2> QED BY <2>3, <2>5
<1>10. CASE StreamEnds(r)
  BY <1>10, EndMoves
<1>11. ASSUME NEW chunk \in Chunk, StreamChunk(r, chunk)
       PROVE  \E u : Moves(task[r], u) /\ Becomes(r, u)
  BY <1>11, ChunkMoves, RelayAssumption
<1> QED BY <1>5, <1>8, <1>9, <1>10, <1>11 DEF Run

\* A step that leaves the tasks alone: there may be one more session, and a
\* connection that is closed stays closed.
Aside ==
    /\ UNCHANGED <<task, sent>>
    /\ session' >= session
    /\ \A s \in Session : s <= session /\ conn[s] = "closed" => conn'[s] = "closed"

LEMMA StepKinds ==
    ASSUME LoopTyped, [Next]_vars
    PROVE  \/ Aside
           \/ \E r \in Request : TakeRequest(r) \/ Run(r) \/ TaskSends(r)
<1> USE RelayAssumption DEF LoopTyped, Phase, Session, Aside
<1>1. CASE Connect
  BY <1>1 DEF Connect
<1>2. CASE ConnectionFails
  BY <1>2 DEF ConnectionFails
<1>3. CASE Registered
  BY <1>3 DEF Registered
<1>4. CASE Wake
  BY <1>4 DEF Wake
<1>5. CASE TakeOther \/ TakePing
  BY <1>5 DEF TakeOther, TakePing, dial
<1>6. CASE PingTick \/ LoopLocks
  BY <1>6 DEF PingTick, LoopLocks, dial
<1>7. CASE IdleTimeout \/ ConnectionLost
  BY <1>7 DEF IdleTimeout, ConnectionLost, Disconnect
<1>8. CASE LoopSends
  BY <1>8 DEF LoopSends, Disconnect, dial
<1>9. ASSUME NEW r \in Request, TaskLocks(r) PROVE Aside
  BY <1>9 DEF TaskLocks, dial
<1>10. ASSUME NEW s \in Session, Network(s) PROVE Aside
  BY <1>10 DEF Network, Silence, Close, GiveUp, dial
<1>11. CASE UNCHANGED vars
  BY <1>11 DEF vars
<1> QED BY <1>1, <1>2, <1>3, <1>4, <1>5, <1>6, <1>7, <1>8, <1>9, <1>10, <1>11
        DEF Next, Dial, Receive

LEMMA BecomesTyped ==
    ASSUME Typed, NEW r \in Request, NEW u \in Task, Becomes(r, u),
           sent' \in [Request -> Seq(Frame)], session' = session,
           u.at # "none", u.session \in Session, u.session <= session
    PROVE  TaskTyped' /\ task'[r] = u /\ \A p \in Request \ {r} : task'[p] = task[p]
<1>1. /\ task \in [Request -> Task]
      /\ \A p \in Request :
            /\ IF task[p].at = "none" THEN task[p].out = <<>> ELSE task[p].session \in Session
            /\ task[p].session <= session
  BY DEF Typed, TaskTyped
<1>2. task' \in [Request -> Task]
  BY <1>1 DEF Becomes
<1>3. task'[r] = u /\ \A p \in Request \ {r} : task'[p] = task[p]
  BY <1>1 DEF Becomes
<1>4. ASSUME NEW p \in Request
      PROVE  /\ IF task'[p].at = "none" THEN task'[p].out = <<>> ELSE task'[p].session \in Session
             /\ task'[p].session <= session'
  <2>1. CASE p = r
    BY <1>3, <2>1
  <2>2. CASE p # r
    BY <1>1, <1>3, <2>2
  <2> QED BY <2>1, <2>2
<1>5. TaskTyped'
  BY <1>2, <1>4 DEF TaskTyped, Session
<1> QED BY <1>3, <1>5

\* TakeRequest: the new task.
LEMMA TakeMakes ==
    ASSUME Typed, NEW r \in Request, TakeRequest(r)
    PROVE  \E u \in Task :
               /\ Becomes(r, u) /\ u.at = "local" /\ u.session = session /\ u.out = <<>>
               /\ u.got = <<>> /\ u.passed = <<>> /\ u.held = <<>>
<1> DEFINE u == [NoTask EXCEPT !.at = "local", !.session = session]
<1>1. task[r] = NoTask /\ Becomes(r, u)
  BY DEF TakeRequest, Becomes, Typed, TaskTyped
<1>2. NoTask \in Task /\ session \in 0 .. MaxSessions
  BY <1>1 DEF Typed, TaskTyped, LoopTyped
<1>3. u \in Task
  BY <1>2 DEF Task, Place
<1>4. /\ u.at = "local" /\ u.session = session /\ u.out = <<>>
      /\ u.got = <<>> /\ u.passed = <<>> /\ u.held = <<>>
  BY DEF NoTask
<1> QED BY <1>1, <1>3, <1>4

\* TaskSends: the task afterwards.
After(t) ==
    IF t.at = "done" /\ Len(t.out) = 1 THEN Over(t.session) ELSE [t EXCEPT !.out = Tail(t.out)]

LEMMA OverTyped ==
    ASSUME NEW s \in 0 .. MaxSessions
    PROVE  /\ Over(s) \in Task /\ Over(s).at = "done" /\ Over(s).session = s /\ Over(s).out = <<>>
           /\ Over(s).got = <<>> /\ Over(s).passed = <<>> /\ Over(s).held = <<>>
<1>1. NoTask \in Task
  BY RelayAssumption DEF NoTask, Task, Text, Place
<1>2. /\ Over(s).at = "done" /\ Over(s).session = s /\ Over(s).out = <<>>
      /\ Over(s).got = <<>> /\ Over(s).passed = <<>> /\ Over(s).held = <<>>
  BY DEF Over, NoTask
<1>3. Over(s) \in Task
  BY <1>1 DEF Over, Task, Place
<1> QED BY <1>2, <1>3

LEMMA AfterTyped ==
    ASSUME NEW t \in Task, t.out # <<>>
    PROVE  /\ After(t) \in Task /\ After(t).session = t.session /\ After(t).at = t.at
           /\ After(t).out = IF t.at = "done" /\ Len(t.out) = 1 THEN <<>> ELSE Tail(t.out)
           /\ Intact(t.got, t.passed, t.held)
                 => Intact(After(t).got, After(t).passed, After(t).held)
<1>1. t.session \in 0 .. MaxSessions /\ t.out \in Seq(Kind)
  BY DEF Task
<1>2. CASE t.at = "done" /\ Len(t.out) = 1
  <2>1. After(t) = Over(t.session)
    BY <1>2 DEF After
  <2>2. Intact(<<>>, <<>>, <<>>)
    BY DEF Intact, Valid
  <2> QED BY <1>1, <1>2, <2>1, <2>2, OverTyped
<1>3. CASE ~(t.at = "done" /\ Len(t.out) = 1)
  <2>1. Tail(t.out) \in Seq(Kind)
    BY <1>1
  <2>2. After(t) = [t EXCEPT !.out = Tail(t.out)]
    BY <1>3 DEF After
  <2>3. /\ After(t) \in Task /\ After(t).session = t.session /\ After(t).at = t.at
        /\ After(t).out = Tail(t.out)
        /\ After(t).got = t.got /\ After(t).passed = t.passed /\ After(t).held = t.held
    BY <2>1, <2>2 DEF Task
  <2> QED BY <1>3, <2>3
<1> QED BY <1>2, <1>3

LEMMA SendsCases ==
    ASSUME Typed, NEW r \in Request, TaskSends(r), NEW t, t = task[r]
    PROVE  /\ t \in Task /\ t.out # <<>> /\ t.at # "none" /\ t.session \in Session
           /\ t.session <= session
           /\ UNCHANGED <<session, conn>>
           /\ \/ /\ conn[t.session] # "closed" /\ Becomes(r, After(t))
                 /\ sent' = [sent EXCEPT ![r] = Append(@, [kind |-> Head(t.out), session |-> t.session])]
              \/ conn[t.session] = "closed" /\ Becomes(r, Over(t.session)) /\ sent' = sent
<1>1. t \in Task /\ t.out # <<>> /\ t.at # "none" /\ t.session \in Session /\ t.session <= session
  BY DEF TaskSends, Typed, TaskTyped
<1>2. UNCHANGED <<session, conn>>
  BY DEF TaskSends, dial
<1>3. \/ /\ conn[task[r].session] # "closed" /\ Becomes(r, After(task[r]))
         /\ sent' = [sent EXCEPT ![r] =
                       Append(@, [kind |-> Head(task[r].out), session |-> task[r].session])]
      \/ conn[task[r].session] = "closed" /\ Becomes(r, Over(task[r].session)) /\ sent' = sent
  BY Zenon DEF TaskSends, Becomes, After
<1> QED BY <1>1, <1>2, <1>3

\* A step makes the task of at most one request another one, on the same
\* connection unless it is new.
LEMMA TypedStep ==
    ASSUME Typed, [Next]_vars
    PROVE  Typed'
<1>1. LoopTyped'
  BY LoopTypeStep DEF Typed
<1>2. ASSUME Aside PROVE TaskTyped'
  <2>1. /\ task' = task /\ sent' = sent /\ session' >= session
        /\ session \in Int /\ session' \in Int
    BY <1>1, <1>2 DEF Aside, Typed, LoopTyped
  <2>2. ASSUME NEW r \in Request
        PROVE  /\ IF task'[r].at = "none" THEN task'[r].out = <<>> ELSE task'[r].session \in Session
               /\ task'[r].session <= session'
    <3>1. task[r].session \in Int
      BY DEF Typed, TaskTyped, Task
    <3> QED BY <2>1, <3>1 DEF Typed, TaskTyped
  <2>3. task' \in [Request -> Task] /\ sent' \in [Request -> Seq(Frame)]
    BY <2>1 DEF Typed, TaskTyped
  <2> QED BY <2>2, <2>3 DEF TaskTyped
<1>3. ASSUME NEW r \in Request, TakeRequest(r) PROVE TaskTyped'
  <2>1. PICK u \in Task : Becomes(r, u) /\ u.at = "local" /\ u.session = session
    BY <1>3, TakeMakes
  <2>2. session \in Session /\ session <= session
    BY <1>3 DEF TakeRequest, Selecting, Typed, LoopTyped
  <2>3. session' = session /\ sent' \in [Request -> Seq(Frame)]
    BY <1>3 DEF TakeRequest, dial, Typed, TaskTyped
  <2> QED BY <2>1, <2>2, <2>3, BecomesTyped
<1>4. ASSUME NEW r \in Request, Run(r) PROVE TaskTyped'
  <2>1. PICK u : Moves(task[r], u) /\ Becomes(r, u)
    BY <1>4, RunMoves DEF Typed
  <2>2. session' = session /\ sent' \in [Request -> Seq(Frame)]
    BY <1>4, RunMoves DEF dial, Typed, TaskTyped
  <2>3. u \in Task /\ u.at # "none" /\ u.session \in Session /\ u.session <= session
    BY <2>1 DEF Moves, Typed, TaskTyped
  <2> QED BY <2>1, <2>2, <2>3, BecomesTyped
<1>5. ASSUME NEW r \in Request, TaskSends(r) PROVE TaskTyped'
  <2> DEFINE t == task[r]
             f == [kind |-> Head(t.out), session |-> t.session]
  <2>1. /\ t \in Task /\ t.out # <<>> /\ t.at # "none" /\ t.session \in Session
        /\ t.session <= session /\ session' = session
        /\ \/ Becomes(r, After(t)) /\ sent' = [sent EXCEPT ![r] = Append(@, f)]
           \/ Becomes(r, Over(t.session)) /\ sent' = sent
    BY <1>5, SendsCases
  <2> HIDE DEF t
  <2>2. f \in Frame /\ t.session \in 0 .. MaxSessions
    BY <2>1 DEF Frame, Task
  <2> HIDE DEF f
  <2>3. CASE Becomes(r, After(t)) /\ sent' = [sent EXCEPT ![r] = Append(@, f)]
    <3>1. sent' \in [Request -> Seq(Frame)]
      BY <2>2, <2>3 DEF Typed, TaskTyped
    <3>2. After(t) \in Task /\ After(t).at # "none" /\ After(t).session = t.session
      BY <2>1, AfterTyped
    <3> QED BY <2>1, <2>3, <3>1, <3>2, BecomesTyped
  <2>4. CASE Becomes(r, Over(t.session)) /\ sent' = sent
    <3>1. sent' \in [Request -> Seq(Frame)]
      BY <2>4 DEF Typed, TaskTyped
    <3>2. Over(t.session) \in Task /\ Over(t.session).at # "none" /\ Over(t.session).session = t.session
      BY <2>2, OverTyped
    <3> QED BY <2>1, <2>4, <3>1, <3>2, BecomesTyped
  <2> QED BY <2>1, <2>3, <2>4
<1>6. TaskTyped'
  BY <1>2, <1>3, <1>4, <1>5, StepKinds DEF Typed
<1> QED BY <1>1, <1>6 DEF Typed

LEMMA TypedAlways ==
    Spec => []Typed
<1>1. Init => Typed
  BY InitTyped
<1>2. Typed /\ [Next]_vars => Typed'
  BY TypedStep
<1> QED BY <1>1, <1>2, PTL DEF Spec

\* Every variable of relay_client_loop, of its sessions and of its tasks has
\* its type, and the backoff stays between INITIAL_BACKOFF and MAX_BACKOFF.
THEOREM RelayTypeCorrect ==
    Spec => []TypeOK
<1>1. Typed => TypeOK
  <2> SUFFICES ASSUME Typed PROVE TypeOK
    OBVIOUS
  <2>1. \A r \in Request : task[r].at \in Place /\ task[r].session \in 0 .. MaxSessions
    BY DEF Typed, TaskTyped, Task
  <2>2. \A r \in Request : sent[r] \in Seq([kind : {"full", "head", "part", "end"}, session : Session])
    BY DEF Typed, TaskTyped, Frame, Kind
  <2> QED BY <2>1, <2>2 DEF Typed, LoopTyped, TypeOK
<1> QED BY <1>1, TypedAlways, PTL

-----------------------------------------------------------------------------
(* Answers.                                                                *)

LEMMA MoveContinues ==
    ASSUME NEW t, NEW u, Moves(t, u), NEW q, NEW c, Answering(t.at, t.out, q, c), NEW d
    PROVE  Answering(u.at, u.out, q, d)
<1>1. <<"head">> # <<>> /\ <<"part">> # <<>>
  OBVIOUS
<1>2. CASE t.at \in {"local", "body"}
  <2>1. q = <<>>
    BY <1>2 DEF Answering
  <2>2. \/ u.at = "body" /\ u.out = <<>>
        \/ u.at = "done" /\ u.out = <<"full">>
        \/ u.at = "stream" /\ u.out = <<"head">>
    BY <1>2 DEF Moves
  <2> QED BY <2>1, <2>2 DEF Answering
<1>3. CASE t.at = "stream"
  <2>1. t.out = <<>>
    BY DEF Moves
  <2>2. Streaming(q)
    BY <1>1, <1>3, <2>1 DEF Answering
  <2>3. \/ u.at = "stream" /\ u.out \in {<<>>, <<"part">>}
        \/ u.at = "done" /\ u.out \in {<<"part", "part", "end">>, <<"part", "end">>, <<"end">>}
    BY <1>3 DEF Moves
  <2> QED BY <2>2, <2>3 DEF Answering
<1> QED BY <1>2, <1>3 DEF Moves

LEMMA StillToSend ==
    ASSUME NEW at, NEW out, out # <<>>, NEW q, NEW c, Answering(at, out, q, c)
    PROVE  \/ at = "stream" /\ out = <<"head">> /\ q = <<>>
           \/ at = "stream" /\ out = <<"part">> /\ Streaming(q)
           \/ at = "done" /\ out = <<"full">> /\ q = <<>>
           \/ /\ at = "done" /\ Streaming(q)
              /\ out \in {<<"part", "part", "end">>, <<"part", "end">>, <<"end">>}
BY DEF Answering

\* A frame added to a stream that goes on.
LEMMA StreamGrows ==
    ASSUME NEW q \in Seq(Frame), NEW f \in Frame
    PROVE  /\ q = <<>> /\ f.kind = "head" => Streaming(Append(q, f))
           /\ q = <<>> /\ f.kind = "full" => Whole(Append(q, f))
           /\ Streaming(q) /\ f.kind = "part" => Streaming(Append(q, f))
           /\ Streaming(q) /\ f.kind = "end" => Whole(Append(q, f))
<1> DEFINE p == Append(q, f)
<1>1. /\ Len(q) \in Nat /\ Len(p) = Len(q) + 1 /\ p[Len(q) + 1] = f
      /\ \A i \in 1 .. Len(q) : p[i] = q[i]
  OBVIOUS
<1> HIDE DEF p
<1>2. q = <<>> => Len(q) = 0
  OBVIOUS
<1>3. q = <<>> => \A i \in 1 .. Len(p) : i = 1 /\ p[i] = f
  BY <1>1, <1>2
<1>4. q = <<>> /\ f.kind = "head" => Streaming(p)
  BY <1>1, <1>2, <1>3 DEF Streaming
<1>5. q = <<>> /\ f.kind = "full" => Whole(p)
  BY <1>1, <1>2 DEF Whole
<1>6. ASSUME Streaming(q), f.kind = "part" PROVE Streaming(p)
  <2>1. Len(q) >= 1 /\ \A i \in 1 .. Len(q) : q[i].kind = IF i = 1 THEN "head" ELSE "part"
    BY <1>6 DEF Streaming
  <2>2. ASSUME NEW i \in 1 .. Len(p) PROVE p[i].kind = IF i = 1 THEN "head" ELSE "part"
    <3>1. CASE i \in 1 .. Len(q)
      BY <1>1, <2>1, <3>1
    <3>2. CASE i = Len(q) + 1
      BY <1>1, <1>6, <2>1, <3>2
    <3> QED BY <1>1, <3>1, <3>2
  <2> QED BY <1>1, <2>1, <2>2 DEF Streaming
<1>7. ASSUME Streaming(q), f.kind = "end" PROVE Whole(p)
  <2>1. Len(q) >= 1 /\ \A i \in 1 .. Len(q) : q[i].kind = IF i = 1 THEN "head" ELSE "part"
    BY <1>7 DEF Streaming
  <2>2. ASSUME NEW i \in 1 .. Len(p)
        PROVE  p[i].kind = IF i = 1 THEN "head" ELSE IF i = Len(p) THEN "end" ELSE "part"
    <3>1. CASE i \in 1 .. Len(q)
      <4>1. i # Len(p) /\ p[i] = q[i]
        BY <1>1, <3>1
      <4> QED BY <2>1, <3>1, <4>1
    <3>2. CASE i = Len(q) + 1
      <4>1. i # 1 /\ i = Len(p)
        BY <1>1, <2>1, <3>2
      <4> QED BY <1>1, <1>7, <3>2, <4>1
    <3> QED BY <1>1, <3>1, <3>2
  <2>3. Len(p) >= 2
    BY <1>1, <2>1
  <2> QED BY <2>2, <2>3 DEF Whole
<1> QED BY <1>4, <1>5, <1>6, <1>7 DEF p

LEMMA SendContinues ==
    ASSUME NEW t \in Task, t.out # <<>>, NEW q \in Seq(Frame), NEW c,
           Answering(t.at, t.out, q, c), NEW f \in Frame, f.kind = Head(t.out), NEW d
    PROVE  Answering(After(t).at, After(t).out, Append(q, f), d)
<1> DEFINE v == After(t)
           p == Append(q, f)
<1>1. v.at = t.at /\ v.out = IF t.at = "done" /\ Len(t.out) = 1 THEN <<>> ELSE Tail(t.out)
  BY AfterTyped
<1>2. /\ q = <<>> /\ f.kind = "head" => Streaming(p)
      /\ q = <<>> /\ f.kind = "full" => Whole(p)
      /\ Streaming(q) /\ f.kind = "part" => Streaming(p)
      /\ Streaming(q) /\ f.kind = "end" => Whole(p)
  BY StreamGrows
<1> HIDE DEF v, p
<1>3. CASE t.at = "stream" /\ t.out = <<"head">> /\ q = <<>>
  <2>1. v.out = <<>> /\ f.kind = "head"
    BY <1>1, <1>3
  <2> QED BY <1>1, <1>2, <1>3, <2>1 DEF Answering, v, p
<1>4. CASE t.at = "stream" /\ t.out = <<"part">> /\ Streaming(q)
  <2>1. v.out = <<>> /\ f.kind = "part"
    BY <1>1, <1>4
  <2> QED BY <1>1, <1>2, <1>4, <2>1 DEF Answering, v, p
<1>5. CASE t.at = "done" /\ t.out = <<"full">> /\ q = <<>>
  <2>1. v.out = <<>> /\ f.kind = "full"
    BY <1>1, <1>5
  <2> QED BY <1>1, <1>2, <1>5, <2>1 DEF Answering, v, p
<1>6. CASE t.at = "done" /\ Streaming(q) /\ t.out = <<"part", "part", "end">>
  <2>1. v.out = <<"part", "end">> /\ f.kind = "part"
    BY <1>1, <1>6
  <2> QED BY <1>1, <1>2, <1>6, <2>1 DEF Answering, v, p
<1>7. CASE t.at = "done" /\ Streaming(q) /\ t.out = <<"part", "end">>
  <2>1. v.out = <<"end">> /\ f.kind = "part"
    BY <1>1, <1>7
  <2> QED BY <1>1, <1>2, <1>7, <2>1 DEF Answering, v, p
<1>8. CASE t.at = "done" /\ Streaming(q) /\ t.out = <<"end">>
  <2>1. v.out = <<>> /\ f.kind = "end"
    BY <1>1, <1>8
  <2> QED BY <1>1, <1>2, <1>8, <2>1 DEF Answering, v, p
<1> QED BY <1>3, <1>4, <1>5, <1>6, <1>7, <1>8, StillToSend

LEMMA InitAnswers ==
    Init => Answers
<1> SUFFICES ASSUME Init, NEW r \in Request PROVE AnswersOf(r) /\ TextsOf(r)
  BY DEF Answers
<1>1. /\ task[r].at = "none" /\ task[r].out = <<>> /\ sent[r] = <<>>
      /\ task[r].got = <<>> /\ task[r].passed = <<>> /\ task[r].held = <<>>
  BY DEF Init, NoTask
<1>2. AnswersOf(r)
  BY <1>1 DEF AnswersOf, Answering
<1>3. Intact(<<>>, <<>>, <<>>)
  BY DEF Intact, Valid
<1> QED BY <1>1, <1>2, <1>3 DEF TextsOf

\* A request whose task and frames a step leaves alone.
LEMMA UntouchedStays ==
    ASSUME Typed, NEW r \in Request, AnswersOf(r), TextsOf(r), task'[r] = task[r], sent'[r] = sent[r],
           \A s \in Session : s <= session /\ conn[s] = "closed" => conn'[s] = "closed"
    PROVE  AnswersOf(r)' /\ TextsOf(r)'
<1>1. CutOff(r) => CutOff(r)'
  BY DEF CutOff, Typed, TaskTyped
<1>2. Answering(task[r].at, task[r].out, sent[r], CutOff(r))
        => Answering(task[r].at, task[r].out, sent[r], CutOff(r)')
  BY <1>1 DEF Answering
<1>3. AnswersOf(r)'
  BY <1>2 DEF AnswersOf
<1> QED BY <1>3 DEF TextsOf

\* The answers and the texts after a step, of every request.
LEMMA AnswersStep ==
    ASSUME Typed, Answers, [Next]_vars
    PROVE  Answers'
<1> SUFFICES ASSUME \A p \in Request : AnswersOf(p) /\ TextsOf(p), NEW r \in Request
             PROVE  AnswersOf(r)' /\ TextsOf(r)'
  BY DEF Answers
<1>1. CASE Aside
  BY <1>1, UntouchedStays DEF Aside
<1>2. ASSUME NEW p \in Request, TakeRequest(p) \/ Run(p) \/ TaskSends(p), p # r
      PROVE  AnswersOf(r)' /\ TextsOf(r)'
  <2>1. conn' = conn
    BY <1>2, RunMoves DEF TakeRequest, TaskSends, Typed
  <2>2. sent'[r] = sent[r]
    BY <1>2, RunMoves DEF TakeRequest, TaskSends, Typed, TaskTyped
  <2>3. \E u : Becomes(p, u)
    BY <1>2, TakeMakes, RunMoves, SendsCases DEF Typed
  <2>4. task'[r] = task[r]
    BY <1>2, <2>3 DEF Becomes, Typed, TaskTyped
  <2> QED BY <2>1, <2>2, <2>4, UntouchedStays
<1>3. CASE TakeRequest(r)
  <2>1. PICK u \in Task :
            /\ Becomes(r, u) /\ u.at = "local" /\ u.session = session /\ u.out = <<>>
            /\ u.got = <<>> /\ u.passed = <<>> /\ u.held = <<>>
    BY <1>3, TakeMakes
  <2>2. task'[r] = u
    BY <2>1 DEF Becomes, Typed, TaskTyped
  <2>3. task[r].at = "none"
    BY <1>3 DEF TakeRequest, NoTask
  <2>4. sent'[r] = <<>>
    BY <1>3, <2>3 DEF TakeRequest, AnswersOf, Answering
  <2>5. AnswersOf(r)'
    BY <2>1, <2>2, <2>4 DEF AnswersOf, Answering
  <2>6. Intact(<<>>, <<>>, <<>>)
    BY DEF Intact, Valid
  <2> QED BY <2>1, <2>2, <2>5, <2>6 DEF TextsOf
<1>4. CASE Run(r)
  <2>1. PICK u : Moves(task[r], u) /\ Becomes(r, u)
    BY <1>4, RunMoves DEF Typed
  <2>2. task'[r] = u /\ sent' = sent
    BY <1>4, <2>1, RunMoves DEF Becomes, Typed, TaskTyped
  <2>3. Answering(u.at, u.out, sent[r], CutOff(r)')
    BY <2>1, MoveContinues DEF AnswersOf
  <2>4. u.session = task[r].session /\ Intact(u.got, u.passed, u.held)
    BY <2>1 DEF Moves, TextsOf
  <2> QED BY <2>2, <2>3, <2>4 DEF AnswersOf, TextsOf
<1>5. CASE TaskSends(r)
  <2> DEFINE t == task[r]
             f == [kind |-> Head(t.out), session |-> t.session]
             q == sent[r]
  <2>1. /\ t \in Task /\ t.out # <<>> /\ t.at # "none" /\ t.session \in Session
        /\ UNCHANGED <<session, conn>>
        /\ \/ /\ conn[t.session] # "closed" /\ Becomes(r, After(t))
              /\ sent' = [sent EXCEPT ![r] = Append(@, f)]
           \/ conn[t.session] = "closed" /\ Becomes(r, Over(t.session)) /\ sent' = sent
    BY <1>5, SendsCases
  <2>2. /\ q \in Seq(Frame) /\ Answering(t.at, t.out, q, CutOff(r))
        /\ \A i \in 1 .. Len(q) : q[i].session = t.session
        /\ Intact(t.got, t.passed, t.held)
    BY DEF AnswersOf, TextsOf, Typed, TaskTyped
  <2>3. task \in [Request -> Task] /\ sent \in [Request -> Seq(Frame)]
    BY DEF Typed, TaskTyped
  <2>4. ASSUME Becomes(r, After(t)), sent' = [sent EXCEPT ![r] = Append(@, f)]
        PROVE  AnswersOf(r)' /\ TextsOf(r)'
    <3>1. task'[r] = After(t) /\ sent'[r] = Append(q, f)
      BY <2>3, <2>4 DEF Becomes
    <3> HIDE DEF t, q
    <3>2. f \in Frame /\ f.kind = Head(t.out) /\ f.session = t.session
      BY <2>1 DEF Frame, Task
    <3> HIDE DEF f
    <3>3. Answering(After(t).at, After(t).out, Append(q, f), CutOff(r)')
      BY <2>1, <2>2, <3>2, SendContinues
    <3>4. After(t).session = t.session /\ Intact(After(t).got, After(t).passed, After(t).held)
      BY <2>1, <2>2, AfterTyped
    <3>5. \A i \in 1 .. Len(Append(q, f)) : Append(q, f)[i].session = t.session
      BY <2>2, <3>2
    <3> QED BY <3>1, <3>3, <3>4, <3>5 DEF AnswersOf, TextsOf
  <2>5. ASSUME conn[t.session] = "closed", Becomes(r, Over(t.session)), sent' = sent
        PROVE  AnswersOf(r)' /\ TextsOf(r)'
    <3>1. task'[r] = Over(t.session) /\ sent'[r] = q
      BY <2>3, <2>5 DEF Becomes
    <3> HIDE DEF t, q
    <3>2. t.session \in 0 .. MaxSessions
      BY <2>1 DEF Task
    <3>3. /\ Over(t.session).at = "done" /\ Over(t.session).session = t.session
          /\ Over(t.session).out = <<>> /\ Over(t.session).got = <<>>
          /\ Over(t.session).passed = <<>> /\ Over(t.session).held = <<>>
      BY <3>2, OverTyped
    <3>4. CutOff(r)'
      BY <2>1, <2>5, <3>1, <3>3 DEF CutOff
    <3>5. q = <<>> \/ Streaming(q)
      BY <2>1, <2>2, StillToSend
    <3>6. Answering("done", <<>>, q, CutOff(r)')
      BY <3>4, <3>5 DEF Answering
    <3>7. Intact(<<>>, <<>>, <<>>)
      BY DEF Intact, Valid
    <3> QED BY <2>2, <3>1, <3>3, <3>6, <3>7 DEF AnswersOf, TextsOf
  <2> QED BY <2>1, <2>4, <2>5
<1> QED BY <1>1, <1>2, <1>3, <1>4, <1>5, StepKinds DEF Typed

LEMMA AnswersAlways ==
    Spec => []Answers
<1>1. Init => Answers
  BY InitAnswers
<1>2. Typed /\ Answers /\ [Next]_vars => Answers'
  BY AnswersStep
<1> QED BY <1>1, <1>2, TypedAlways, PTL DEF Spec

LEMMA WholeReads ==
    ASSUME NEW q \in Seq(Frame)
    PROVE  /\ Whole(q) => q # <<>> /\ Last(q).kind \in {"full", "end"}
           /\ Whole(q) \/ Streaming(q) \/ q = <<>> =>
                 \A i \in DOMAIN q : /\ q[i].kind \in {"full", "head"} <=> i = 1
                                     /\ q[i].kind \in {"full", "end"} => i = Len(q)
<1>1. DOMAIN q = 1 .. Len(q) /\ Len(q) \in Nat
  OBVIOUS
<1>2. ASSUME Whole(q) PROVE q # <<>> /\ Last(q).kind \in {"full", "end"}
  <2>1. CASE Len(q) = 1 /\ q[1].kind = "full"
    <3>1. q # <<>>
      <4>1. Len(q) # 0
        BY <2>1
      <4> QED BY <4>1, EmptySeq
    <3>2. Last(q) = q[1]
      BY <2>1 DEF Last
    <3> QED BY <2>1, <3>1, <3>2
  <2>2. CASE /\ Len(q) >= 2
             /\ \A i \in 1 .. Len(q) :
                   q[i].kind = IF i = 1 THEN "head" ELSE IF i = Len(q) THEN "end" ELSE "part"
    <3> DEFINE n == Len(q)
    <3>1. n \in Nat /\ n >= 2
      BY <2>2
    <3>2. n \in 1 .. n /\ n # 1
      <4> HIDE DEF n
      <4> QED BY <3>1
    <3>3. q[n].kind = "end"
      BY <2>2, <3>2
    <3>4. q # <<>> /\ Last(q) = q[n]
      BY <3>1, EmptySeq DEF Last
    <3> QED BY <3>3, <3>4
  <2> QED BY <1>2, <2>1, <2>2 DEF Whole
<1>3. ASSUME Whole(q) \/ Streaming(q) \/ q = <<>>, NEW i \in DOMAIN q
      PROVE  /\ q[i].kind \in {"full", "head"} <=> i = 1
             /\ q[i].kind \in {"full", "end"} => i = Len(q)
  <2>1. CASE Whole(q)
    <3>1. CASE Len(q) = 1 /\ q[1].kind = "full"
      BY <1>1, <1>3, <3>1
    <3>2. CASE /\ Len(q) >= 2
               /\ \A j \in 1 .. Len(q) :
                     q[j].kind = IF j = 1 THEN "head" ELSE IF j = Len(q) THEN "end" ELSE "part"
      <4>1. q[i].kind = IF i = 1 THEN "head" ELSE IF i = Len(q) THEN "end" ELSE "part"
        BY <1>1, <1>3, <3>2
      <4> QED BY <3>2, <4>1
    <3> QED BY <2>1, <3>1, <3>2 DEF Whole
  <2>2. CASE Streaming(q)
    BY <1>1, <1>3, <2>2 DEF Streaming
  <2>3. CASE q = <<>>
    BY <1>1, <1>3, <2>3
  <2> QED BY <1>3, <2>1, <2>2, <2>3
<1> QED BY <1>2, <1>3

\* send_response_envelope and relay_local_request: whatever the order in which
\* the tasks send, the frames of a request are one full frame, or a head, parts
\* and an end, all on its connection, and a task that is over has sent all of
\* them unless that connection failed.
THEOREM EveryAnswerWhole ==
    Spec => []AnswersWhole
<1>1. Typed /\ Answers => AnswersWhole
  <2> SUFFICES ASSUME Typed, \A r \in Request : AnswersOf(r) /\ TextsOf(r), NEW r \in Request
               PROVE  /\ \A i \in DOMAIN sent[r] :
                            /\ sent[r][i].session = task[r].session
                            /\ sent[r][i].kind \in {"full", "head"} <=> i = 1
                            /\ sent[r][i].kind \in {"full", "end"} => i = Len(sent[r])
                      /\ Idle(r, "done") => Terminated(r) \/ CutOff(r)
    BY DEF AnswersWhole, Answers
  <2>1. sent[r] \in Seq(Frame)
    BY DEF Typed, TaskTyped
  <2>2. Whole(sent[r]) \/ Streaming(sent[r]) \/ sent[r] = <<>>
    BY DEF AnswersOf, Answering
  <2>3. DOMAIN sent[r] = 1 .. Len(sent[r])
    BY <2>1
  <2>4. \A i \in DOMAIN sent[r] : sent[r][i].session = task[r].session
    BY <2>3 DEF AnswersOf
  <2>5. Idle(r, "done") => Whole(sent[r]) \/ CutOff(r)
    <3>1. /\ <<"full">> # <<>> /\ <<"part", "part", "end">> # <<>> /\ <<"part", "end">> # <<>>
          /\ <<"end">> # <<>>
      OBVIOUS
    <3> QED BY <3>1 DEF AnswersOf, Answering, Idle
  <2> QED BY <2>1, <2>2, <2>4, <2>5, WholeReads DEF Terminated
<1> QED BY <1>1, TypedAlways, AnswersAlways, PTL

\* drain_utf8_chunk: of a stream of well-formed text nothing is replaced, lost
\* or sent twice, wherever the chunks cut it, and no more than the beginning of
\* one character is held back.
THEOREM EveryTextIntact ==
    Spec => []TextIntact
<1>1. Typed /\ Answers => TextIntact
  <2> SUFFICES ASSUME Typed, \A r \in Request : AnswersOf(r) /\ TextsOf(r), NEW r \in Request,
                      Valid(task[r].got) \/ Cut(task[r].got)
               PROVE  /\ task[r].passed \o task[r].held = task[r].got
                      /\ Len(task[r].held) <= 1
    BY DEF TextIntact, Answers
  <2>1. /\ task[r].held = <<>> \/ task[r].held = <<"first">>
        /\ task[r].passed \o task[r].held = task[r].got
    BY DEF TextsOf, Intact
  <2>2. Len(<<>>) <= 1 /\ Len(<<"first">>) <= 1
    OBVIOUS
  <2> QED BY <2>1, <2>2
<1> QED BY <1>1, TypedAlways, AnswersAlways, PTL

-----------------------------------------------------------------------------
(* The backoff.                                                            *)

\* f doubles from 1 up to n.
Doubles(f, n) == f \in [Nat -> Nat] /\ f[0] = 1 /\ \A i \in 1 .. n : f[i] = 2 * f[i - 1]

\* The least number for which there is none cannot be: induction on n.
LEMMA DoublingExists ==
    \A n \in Nat : \E f : Doubles(f, n)
<1> DEFINE Bad == {n \in Nat : ~ \E f : Doubles(f, n)}
<1> SUFFICES ASSUME Bad # {} PROVE FALSE
  OBVIOUS
<1>1. Bad \subseteq Nat
  OBVIOUS
<1>2. PICK m \in Bad : \A k \in Bad : ~(<<k, m>> \in OpToRel(<, Nat))
  BY <1>1, NatLessThanWellFounded, WFMin
<1>3. m \in Nat /\ ~ \E f : Doubles(f, m)
  OBVIOUS
<1>4. CASE m = 0
  <2> DEFINE f == [i \in Nat |-> 1]
  <2>1. Doubles(f, 0)
    BY DEF Doubles
  <2> QED BY <1>3, <1>4, <2>1
<1>5. CASE m # 0
  <2>1. m - 1 \in Nat /\ m - 1 < m
    BY <1>3, <1>5
  <2>2. m - 1 \notin Bad
    BY <1>2, <1>3, <2>1 DEF OpToRel
  <2>3. PICK g : Doubles(g, m - 1)
    BY <2>1, <2>2
  <2> DEFINE f == [g EXCEPT ![m] = 2 * g[m - 1]]
  <2>4. g \in [Nat -> Nat] /\ g[0] = 1 /\ \A i \in 1 .. m - 1 : g[i] = 2 * g[i - 1]
    BY <2>3 DEF Doubles
  <2>5. f \in [Nat -> Nat] /\ f[0] = 1
    BY <1>3, <1>5, <2>1, <2>4
  <2>6. ASSUME NEW i \in 1 .. m PROVE f[i] = 2 * f[i - 1]
    <3>1. i \in Nat /\ i - 1 \in Nat /\ i - 1 # m
      BY <1>3
    <3>2. CASE i = m
      BY <1>3, <2>4, <3>1, <3>2
    <3>3. CASE i # m
      BY <1>3, <2>4, <3>1, <3>3
    <3> QED BY <3>2, <3>3
  <2>7. Doubles(f, m)
    BY <2>5, <2>6 DEF Doubles
  <2> QED BY <1>3, <2>7
<1> QED BY <1>4, <1>5

LEMMA DoublingUnique ==
    ASSUME NEW f, NEW g, NEW n \in Nat, Doubles(f, n), NEW m \in Nat, Doubles(g, m), n <= m
    PROVE  f[n] = g[n]
<1> DEFINE Bad == {i \in Nat : i <= n /\ f[i] # g[i]}
<1>1. Bad = {}
  <2> SUFFICES ASSUME Bad # {} PROVE FALSE
    OBVIOUS
  <2>1. Bad \subseteq Nat
    OBVIOUS
  <2>2. PICK i \in Bad : \A k \in Bad : ~(<<k, i>> \in OpToRel(<, Nat))
    BY <2>1, NatLessThanWellFounded, WFMin
  <2>3. i \in Nat /\ i <= n /\ f[i] # g[i]
    OBVIOUS
  <2>4. i # 0
    BY <2>3 DEF Doubles
  <2>5. i - 1 \in Nat /\ i - 1 < i /\ i \in 1 .. n /\ i \in 1 .. m
    BY <2>3, <2>4
  <2>6. f[i - 1] = g[i - 1]
    <3>1. i - 1 \notin Bad
      BY <2>2, <2>3, <2>5 DEF OpToRel
    <3>2. i - 1 <= n
      BY <2>3, <2>5
    <3> QED BY <2>5, <3>1, <3>2
  <2> QED BY <2>3, <2>5, <2>6 DEF Doubles
<1> QED BY <1>1

\* Power satisfies the equation that defines it.
LEMMA PowerLaw ==
    /\ Power \in [Nat -> Nat]
    /\ Power[0] = 1
    /\ \A n \in Nat : Power[n + 1] = 2 * Power[n]
<1> DEFINE f(n) == CHOOSE f : Doubles(f, n)
           F == [n \in Nat |-> f(n)[n]]
           G == [n \in Nat |-> IF n = 0 THEN 1 ELSE 2 * F[n - 1]]
<1>1. \A n \in Nat : Doubles(f(n), n)
  BY DoublingExists
<1> HIDE DEF f
<1>2. \A n \in Nat : F[n] = f(n)[n] /\ F[n] \in Nat
  BY <1>1 DEF Doubles
<1>3. F[0] = 1
  BY <1>1, <1>2 DEF Doubles
<1>4. ASSUME NEW n \in Nat \ {0} PROVE F[n] = 2 * F[n - 1]
  <2>1. n - 1 \in Nat /\ n - 1 <= n /\ n \in 1 .. n
    OBVIOUS
  <2>2. Doubles(f(n), n) /\ Doubles(f(n - 1), n - 1)
    BY <1>1, <2>1
  <2>3. f(n - 1)[n - 1] = f(n)[n - 1]
    <3> DEFINE a == f(n - 1)
               b == f(n)
               k == n - 1
    <3>1. k \in Nat /\ k <= n /\ Doubles(a, k) /\ Doubles(b, n)
      BY <2>1, <2>2
    <3> HIDE DEF a, b, k
    <3>2. a[k] = b[k]
      BY <3>1, DoublingUnique
    <3> QED BY <3>2 DEF a, b, k
  <2>4. f(n)[n] = 2 * f(n)[n - 1]
    BY <2>1, <2>2 DEF Doubles
  <2> QED BY <1>2, <2>1, <2>3, <2>4
<1> HIDE DEF F
<1>5. F = G
  <2>1. F = [n \in Nat |-> F[n]]
    BY DEF F
  <2>2. \A n \in Nat : F[n] = IF n = 0 THEN 1 ELSE 2 * F[n - 1]
    BY <1>3, <1>4
  <2> QED BY <2>1, <2>2
<1>6. Power = [n \in Nat |-> IF n = 0 THEN 1 ELSE 2 * Power[n - 1]]
  <2>1. \E P : P = [n \in Nat |-> IF n = 0 THEN 1 ELSE 2 * P[n - 1]]
    BY <1>5
  <2> QED BY <2>1, Zenon DEF Power
<1>7. Power[0] = 1 /\ \A n \in Nat : Power[n + 1] = 2 * Power[n]
  BY <1>6
<1>8. \A n \in Nat : Power[n] \in Nat
  <2> DEFINE Bad == {n \in Nat : Power[n] \notin Nat}
  <2> SUFFICES ASSUME Bad # {} PROVE FALSE
    OBVIOUS
  <2>1. Bad \subseteq Nat
    OBVIOUS
  <2>2. PICK i \in Bad : \A k \in Bad : ~(<<k, i>> \in OpToRel(<, Nat))
    BY <2>1, NatLessThanWellFounded, WFMin
  <2>3. i \in Nat /\ Power[i] \notin Nat /\ i # 0
    BY <1>7
  <2>4. i - 1 \in Nat /\ i - 1 < i /\ i = (i - 1) + 1
    BY <2>3
  <2>5. Power[i - 1] \in Nat
    BY <2>2, <2>3, <2>4 DEF OpToRel
  <2>6. Power[(i - 1) + 1] = 2 * Power[i - 1]
    BY <1>7, <2>4
  <2> QED BY <2>3, <2>4, <2>5, <2>6
<1>9. Power \in [Nat -> Nat]
  BY <1>6, <1>8
<1> QED BY <1>7, <1>9

\* The wait after n doublings.
Doubled(n) == Least(InitialBackoff * Power[n], MaxBackoff)

LEMMA WaitDoubles ==
    ASSUME NEW n \in Nat
    PROVE  /\ Doubled(n) \in Nat
           /\ Doubled(0) = InitialBackoff
           /\ Doubled(n + 1) = Least(Doubled(n) * 2, MaxBackoff)
<1>1. /\ InitialBackoff \in Nat \ {0} /\ MaxBackoff \in Nat /\ MaxBackoff >= InitialBackoff
  BY RelayAssumption
<1>2. Power[0] = 1 /\ Power[n + 1] = 2 * Power[n] /\ Power[n] \in Nat
  BY PowerLaw
<1> DEFINE p == InitialBackoff * Power[n]
<1>3. p \in Nat /\ InitialBackoff * Power[n + 1] = 2 * p
  BY <1>1, <1>2
<1>4. InitialBackoff * Power[0] = InitialBackoff
  BY <1>1, <1>2
<1> HIDE DEF p
<1>5. Doubled(n) = Least(p, MaxBackoff) /\ Doubled(n + 1) = Least(2 * p, MaxBackoff)
  BY <1>3 DEF Doubled, p
<1>6. Doubled(0) = InitialBackoff
  BY <1>1, <1>4 DEF Doubled, Least
<1> QED BY <1>1, <1>3, <1>5, <1>6 DEF Least

\* Where the count of failures stops, the wait has reached its limit.
LEMMA WaitLevels ==
    ASSUME NEW n \in Nat, n >= MaxFails - 1
    PROVE  Doubled(n) = MaxBackoff
<1> DEFINE Bad == {i \in Nat : i >= MaxFails - 1 /\ Doubled(i) # MaxBackoff}
<1>1. /\ MaxFails - 1 \in Nat /\ MaxBackoff \in Nat
      /\ Power[MaxFails - 1] \in Nat /\ InitialBackoff \in Nat
      /\ InitialBackoff * Power[MaxFails - 1] >= MaxBackoff
  BY RelayAssumption, PowerLaw
<1>2. Doubled(MaxFails - 1) = MaxBackoff
  <2> DEFINE p == InitialBackoff * Power[MaxFails - 1]
  <2>1. p \in Nat /\ p >= MaxBackoff
    BY <1>1
  <2> HIDE DEF p
  <2>2. Least(p, MaxBackoff) = MaxBackoff
    BY <1>1, <2>1 DEF Least
  <2> QED BY <2>2 DEF Doubled, p
<1>3. Bad = {}
  <2> SUFFICES ASSUME Bad # {} PROVE FALSE
    OBVIOUS
  <2>1. Bad \subseteq Nat
    OBVIOUS
  <2>2. PICK i \in Bad : \A k \in Bad : ~(<<k, i>> \in OpToRel(<, Nat))
    BY <2>1, NatLessThanWellFounded, WFMin
  <2>3. i \in Nat /\ i >= MaxFails - 1 /\ Doubled(i) # MaxBackoff /\ i # MaxFails - 1
    BY <1>2
  <2>4. i - 1 \in Nat /\ i - 1 < i /\ i = (i - 1) + 1 /\ i - 1 >= MaxFails - 1
    BY <1>1, <2>3
  <2>5. Doubled(i - 1) = MaxBackoff
    BY <2>2, <2>3, <2>4 DEF OpToRel
  <2>6. Doubled((i - 1) + 1) = Least(Doubled(i - 1) * 2, MaxBackoff)
    BY <2>4, WaitDoubles
  <2>7. Least(MaxBackoff * 2, MaxBackoff) = MaxBackoff
    BY <1>1 DEF Least
  <2> QED BY <2>3, <2>4, <2>5, <2>6, <2>7
<1> QED BY <1>3

\* How often the wait was doubled, while it is waited and when it is over.
Doublings == IF fails = 0 THEN 0 ELSE IF served THEN fails ELSE fails - 1
Upcoming == IF served THEN fails + 1 ELSE fails

Backoffs ==
    /\ fails \in 0 .. MaxFails
    /\ served \in BOOLEAN
    /\ phase = "wait" => backoff = Doubled(Doublings)
    /\ phase = "wait" => fails > 0 \/ served
    /\ phase \in {"connect", "register"} => backoff = Doubled(Upcoming)
    /\ phase = "serve" => fails = 0 /\ served

LEMMA BackoffsStep ==
    ASSUME LoopTyped, Backoffs, [Next]_vars
    PROVE  Backoffs'
<1>1. MaxFails \in Nat \ {0} /\ MaxFails - 1 \in Nat
  BY RelayAssumption
<1>2. CASE UNCHANGED <<phase, backoff, fails, served>>
  BY <1>2 DEF Backoffs, Doublings, Upcoming
<1>3. CASE Connect
  BY <1>3 DEF Connect, Backoffs, Doublings, Upcoming
<1>4. CASE ConnectionFails
  <2> DEFINE d == Doublings'
  <2>1. /\ phase' = "wait" /\ backoff' = backoff /\ served' = served
        /\ fails' = Least(fails + 1, MaxFails) /\ backoff = Doubled(Upcoming)
    BY <1>4 DEF ConnectionFails, Backoffs
  <2>2. fails' \in 1 .. MaxFails /\ served' \in BOOLEAN
    BY <1>1, <2>1 DEF Backoffs, Least
  <2>3. CASE fails < MaxFails
    <3>1. fails' = fails + 1
      BY <1>1, <2>1, <2>3 DEF Least, Backoffs
    <3>2. d = Upcoming
      BY <2>1, <2>2, <3>1 DEF Doublings, Upcoming, Backoffs
    <3> QED BY <2>1, <2>2, <3>2 DEF Backoffs
  <2>4. CASE fails = MaxFails
    <3>1. fails' = MaxFails
      BY <1>1, <2>1, <2>4 DEF Least
    <3>2. /\ d \in Nat /\ d >= MaxFails - 1
          /\ Upcoming \in Nat /\ Upcoming >= MaxFails - 1
      BY <1>1, <2>1, <2>4, <3>1 DEF Doublings, Upcoming
    <3> HIDE DEF d
    <3>3. Doubled(d) = MaxBackoff /\ Doubled(Upcoming) = MaxBackoff
      BY <3>2, WaitLevels
    <3> QED BY <2>1, <2>2, <3>3 DEF Backoffs, d
  <2> QED BY <1>1, <2>3, <2>4 DEF Backoffs
<1>5. CASE Registered
  <2>1. Doubled(0) = InitialBackoff
    BY WaitDoubles
  <2>2. /\ fails' = 0 /\ served' = TRUE
        /\ phase' = "serve" \/ (phase' = "wait" /\ backoff' = InitialBackoff)
    BY <1>5, Zenon DEF Registered
  <2>3. Doublings' = 0
    BY <2>2 DEF Doublings
  <2> QED BY <1>1, <2>1, <2>2, <2>3 DEF Backoffs
<1>6. CASE Wake
  <2>1. /\ phase' = "connect" /\ backoff' = Least(backoff * 2, MaxBackoff)
        /\ UNCHANGED <<fails, served>>
    BY <1>6 DEF Wake
  <2>2. backoff = Doubled(Doublings) /\ (fails > 0 \/ served) /\ fails \in 0 .. MaxFails /\ served \in BOOLEAN
    BY <1>6 DEF Wake, Backoffs
  <2>3. Doublings \in Nat /\ Upcoming' = Doublings + 1
    BY <1>1, <2>1, <2>2 DEF Doublings, Upcoming
  <2>4. Doubled(Doublings + 1) = Least(Doubled(Doublings) * 2, MaxBackoff)
    BY <2>3, WaitDoubles
  <2> QED BY <2>1, <2>2, <2>3, <2>4 DEF Backoffs
<1>7. CASE phase = "serve" /\ Disconnect
  <2>1. Doubled(0) = InitialBackoff
    BY WaitDoubles
  <2>2. fails' = 0 /\ served' /\ phase' = "wait" /\ backoff' = InitialBackoff /\ served' \in BOOLEAN
    BY <1>7 DEF Disconnect, Backoffs
  <2>3. Doublings' = 0
    BY <2>2 DEF Doublings
  <2> QED BY <1>1, <2>1, <2>2, <2>3 DEF Backoffs
<1>8. CASE IdleTimeout \/ ConnectionLost
  BY <1>7, <1>8 DEF IdleTimeout, ConnectionLost, Selecting
<1>9. CASE LoopSends
  BY <1>2, <1>7, <1>9 DEF LoopSends, dial
<1>10. CASE Receive \/ PingTick \/ LoopLocks
  BY <1>2, <1>10 DEF Receive, TakeOther, TakePing, TakeRequest, PingTick, LoopLocks, dial
<1>11. ASSUME NEW r \in Request, Run(r) PROVE Backoffs'
  BY <1>2, <1>11 DEF Run, LocalFails, LocalAnswers, BodyRead, BodyTimesOut, StreamChunk,
                     StreamFails, StreamEnds, dial
<1>12. ASSUME NEW r \in Request, TaskLocks(r) \/ TaskSends(r) PROVE Backoffs'
  BY <1>2, <1>12 DEF TaskLocks, TaskSends, dial
<1>13. ASSUME NEW s \in Session, Network(s) PROVE Backoffs'
  BY <1>2, <1>13 DEF Network, Silence, Close, GiveUp, dial
<1>14. CASE UNCHANGED vars
  BY <1>2, <1>14 DEF vars
<1> QED BY <1>3, <1>4, <1>5, <1>6, <1>8, <1>9, <1>10, <1>11, <1>12, <1>13, <1>14 DEF Next, Dial

\* relay_client_loop waits the initial backoff after a session and twice as
\* long after each failure that follows, up to MAX_BACKOFF, whatever sessions
\* came before.
THEOREM BackoffAlwaysExact ==
    Spec => []BackoffExact
<1>1. Init => Backoffs
  <2>1. Doubled(0) = InitialBackoff
    BY WaitDoubles
  <2>2. ASSUME Init PROVE Upcoming = 0
    BY <2>2 DEF Init, Upcoming
  <2>3. ASSUME Init PROVE Backoffs
    <3>1. phase = "connect" /\ backoff = Doubled(Upcoming) /\ fails = 0
      BY <2>1, <2>2, <2>3 DEF Init
    <3>2. served \in BOOLEAN
      BY <2>3, Zenon DEF Init
    <3> QED BY <3>1, <3>2, RelayAssumption DEF Backoffs
  <2> QED BY <2>3
<1>2. Typed /\ Backoffs /\ [Next]_vars => Backoffs'
  BY BackoffsStep DEF Typed
<1>3. Backoffs => BackoffExact
  BY DEF Backoffs, BackoffExact, Doubled, Doublings
<1> QED BY <1>1, <1>2, <1>3, TypedAlways, PTL DEF Spec
=============================================================================
