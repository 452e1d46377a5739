------------------------- MODULE ParserServer_proofs -------------------------
(***************************************************************************)
(* Proofs about the parser server, for any number of connections, clients  *)
(* that send any number of sentences and preferences, and any lines of     *)
(* error output.                                                           *)
(*                                                                         *)
(* The argument: client and connection take turns.  Each connection has an *)
(* invariant of its own (TakesTurns, AtStage, Begun); an operation of one  *)
(* connection leaves the others alone (OthersKeep).  On it rest two more:  *)
(* whose preferences the pipeline has read (PrefsOf), and where the reply  *)
(* to a sentence is (ReplyOf).                                             *)
(***************************************************************************)
EXTENDS ParserServer, TLAPS, SequenceTheorems, WellFoundedInduction

\* What a client may see that does not wait for a reply.
Idle(x) == x.kind \in {"ready", "err"}

\* The half of a line that makes it the mark of a sentence.
Mark(x) == x.kind = "end" /\ x.half = 2

Quiet(s) == \A i \in DOMAIN s : Idle(s[i])

Unmarked(s) == \A i \in DOMAIN s : ~ Mark(s[i])

\* Nothing of the reply comes after the mark.
MarkLast(s) == \A i, j \in DOMAIN s : i < j /\ Mark(s[i]) => Idle(s[j])

\* Whose turn it is, for a client cl and a thread th between which the streams
\* u, d and o (what is still to be written) run, with error output e.
TakesTurns(cl, th, u, d, o, e) ==
  /\ \A i \in DOMAIN u :
       u[i].kind = "sentence" => i = Len(u) /\ cl = "wait" /\ Quiet(d) /\ Quiet(o)
  /\ th \in {"feed", "join"} =>
       /\ cl = "wait" /\ Quiet(d) /\ o = <<>>
       /\ \A i \in DOMAIN u : u[i].kind # "sentence"
  /\ cl # "wait" => Quiet(d) /\ Quiet(o)
  /\ MarkLast(d) /\ MarkLast(o) /\ (Quiet(o) \/ Unmarked(d))
  /\ \A i \in DOMAIN e : e[i].kind = "err"

\* A thread is at a stage of its pipeline when it feeds a process.
AtStage(th, st, o) ==
  IF th \in {"feed", "join"} THEN st \in DOMAIN Pipeline(o) ELSE st = 0

\* A connection begins with preferences; until then it has no processes.
Begun(cl, th, u, t, ps) ==
  /\ cl = "away" => th = "none" /\ u = <<>>
  /\ cl # "away" /\ th \in {"none", "first"} => u # <<>> /\ u[1].kind = "prefs"
  /\ IF th = "none" THEN \A r \in Roles : ps[r] = NoProcess ELSE t \in Stamps

NoOptions == [nbest |-> FALSE, unify |-> FALSE]

Message ==
  [kind : {"prefs"}, o : Options] \cup [kind : {"sentence"}, k : Nat] \cup [kind : {"done"}]

ClientTypes ==
  /\ load \in [Conns -> [ask : Nat, prefs : Nat, err : Nat]]
  /\ client \in [Conns -> {"away", "config", "wait", "idle", "gone"}]
  /\ asked \in [Conns -> Nat] /\ sent \in [Conns -> Nat]
  /\ reply \in [Conns -> Seq(Half)]

StreamTypes ==
  /\ up \in [Conns -> Seq(Message)]
  /\ down \in [Conns -> Seq(Half)] /\ out \in [Conns -> Seq(Half)]
  /\ errs \in [Conns -> Nat] /\ errq \in [Conns -> Seq(Half)]

ThreadTypes ==
  /\ thread \in [Conns -> {"none", "first", "read", "feed", "join", "over", "failed"}]
  /\ opts \in [Conns -> Options \cup {NoOptions}]
  /\ filter \in [Conns -> BOOLEAN]
  /\ stage \in [Conns -> Nat] /\ text \in [Conns -> Nat \cup {null}]
  /\ conf \in [Conns -> Nat]
  /\ stamp \in [Conns -> Stamps \cup {0}]

ProcessTypes ==
  /\ proc \in [Conns -> [Roles -> Process]]
  /\ file \in [Stamps -> {unread} \cup (Conns \X Nat)]

Types == ClientTypes /\ StreamTypes /\ ThreadTypes /\ ProcessTypes

InOrder(c) ==
  /\ TakesTurns(client[c], thread[c], up[c], down[c], out[c], errq[c])
  /\ AtStage(thread[c], stage[c], opts[c])
  /\ Begun(client[c], thread[c], up[c], stamp[c], proc[c])

ServerInv == Types /\ \A c \in Conns : InOrder(c)

-----------------------------------------------------------------------------
(* Streams: what is added at the end and taken from the front.             *)

\* A set of numbers that is not empty has a least one.
LEMMA LeastPlace ==
  ASSUME NEW places, places \subseteq Nat, places # {}
  PROVE  \E p \in places : \A q \in places : p <= q
<1>1. \A q, p \in Nat : q < p => <<q, p>> \in OpToRel(<, Nat)
  BY DEF OpToRel
<1>2. PICK p \in places : \A q \in places : ~ (<<q, p>> \in OpToRel(<, Nat))
  BY NatLessThanWellFounded, WFMin
<1>3. ASSUME NEW q \in places PROVE p <= q
  <2>1. p \in Nat /\ q \in Nat
    BY <1>3
  <2>2. ~ (<<q, p>> \in OpToRel(<, Nat))
    BY <1>2, <1>3
  <2>3. ~ (q < p)
    BY <1>1, <2>1, <2>2, Zenon
  <2> QED  BY <2>1, <2>3
<1> QED  BY <1>3

\* The rest r of a stream s of which something has been read.
RestOf(s, r) ==
  \E m \in 1 .. Len(s) :
    Len(r) = Len(s) - m /\ \A i \in 1 .. Len(s) - m : r[i] = s[m + i]

\* Reading a half line leaves the rest.
LEMMA TailRest ==
  ASSUME NEW S, NEW s \in Seq(S), s # <<>>
  PROVE  /\ Head(s) \in S /\ Head(s) = s[1] /\ 1 \in DOMAIN s
         /\ Tail(s) \in Seq(S) /\ RestOf(s, Tail(s)) /\ Len(Tail(s)) = Len(s) - 1
         /\ \A i \in 1 .. Len(s) - 1 : Tail(s)[i] = s[i + 1]
<1>1. /\ Head(s) \in S /\ Tail(s) \in Seq(S) /\ Len(Tail(s)) = Len(s) - 1
      /\ \A i \in 1 .. Len(Tail(s)) : Tail(s)[i] = s[i + 1]
  BY HeadTailProperties
<1>2. Len(s) \in Nat /\ Len(s) >= 1 /\ DOMAIN s = 1 .. Len(s)
  BY EmptySeq
<1>3. Head(s) = s[1] /\ 1 \in DOMAIN s
  BY <1>2
<1>4. \A i \in 1 .. Len(s) - 1 : Tail(s)[i] = s[i + 1] /\ Tail(s)[i] = s[1 + i]
  BY <1>1, <1>2
<1>5. RestOf(s, Tail(s))
  BY <1>1, <1>2, <1>4 DEF RestOf
<1> QED  BY <1>1, <1>3, <1>4, <1>5

\* Reading a line leaves the rest.
LEMMA LineRest ==
  ASSUME NEW S, NEW s \in Seq(S), HasLine(s)
  PROVE  /\ FirstLine(s) \in Seq(S) /\ After(s, FirstLine(s)) \in Seq(S)
         /\ RestOf(s, After(s, FirstLine(s)))
         /\ \E m \in 1 .. Len(s) :
              /\ Len(FirstLine(s)) = m
              /\ \A i \in 1 .. m : FirstLine(s)[i] = s[i]
              /\ Len(After(s, FirstLine(s))) = Len(s) - m
              /\ \A i \in 1 .. Len(s) - m : After(s, FirstLine(s))[i] = s[m + i]
<1> DEFINE ends == {i \in DOMAIN s : s[i].half = 2}
           m == CHOOSE i \in ends : \A j \in ends : i <= j
<1>1. /\ Len(s) \in Nat /\ DOMAIN s = 1 .. Len(s) /\ \A i \in 1 .. Len(s) : s[i] \in S
      /\ ends \subseteq Nat /\ ends # {}
  BY DEF HasLine
<1>2. m \in ends
  BY <1>1, LeastPlace
<1>3. FirstLine(s) = SubSeq(s, 1, m)
  BY DEF FirstLine
<1>4. m \in 1 .. Len(s)
  BY <1>1, <1>2
<1> HIDE DEF m, ends
<1>5. /\ FirstLine(s) \in Seq(S) /\ Len(FirstLine(s)) = m
      /\ \A i \in 1 .. m : FirstLine(s)[i] = s[i]
  <2>1. /\ SubSeq(s, 1, m) \in Seq(S) /\ Len(SubSeq(s, 1, m)) = IF 1 <= m THEN m - 1 + 1 ELSE 0
        /\ \A i \in 1 .. m - 1 + 1 : SubSeq(s, 1, m)[i] = s[1 + i - 1]
    BY <1>1, <1>4, SubSeqProperties
  <2> QED  BY <1>3, <1>4, <2>1
<1>6. /\ After(s, FirstLine(s)) \in Seq(S) /\ Len(After(s, FirstLine(s))) = Len(s) - m
      /\ \A i \in 1 .. Len(s) - m : After(s, FirstLine(s))[i] = s[m + i]
  <2>1. After(s, FirstLine(s)) = SubSeq(s, m + 1, Len(s))
    BY <1>5 DEF After
  <2>2. /\ m + 1 \in Int /\ Len(s) \in Int
        /\ \A i \in m + 1 .. Len(s) : s[i] \in S
    BY <1>1, <1>4
  <2>3. /\ SubSeq(s, m + 1, Len(s)) \in Seq(S)
        /\ Len(SubSeq(s, m + 1, Len(s))) = IF m + 1 <= Len(s) THEN Len(s) - (m + 1) + 1 ELSE 0
        /\ \A i \in 1 .. Len(s) - (m + 1) + 1 : SubSeq(s, m + 1, Len(s))[i] = s[(m + 1) + i - 1]
    BY <2>2, SubSeqProperties
  <2>4. Len(After(s, FirstLine(s))) = Len(s) - m
    <3>1. Len(s) \in Nat /\ m \in Nat /\ m <= Len(s)
      BY <1>1, <1>4
    <3>2. (IF m + 1 <= Len(s) THEN Len(s) - (m + 1) + 1 ELSE 0) = Len(s) - m
      BY <3>1
    <3> QED  BY <2>1, <2>3, <3>2
  <2>5. ASSUME NEW i \in 1 .. Len(s) - m
        PROVE  After(s, FirstLine(s))[i] = s[m + i]
    <3>1. i \in 1 .. Len(s) - (m + 1) + 1 /\ (m + 1) + i - 1 = m + i
      BY <1>1, <1>4
    <3> QED  BY <2>1, <2>3, <3>1
  <2> QED  BY <2>1, <2>3, <2>4, <2>5
<1>7. RestOf(s, After(s, FirstLine(s)))
  BY <1>4, <1>6 DEF RestOf
<1> QED  BY <1>4, <1>5, <1>6, <1>7

\* What holds of a stream holds of the rest.
LEMMA RestKeeps ==
  ASSUME NEW S, NEW s \in Seq(S), NEW r \in Seq(S), RestOf(s, r)
  PROVE  /\ Quiet(s) => Quiet(r)
         /\ Unmarked(s) => Unmarked(r)
         /\ MarkLast(s) => MarkLast(r)
<1>1. PICK m \in 1 .. Len(s) :
        Len(r) = Len(s) - m /\ \A i \in 1 .. Len(s) - m : r[i] = s[m + i]
  BY DEF RestOf
<1>2. DOMAIN s = 1 .. Len(s) /\ DOMAIN r = 1 .. Len(s) - m /\ Len(s) \in Nat
  BY <1>1
<1>3. \A i \in DOMAIN r : m + i \in DOMAIN s /\ r[i] = s[m + i]
  BY <1>1, <1>2
<1>4. \A i, j \in DOMAIN r : i < j => m + i < m + j
  BY <1>2
<1> QED  BY <1>3, <1>4 DEF Quiet, Unmarked, MarkLast

\* What may be added to a stream.
LEMMA AppendKeeps ==
  ASSUME NEW S, NEW s \in Seq(S), NEW x \in S
  PROVE  /\ Append(s, x) \in Seq(S)
         /\ Quiet(s) /\ Idle(x) => Quiet(Append(s, x))
         /\ Unmarked(s) /\ ~ Mark(x) => Unmarked(Append(s, x))
         /\ MarkLast(s) /\ (Idle(x) \/ Unmarked(s)) => MarkLast(Append(s, x))
<1> DEFINE r == Append(s, x)
<1>1. /\ r \in Seq(S) /\ Len(r) = Len(s) + 1 /\ \A i \in 1 .. Len(s) : r[i] = s[i]
      /\ r[Len(s) + 1] = x /\ Len(s) \in Nat
  BY AppendProperties
<1> HIDE DEF r
<1>2. DOMAIN s = 1 .. Len(s) /\ DOMAIN r = 1 .. Len(s) + 1
  BY <1>1
<1>3. \A i \in DOMAIN r : (i \in DOMAIN s /\ r[i] = s[i]) \/ (i = Len(s) + 1 /\ r[i] = x)
  BY <1>1, <1>2
<1>4. Quiet(s) /\ Idle(x) => Quiet(r)
  BY <1>3 DEF Quiet
<1>5. Unmarked(s) /\ ~ Mark(x) => Unmarked(r)
  BY <1>3 DEF Unmarked
<1>6. ASSUME MarkLast(s), Idle(x) \/ Unmarked(s),
             NEW i \in DOMAIN r, NEW j \in DOMAIN r, i < j, Mark(r[i])
      PROVE  Idle(r[j])
  <2>1. i \in DOMAIN s /\ r[i] = s[i]
    BY <1>1, <1>2, <1>6
  <2>2. CASE j \in DOMAIN s /\ r[j] = s[j]
    BY <1>6, <2>1, <2>2 DEF MarkLast
  <2>3. CASE r[j] = x
    BY <1>6, <2>1, <2>3 DEF Unmarked
  <2> QED  BY <1>3, <2>2, <2>3
<1>7. MarkLast(s) /\ (Idle(x) \/ Unmarked(s)) => MarkLast(r)
  BY <1>6 DEF MarkLast
<1> QED  BY <1>1, <1>4, <1>5, <1>7 DEF r

\* A stream without a mark, and one of what any client may see.
LEMMA QuietIs ==
  ASSUME NEW s, Quiet(s)
  PROVE  Unmarked(s) /\ MarkLast(s)
BY DEF Quiet, Unmarked, MarkLast, Idle, Mark

\* What is on its way, and what is still to be written after it.
LEMMA QuietJoin ==
  ASSUME NEW S, NEW s \in Seq(S), NEW r \in Seq(S), Quiet(s), Quiet(r)
  PROVE  Quiet(s \o r)
<1> DEFINE q == s \o r
<1>1. /\ q \in Seq(S) /\ Len(q) = Len(s) + Len(r)
      /\ \A i \in 1 .. Len(s) + Len(r) : q[i] = IF i <= Len(s) THEN s[i] ELSE r[i - Len(s)]
  BY ConcatProperties
<1> HIDE DEF q
<1>2. /\ Len(s) \in Nat /\ Len(r) \in Nat /\ DOMAIN q = 1 .. Len(s) + Len(r)
      /\ DOMAIN s = 1 .. Len(s) /\ DOMAIN r = 1 .. Len(r)
  BY <1>1
<1>3. ASSUME NEW i \in DOMAIN q
      PROVE  Idle(q[i])
  <2>1. CASE i <= Len(s)
    BY <1>1, <1>2, <2>1 DEF Quiet
  <2>2. CASE ~ (i <= Len(s))
    <3>1. i - Len(s) \in DOMAIN r /\ q[i] = r[i - Len(s)]
      BY <1>1, <1>2, <2>2
    <3> QED  BY <3>1 DEF Quiet
  <2> QED  BY <2>1, <2>2
<1> QED  BY <1>3 DEF Quiet, q

\* The two halves of a line.
LEMMA LineIs ==
  ASSUME NEW kind \in {"ready", "end", "nullend", "text", "err"}, NEW k \in Nat
  PROVE  /\ Line(kind, k) \in Seq(Half) /\ Len(Line(kind, k)) = 2
         /\ Line(kind, k)[1] = [kind |-> kind, of |-> k, half |-> 1]
         /\ Line(kind, k)[2] = [kind |-> kind, of |-> k, half |-> 2]
         /\ \A i \in DOMAIN Line(kind, k) : Line(kind, k)[i].kind = kind
<1>1. /\ [kind |-> kind, of |-> k, half |-> 1] \in Half
      /\ [kind |-> kind, of |-> k, half |-> 2] \in Half
  BY DEF Half
<1>2. /\ Line(kind, k) \in Seq(Half) /\ Len(Line(kind, k)) = 2
      /\ Line(kind, k)[1] = [kind |-> kind, of |-> k, half |-> 1]
      /\ Line(kind, k)[2] = [kind |-> kind, of |-> k, half |-> 2]
  BY <1>1 DEF Line
<1>3. DOMAIN Line(kind, k) = {1, 2}
  BY <1>2
<1> QED  BY <1>2, <1>3

\* A reply ends with its mark.
LEMMA ReplyIs ==
  ASSUME NEW t \in Nat \cup {null}
  PROVE  ReplyTo(t) \in Seq(Half) /\ MarkLast(ReplyTo(t))
<1>1. CASE t = null
  <2>1. ReplyTo(t) = Line("nullend", 0)
    BY <1>1 DEF ReplyTo
  <2>2. ReplyTo(t) \in Seq(Half) /\ \A i \in DOMAIN ReplyTo(t) : ReplyTo(t)[i].kind = "nullend"
    <3>1. "nullend" \in {"ready", "end", "nullend", "text", "err"} /\ 0 \in Nat
      OBVIOUS
    <3> DEFINE l == Line("nullend", 0)
    <3>2. l \in Seq(Half) /\ \A i \in DOMAIN l : l[i].kind = "nullend"
      BY <3>1, LineIs, Zenon
    <3> HIDE DEF l
    <3>3. ReplyTo(t) = l
      BY <2>1 DEF l
    <3> QED  BY <3>2, <3>3
  <2> QED  BY <2>2 DEF MarkLast, Mark
<1>2. CASE t # null
  <2> DEFINE s == IF t = empty THEN <<>> ELSE Line("text", t)
             e == Line("end", 0)
  <2>1. ReplyTo(t) = s \o e /\ t \in Nat
    BY <1>2 DEF ReplyTo
  <2>2. /\ s \in Seq(Half) /\ \A i \in DOMAIN s : ~ Mark(s[i])
    <3>1. CASE t = empty
      BY <3>1
    <3>2. CASE t # empty
      <4>1. s = Line("text", t)
        BY <3>2
      <4>2. s \in Seq(Half) /\ \A i \in DOMAIN s : s[i].kind = "text"
        <5>1. "text" \in {"ready", "end", "nullend", "text", "err"} /\ t \in Nat
          BY <2>1
        <5> DEFINE l == Line("text", t)
        <5>2. l \in Seq(Half) /\ \A i \in DOMAIN l : l[i].kind = "text"
          BY <5>1, LineIs, Zenon
        <5>3. s = l
          BY <4>1
        <5> HIDE DEF l, s
        <5> QED  BY <5>2, <5>3
      <4> QED  BY <4>2 DEF Mark
    <3> QED  BY <3>1, <3>2
  <2>3. /\ e \in Seq(Half) /\ Len(e) = 2 /\ e[1].half = 1
    <3>1. "end" \in {"ready", "end", "nullend", "text", "err"} /\ 0 \in Nat
      OBVIOUS
    <3>2. /\ e \in Seq(Half) /\ Len(e) = 2
          /\ e[1] = [kind |-> "end", of |-> 0, half |-> 1]
      BY <3>1, LineIs, Zenon
    <3> QED  BY <3>2
  <2> HIDE DEF s, e
  <2>4. /\ s \o e \in Seq(Half) /\ Len(s \o e) = Len(s) + 2 /\ Len(s) \in Nat
        /\ \A i \in 1 .. Len(s) + 2 :
             (s \o e)[i] = IF i <= Len(s) THEN s[i] ELSE e[i - Len(s)]
    <3>1. s \in Seq(Half) /\ e \in Seq(Half)
      BY <2>2, <2>3
    <3>2. /\ s \o e \in Seq(Half) /\ Len(s \o e) = Len(s) + Len(e)
          /\ \A i \in 1 .. Len(s) + Len(e) :
               (s \o e)[i] = IF i <= Len(s) THEN s[i] ELSE e[i - Len(s)]
      BY <3>1, ConcatProperties, Zenon
    <3>3. Len(s) \in Nat /\ Len(e) = 2
      BY <2>3, <3>1
    <3> DEFINE q == s \o e
    <3> HIDE DEF q
    <3>4. /\ q \in Seq(Half) /\ Len(q) = Len(s) + 2
          /\ \A i \in 1 .. Len(s) + 2 : q[i] = IF i <= Len(s) THEN s[i] ELSE e[i - Len(s)]
      BY <3>2, <3>3 DEF q
    <3> QED  BY <3>3, <3>4 DEF q
  <2>5. ASSUME NEW i \in DOMAIN (s \o e), Mark((s \o e)[i])
        PROVE  i = Len(s) + 2
    <3>1. i \in 1 .. Len(s) + 2
      BY <2>4
    <3>2. ~ (i <= Len(s))
      BY <2>2, <2>4, <2>5, <3>1
    <3>3. i = Len(s) + 1 => (s \o e)[i] = e[1]
      BY <2>4, <3>1, <3>2
    <3> QED  BY <2>3, <2>4, <2>5, <3>1, <3>2, <3>3 DEF Mark
  <2>6. DOMAIN (s \o e) = 1 .. Len(s) + 2
    BY <2>4
  <2>7. MarkLast(s \o e)
    BY <2>4, <2>5, <2>6 DEF MarkLast
  <2> QED  BY <2>1, <2>4, <2>7
<1> QED  BY <1>1, <1>2

-----------------------------------------------------------------------------
(* The client.                                                             *)

\* An operation of connection c leaves the other connections alone.
OthersKeep(c) ==
  \A d \in Conns \ {c} :
    /\ client'[d] = client[d] /\ thread'[d] = thread[d]
    /\ up'[d] = up[d] /\ down'[d] = down[d] /\ out'[d] = out[d] /\ errq'[d] = errq[d]
    /\ stage'[d] = stage[d] /\ opts'[d] = opts[d]
    /\ stamp'[d] = stamp[d] /\ proc'[d] = proc[d]

\* What an operation of c has to show.
LEMMA StepKeeps ==
  ASSUME ServerInv, NEW c \in Conns, OthersKeep(c), Types', InOrder(c)'
  PROVE  ServerInv'
<1>1. ASSUME NEW d \in Conns \ {c} PROVE InOrder(d)'
  <2>1. /\ client'[d] = client[d] /\ thread'[d] = thread[d]
        /\ up'[d] = up[d] /\ down'[d] = down[d] /\ out'[d] = out[d] /\ errq'[d] = errq[d]
        /\ stage'[d] = stage[d] /\ opts'[d] = opts[d]
        /\ stamp'[d] = stamp[d] /\ proc'[d] = proc[d]
    BY DEF OthersKeep
  <2>2. InOrder(d)
    BY DEF ServerInv
  <2> QED  BY <2>1, <2>2 DEF InOrder
<1> QED  BY <1>1 DEF ServerInv

\* The types of what belongs to one connection.
LEMMA TypesOf ==
  ASSUME Types, NEW c \in Conns
  PROVE  /\ client[c] \in {"away", "config", "wait", "idle", "gone"}
         /\ asked[c] \in Nat /\ sent[c] \in Nat /\ reply[c] \in Seq(Half)
         /\ up[c] \in Seq(Message) /\ down[c] \in Seq(Half) /\ out[c] \in Seq(Half)
         /\ errs[c] \in Nat /\ errq[c] \in Seq(Half)
         /\ thread[c] \in {"none", "first", "read", "feed", "join", "over", "failed"}
         /\ opts[c] \in Options \cup {NoOptions} /\ filter[c] \in BOOLEAN
         /\ stage[c] \in Nat /\ text[c] \in Nat \cup {null} /\ conf[c] \in Nat
         /\ stamp[c] \in Stamps \cup {0} /\ proc[c] \in [Roles -> Process]
BY DEF Types, ClientTypes, StreamTypes, ThreadTypes, ProcessTypes

\* A client that does not wait may send anything but a sentence.
LEMMA SendKeeps ==
  ASSUME NEW cl, NEW next, NEW th, NEW u \in Seq(Message), NEW x \in Message,
         NEW d, NEW o, NEW e, NEW t, NEW ps,
         cl \notin {"wait", "away"}, next # "away",
         TakesTurns(cl, th, u, d, o, e), Begun(cl, th, u, t, ps),
         x.kind = "sentence" <=> next = "wait"
  PROVE  /\ TakesTurns(next, th, Append(u, x), d, o, e)
         /\ Begun(next, th, Append(u, x), t, ps)
<1> DEFINE v == Append(u, x)
<1>1. /\ Len(u) \in Nat /\ Len(v) = Len(u) + 1 /\ \A i \in 1 .. Len(u) : v[i] = u[i]
      /\ v[Len(u) + 1] = x /\ v # <<>> /\ v \in Seq(Message)
  BY AppendProperties
<1> HIDE DEF v
<1>2. DOMAIN u = 1 .. Len(u) /\ DOMAIN v = 1 .. Len(u) + 1
  BY <1>1
<1>3. /\ Quiet(d) /\ Quiet(o) /\ th \notin {"feed", "join"}
      /\ \A i \in DOMAIN u : u[i].kind # "sentence"
  BY DEF TakesTurns
<1>4. ASSUME NEW i \in DOMAIN v, v[i].kind = "sentence"
      PROVE  i = Len(v) /\ next = "wait"
  <2>1. i \notin DOMAIN u
    BY <1>1, <1>2, <1>3, <1>4
  <2> QED  BY <1>1, <1>2, <1>4, <2>1
<1>5. TakesTurns(next, th, v, d, o, e)
  BY <1>3, <1>4 DEF TakesTurns
<1>6. u # <<>> => v[1] = u[1]
  <2>1. u # <<>> => Len(u) >= 1
    BY <1>1, EmptySeq
  <2> QED  BY <1>1, <2>1
<1>7. Begun(next, th, v, t, ps)
  BY <1>1, <1>6 DEF Begun
<1> QED  BY <1>5, <1>7 DEF v

\* openConnection and the first preferences.
LEMMA ConnectKeeps ==
  ASSUME ServerInv, NEW c \in Conns, Connect(c)
  PROVE  ServerInv'
<1>1. PICK o \in Options : up' = [up EXCEPT ![c] = <<[kind |-> "prefs", o |-> o]>>]
  BY DEF Connect
<1>2. /\ client[c] = "away" /\ client' = [client EXCEPT ![c] = "config"]
      /\ sent' = [sent EXCEPT ![c] = 1]
      /\ UNCHANGED <<load, asked, reply, down, tvars, out, proc, evars, file>>
  BY DEF Connect
<1> DEFINE m == [kind |-> "prefs", o |-> o]
<1>3. /\ m \in Message /\ m.kind = "prefs" /\ <<m>> \in Seq(Message)
      /\ Len(<<m>>) = 1 /\ <<m>>[1] = m /\ <<m>> # <<>> /\ DOMAIN <<m>> = {1}
  BY DEF Message
<1> HIDE DEF m
<1>4. up' = [up EXCEPT ![c] = <<m>>]
  BY <1>1 DEF m
<1>5. Types'
  <2>1. ClientTypes'
    BY <1>2 DEF ServerInv, Types, ClientTypes
  <2>2. StreamTypes'
    BY <1>2, <1>3, <1>4 DEF ServerInv, Types, StreamTypes, evars
  <2>3. ThreadTypes' /\ ProcessTypes'
    BY <1>2 DEF ServerInv, Types, ThreadTypes, ProcessTypes, tvars
  <2> QED  BY <2>1, <2>2, <2>3 DEF Types
<1>6. OthersKeep(c)
  BY <1>2, <1>4 DEF OthersKeep, ServerInv, Types, ClientTypes, StreamTypes, tvars, evars
<1>7. /\ client'[c] = "config" /\ up'[c] = <<m>> /\ thread'[c] = thread[c]
      /\ down'[c] = down[c] /\ out'[c] = out[c] /\ errq'[c] = errq[c]
      /\ stage'[c] = stage[c] /\ opts'[c] = opts[c] /\ stamp'[c] = stamp[c]
      /\ proc'[c] = proc[c]
  BY <1>2, <1>4 DEF ServerInv, Types, ClientTypes, StreamTypes, tvars, evars
<1>8. /\ TakesTurns("away", thread[c], up[c], down[c], out[c], errq[c])
      /\ AtStage(thread[c], stage[c], opts[c])
      /\ Begun("away", thread[c], up[c], stamp[c], proc[c])
  BY <1>2 DEF ServerInv, InOrder
<1>9. TakesTurns("config", thread[c], <<m>>, down[c], out[c], errq[c])
  BY <1>3, <1>8 DEF TakesTurns
<1>10. Begun("config", thread[c], <<m>>, stamp[c], proc[c])
  BY <1>3, <1>8 DEF Begun
<1>11. InOrder(c)'
  BY <1>7, <1>8, <1>9, <1>10 DEF InOrder
<1> QED  BY <1>5, <1>6, <1>11, StepKeeps

\* sendPreferences, sendAndReceive and closeConnection: the client sends one
\* message and changes its state.
LEMMA SendsKeeps ==
  ASSUME ServerInv, NEW c \in Conns, NEW x \in Message,
         NEW next \in {"config", "wait", "gone"}, client[c] = "idle",
         up' = [up EXCEPT ![c] = Append(@, x)],
         client' = [client EXCEPT ![c] = next],
         x.kind = "sentence" <=> next = "wait",
         ClientTypes', UNCHANGED <<down, tvars, out, proc, evars, file>>
  PROVE  ServerInv'
<1>1. Types'
  <2>1. Append(up[c], x) \in Seq(Message)
    BY AppendProperties, TypesOf DEF ServerInv
  <2>2. StreamTypes'
    BY <2>1 DEF ServerInv, Types, StreamTypes, evars
  <2>3. ThreadTypes' /\ ProcessTypes'
    BY DEF ServerInv, Types, ThreadTypes, ProcessTypes, tvars
  <2> QED  BY <2>2, <2>3 DEF Types
<1>2. OthersKeep(c)
  BY DEF OthersKeep, ServerInv, Types, ClientTypes, StreamTypes, tvars, evars
<1>3. /\ client'[c] = next /\ up'[c] = Append(up[c], x) /\ thread'[c] = thread[c]
      /\ down'[c] = down[c] /\ out'[c] = out[c] /\ errq'[c] = errq[c]
      /\ stage'[c] = stage[c] /\ opts'[c] = opts[c] /\ stamp'[c] = stamp[c]
      /\ proc'[c] = proc[c]
  BY DEF ServerInv, Types, ClientTypes, StreamTypes, tvars, evars
<1>4. /\ TakesTurns("idle", thread[c], up[c], down[c], out[c], errq[c])
      /\ AtStage(thread[c], stage[c], opts[c])
      /\ Begun("idle", thread[c], up[c], stamp[c], proc[c])
  BY DEF ServerInv, InOrder
<1>5. up[c] \in Seq(Message)
  BY TypesOf DEF ServerInv
<1>6. /\ TakesTurns(next, thread[c], Append(up[c], x), down[c], out[c], errq[c])
      /\ Begun(next, thread[c], Append(up[c], x), stamp[c], proc[c])
  BY <1>4, <1>5, SendKeeps
<1>7. InOrder(c)'
  BY <1>3, <1>4, <1>6 DEF InOrder
<1> QED  BY <1>1, <1>2, <1>7, StepKeeps

LEMMA ClientSendsKeeps ==
  ASSUME ServerInv, NEW c \in Conns, SendPreferences(c) \/ Ask(c) \/ Disconnect(c)
  PROVE  ServerInv'
<1>1. asked[c] \in Nat /\ sent[c] \in Nat
  BY TypesOf DEF ServerInv
<1>2. CASE SendPreferences(c)
  <2>1. PICK o \in Options : up' = [up EXCEPT ![c] = Append(@, [kind |-> "prefs", o |-> o])]
    BY <1>2 DEF SendPreferences
  <2> DEFINE m == [kind |-> "prefs", o |-> o]
  <2>2. m \in Message /\ m.kind # "sentence"
    BY DEF Message
  <2>3. ClientTypes'
    BY <1>1, <1>2 DEF SendPreferences, ServerInv, Types, ClientTypes
  <2> HIDE DEF m
  <2>4. /\ client[c] = "idle" /\ client' = [client EXCEPT ![c] = "config"]
        /\ up' = [up EXCEPT ![c] = Append(@, m)]
        /\ UNCHANGED <<down, tvars, out, proc, evars, file>>
    BY <1>2, <2>1 DEF SendPreferences, m
  <2> QED  BY <2>2, <2>3, <2>4, SendsKeeps
<1>3. CASE Ask(c)
  <2> DEFINE m == [kind |-> "sentence", k |-> asked[c] + 1]
  <2>1. m \in Message /\ m.kind = "sentence"
    BY <1>1 DEF Message
  <2>2. ClientTypes'
    <3>1. << >> \in Seq(Half)
      OBVIOUS
    <3> QED  BY <1>1, <1>3, <3>1 DEF Ask, ServerInv, Types, ClientTypes
  <2>3. /\ client[c] = "idle" /\ client' = [client EXCEPT ![c] = "wait"]
        /\ up' = [up EXCEPT ![c] = Append(@, m)]
        /\ UNCHANGED <<down, tvars, out, proc, evars, file>>
    BY <1>3 DEF Ask
  <2> HIDE DEF m
  <2> QED  BY <2>1, <2>2, <2>3, SendsKeeps
<1>4. CASE Disconnect(c)
  <2> DEFINE m == [kind |-> "done"]
  <2>1. m \in Message /\ m.kind # "sentence"
    BY DEF Message
  <2>2. ClientTypes'
    BY <1>4 DEF Disconnect, ServerInv, Types, ClientTypes
  <2>3. /\ client[c] = "idle" /\ client' = [client EXCEPT ![c] = "gone"]
        /\ up' = [up EXCEPT ![c] = Append(@, m)]
        /\ UNCHANGED <<down, tvars, out, proc, evars, file>>
    BY <1>4 DEF Disconnect
  <2> HIDE DEF m
  <2> QED  BY <2>1, <2>2, <2>3, SendsKeeps
<1> QED  BY <1>2, <1>3, <1>4

\* A line read from a stream without the mark leaves whose turn it is, and one
\* that is not the mark does so while the client waits.
LEMMA TakeKeeps ==
  ASSUME NEW cl, NEW th, NEW u, NEW d \in Seq(Half), NEW r \in Seq(Half), RestOf(d, r),
         NEW o, NEW e, TakesTurns(cl, th, u, d, o, e)
  PROVE  TakesTurns(cl, th, u, r, o, e)
<1>1. (Quiet(d) => Quiet(r)) /\ (Unmarked(d) => Unmarked(r)) /\ (MarkLast(d) => MarkLast(r))
  BY RestKeeps
<1> QED  BY <1>1 DEF TakesTurns

\* sendPreferences takes its line, and InputReaderThread one of the reply.
LEMMA ReadKeeps ==
  ASSUME ServerInv, NEW c \in Conns, HasLine(down[c]), client[c] \in {"config", "wait"},
         down' = [down EXCEPT ![c] = After(@, FirstLine(@))],
         NEW next \in {"wait", "idle"}, client' = [client EXCEPT ![c] = next],
         next = "wait" => client[c] = "wait",
         next = "idle" =>
           client[c] = "config" \/ FirstLine(down[c]) = Line("end", 0),
         ClientTypes', UNCHANGED <<up, tvars, out, proc, evars, file>>
  PROVE  ServerInv'
<1> DEFINE d == down[c]
           l == FirstLine(d)
           r == After(d, l)
<1>1. d \in Seq(Half) /\ down[c] = d
  BY TypesOf DEF ServerInv
<1>2. PICK m \in 1 .. Len(d) :
        /\ l \in Seq(Half) /\ r \in Seq(Half) /\ RestOf(d, r) /\ Len(l) = m
        /\ \A i \in 1 .. m : l[i] = d[i]
        /\ Len(r) = Len(d) - m /\ \A i \in 1 .. Len(d) - m : r[i] = d[m + i]
  BY <1>1, LineRest
<1> HIDE DEF d, l, r
<1>3. Types'
  <2>1. StreamTypes'
    BY <1>2 DEF ServerInv, Types, StreamTypes, evars, d, l, r
  <2>2. ThreadTypes' /\ ProcessTypes'
    BY DEF ServerInv, Types, ThreadTypes, ProcessTypes, tvars
  <2> QED  BY <2>1, <2>2 DEF Types
<1>4. OthersKeep(c)
  BY DEF OthersKeep, ServerInv, Types, ClientTypes, StreamTypes, tvars, evars
<1>5. /\ client'[c] = next /\ down'[c] = r /\ up'[c] = up[c] /\ thread'[c] = thread[c]
      /\ out'[c] = out[c] /\ errq'[c] = errq[c]
      /\ stage'[c] = stage[c] /\ opts'[c] = opts[c] /\ stamp'[c] = stamp[c]
      /\ proc'[c] = proc[c]
  BY DEF ServerInv, Types, ClientTypes, StreamTypes, tvars, evars, d, l, r
<1>6. /\ TakesTurns(client[c], thread[c], up[c], d, out[c], errq[c])
      /\ AtStage(thread[c], stage[c], opts[c])
      /\ Begun(client[c], thread[c], up[c], stamp[c], proc[c])
  BY <1>1 DEF ServerInv, InOrder
<1>7. TakesTurns(client[c], thread[c], up[c], r, out[c], errq[c])
  BY <1>1, <1>2, <1>6, TakeKeeps
<1>8. TakesTurns(next, thread[c], up[c], r, out[c], errq[c])
  <2>1. CASE next = "wait"
    BY <1>7, <2>1
  <2>2. CASE next = "idle" /\ client[c] = "config"
    BY <1>7, <2>2 DEF TakesTurns
  <2>3. CASE next = "idle" /\ l = Line("end", 0)
    <3>1. "end" \in {"ready", "end", "nullend", "text", "err"} /\ 0 \in Nat
      OBVIOUS
    <3>2. /\ Len(Line("end", 0)) = 2
          /\ Line("end", 0)[2] = [kind |-> "end", of |-> 0, half |-> 2]
      BY <3>1, LineIs, Zenon
    <3>3. m = 2 /\ d[2] = [kind |-> "end", of |-> 0, half |-> 2]
      BY <1>2, <2>3, <3>2
    <3>4. 2 \in DOMAIN d /\ Mark(d[2]) /\ ~ Idle(d[2])
      BY <1>1, <1>2, <3>3 DEF Mark, Idle
    <3>5. Quiet(out[c]) /\ MarkLast(d) /\ ~ Quiet(d)
      BY <1>6, <3>4 DEF TakesTurns, Unmarked, Quiet
    <3>6. Quiet(r)
      <4>1. ASSUME NEW i \in DOMAIN r PROVE Idle(r[i])
        <5>1. r[i] = d[2 + i] /\ 2 + i \in DOMAIN d /\ 2 < 2 + i
          BY <1>1, <1>2, <3>3, <4>1
        <5> QED  BY <3>4, <3>5, <5>1 DEF MarkLast
      <4> QED  BY <4>1 DEF Quiet
    <3>7. \A i \in DOMAIN up[c] : up[c][i].kind # "sentence"
      BY <1>6, <3>5 DEF TakesTurns
    <3>8. thread[c] \notin {"feed", "join"}
      BY <1>6, <3>5 DEF TakesTurns
    <3> QED  BY <1>7, <3>5, <3>6, <3>7, <3>8 DEF TakesTurns
  <2> QED  BY <1>1, <2>1, <2>2, <2>3 DEF l
<1>9. Begun(next, thread[c], up[c], stamp[c], proc[c])
  BY <1>6 DEF Begun
<1>10. InOrder(c)'
  BY <1>5, <1>6, <1>8, <1>9 DEF InOrder
<1> QED  BY <1>3, <1>4, <1>10, StepKeeps

LEMMA ClientReadsKeeps ==
  ASSUME ServerInv, NEW c \in Conns, ReadReady(c) \/ ReadLine(c)
  PROVE  ServerInv'
<1>1. CASE ReadReady(c)
  <2>1. ClientTypes'
    BY <1>1 DEF ReadReady, ServerInv, Types, ClientTypes
  <2> QED  BY <1>1, <2>1, ReadKeeps DEF ReadReady
<1>2. CASE ReadLine(c)
  <2> DEFINE l == FirstLine(down[c])
  <2>1. HasLine(down[c]) /\ client[c] = "wait"
        /\ down' = [down EXCEPT ![c] = After(@, FirstLine(@))]
        /\ UNCHANGED <<load, asked, sent, up, tvars, out, proc, evars, file>>
    BY <1>2 DEF ReadLine
  <2>2. down[c] \in Seq(Half) /\ reply[c] \in Seq(Half) /\ client \in [Conns -> {"away", "config", "wait", "idle", "gone"}]
    BY TypesOf DEF ServerInv, Types, ClientTypes
  <2>3. l \in Seq(Half)
    BY <2>1, <2>2, LineRest
  <2>4. CASE l = Line("end", 0) /\ client' = [client EXCEPT ![c] = "idle"] /\ UNCHANGED reply
    <3>1. ClientTypes'
      BY <2>1, <2>4 DEF ServerInv, Types, ClientTypes
    <3> QED  BY <2>1, <2>4, <3>1, ReadKeeps
  <2>5. CASE client' = client /\ reply' = [reply EXCEPT ![c] = @ \o l]
    <3>1. reply[c] \o l \in Seq(Half)
      BY <2>2, <2>3, ConcatProperties
    <3> HIDE DEF l
    <3>2. ClientTypes'
      BY <2>1, <2>5, <3>1 DEF ServerInv, Types, ClientTypes
    <3>3. client' = [client EXCEPT ![c] = "wait"]
      BY <2>1, <2>2, <2>5
    <3> QED  BY <2>1, <3>2, <3>3, ReadKeeps
  <2> QED  BY <1>2, <2>4, <2>5 DEF ReadLine
<1> QED  BY <1>1, <1>2

-----------------------------------------------------------------------------
(* The connection's thread.                                                *)

\* A thread that is not feeding a process reads a message, and has nothing to
\* write afterwards but what any client may see.
LEMMA HearKeeps ==
  ASSUME NEW cl, NEW th, NEW next, NEW u \in Seq(Message), u # <<>>,
         NEW d, NEW o, NEW new, NEW e, TakesTurns(cl, th, u, d, o, e),
         next \notin {"feed", "join"}, Quiet(new)
  PROVE  TakesTurns(cl, next, Tail(u), d, new, e)
<1>1. /\ Tail(u) \in Seq(Message) /\ Len(Tail(u)) = Len(u) - 1
      /\ \A i \in 1 .. Len(u) - 1 : Tail(u)[i] = u[i + 1]
  BY TailRest
<1>2. Len(u) \in Nat /\ DOMAIN u = 1 .. Len(u) /\ DOMAIN Tail(u) = 1 .. Len(u) - 1
  BY <1>1
<1> DEFINE v == Tail(u)
<1> HIDE DEF v
<1>3. ASSUME NEW i \in DOMAIN v, v[i].kind = "sentence"
      PROVE  i = Len(v) /\ cl = "wait" /\ Quiet(d)
  <2>1. i + 1 \in DOMAIN u /\ u[i + 1].kind = "sentence"
    BY <1>1, <1>2, <1>3 DEF v
  <2>2. i + 1 = Len(u) /\ cl = "wait" /\ Quiet(d)
    BY <2>1 DEF TakesTurns
  <2> QED  BY <1>1, <1>2, <1>3, <2>2 DEF v
<1>4. MarkLast(new)
  BY QuietIs
<1> QED  BY <1>3, <1>4 DEF TakesTurns, v

\* A connection that has begun stays so.
LEMMA BegunStays ==
  ASSUME NEW cl, NEW th, NEW next, NEW u, NEW v, NEW t, NEW ps, NEW qs,
         Begun(cl, th, u, t, ps), th # "none", next \notin {"none", "first"}
  PROVE  Begun(cl, next, v, t, qs) /\ t \in Stamps
BY DEF Begun

\* startServer: the connection gets its thread and the time of its file.
LEMMA AcceptKeeps ==
  ASSUME ServerInv, NEW c \in Conns, Accept(c)
  PROVE  ServerInv'
<1>1. PICK t \in Stamps : stamp' = [stamp EXCEPT ![c] = t]
  BY DEF Accept
<1>2. /\ thread[c] = "none" /\ client[c] # "away"
      /\ thread' = [thread EXCEPT ![c] = "first"]
      /\ UNCHANGED <<cvars, up, down, opts, filter, stage, text, conf, out, proc, evars, file>>
  BY DEF Accept
<1>3. Types'
  <2>1. ThreadTypes'
    BY <1>1, <1>2 DEF ServerInv, Types, ThreadTypes
  <2>2. ClientTypes' /\ StreamTypes' /\ ProcessTypes'
    BY <1>2 DEF ServerInv, Types, ClientTypes, StreamTypes, ProcessTypes, cvars, evars
  <2> QED  BY <2>1, <2>2 DEF Types
<1>4. OthersKeep(c)
  BY <1>1, <1>2 DEF OthersKeep, ServerInv, Types, ThreadTypes, cvars, evars
<1>5. /\ client'[c] = client[c] /\ thread'[c] = "first" /\ up'[c] = up[c]
      /\ down'[c] = down[c] /\ out'[c] = out[c] /\ errq'[c] = errq[c]
      /\ stage'[c] = stage[c] /\ opts'[c] = opts[c] /\ stamp'[c] = t
      /\ proc'[c] = proc[c]
  BY <1>1, <1>2 DEF ServerInv, Types, ThreadTypes, cvars, evars
<1>6. /\ TakesTurns(client[c], "none", up[c], down[c], out[c], errq[c])
      /\ AtStage("none", stage[c], opts[c])
      /\ Begun(client[c], "none", up[c], stamp[c], proc[c])
  BY <1>2 DEF ServerInv, InOrder
<1>7. TakesTurns(client[c], "first", up[c], down[c], out[c], errq[c])
  BY <1>6 DEF TakesTurns
<1>8. AtStage("first", stage[c], opts[c]) /\ Begun(client[c], "first", up[c], t, proc[c])
  BY <1>2, <1>6 DEF AtStage, Begun
<1>9. InOrder(c)'
  BY <1>5, <1>7, <1>8 DEF InOrder
<1> QED  BY <1>3, <1>4, <1>9, StepKeeps

\* Processes that are killed or started are processes.
LEMMA ConfigTypes ==
  ASSUME NEW ps \in [Roles -> Process], NEW roles
  PROVE  Killed(ps) \in [Roles -> Process] /\ Fresh(ps, roles) \in [Roles -> Process]
<1>1. NoProcess \in Process /\ [NoProcess EXCEPT !.st = "up"] \in Process
  BY DEF NoProcess, Process, unread
<1>2. \A r \in Roles : [ps[r] EXCEPT !.st = "dead"] \in Process /\ ps[r] \in Process
  BY DEF Process
<1> QED  BY <1>1, <1>2 DEF Killed, Fresh

\* The answer to preferences is for a client that does not wait for a reply.
LEMMA ReadyIs == Line("ready", 0) \in Seq(Half) /\ Quiet(Line("ready", 0))
<1>1. "ready" \in {"ready", "end", "nullend", "text", "err"} /\ 0 \in Nat
  OBVIOUS
<1> DEFINE l == Line("ready", 0)
<1>2. l \in Seq(Half) /\ \A i \in DOMAIN l : l[i].kind = "ready"
  BY <1>1, LineIs, Zenon
<1> HIDE DEF l
<1>3. Quiet(l)
  BY <1>2 DEF Quiet, Idle
<1> QED  BY <1>2, <1>3 DEF l

\* The first message of a connection and setPrefs: preferences are read, the
\* processes are started anew, if the file could be written, and the client is
\* told.
LEMMA ConfigureKeeps ==
  ASSUME ServerInv, NEW c \in Conns, up[c] # <<>>, Head(up[c]).kind = "prefs",
         thread[c] \in {"first", "read"}, thread' = [thread EXCEPT ![c] = "read"],
         up' = [up EXCEPT ![c] = Tail(@)], out' = [out EXCEPT ![c] = Line("ready", 0)],
         conf' = [conf EXCEPT ![c] = @ + 1],
         NEW o, o = Head(up[c]).o,
         SetOptions(c, o) \/ UNCHANGED <<opts, filter>>,
         NEW ps \in [Roles -> Process], Configured(c, o, ps) \/ NotWritten(c, ps),
         UNCHANGED <<cvars, down, stage, text, stamp, evars>>
  PROVE  ServerInv'
<1>1. /\ up[c] \in Seq(Message) /\ conf[c] \in Nat /\ stamp[c] \in Stamps \cup {0}
      /\ filter[c] \in BOOLEAN
  BY TypesOf DEF ServerInv
<1>2. /\ Head(up[c]) \in Message /\ Head(up[c]) = up[c][1] /\ Tail(up[c]) \in Seq(Message)
  BY <1>1, TailRest
<1>3. o \in Options /\ o.nbest \in BOOLEAN
  BY <1>2, ServerAssumption DEF Message
<1>4. /\ Line("ready", 0) \in Seq(Half) /\ Quiet(Line("ready", 0))
  BY ReadyIs
<1> DEFINE ready == Line("ready", 0)
<1> HIDE DEF ready
<1>5. /\ TakesTurns(client[c], thread[c], up[c], down[c], out[c], errq[c])
      /\ AtStage(thread[c], stage[c], opts[c])
      /\ Begun(client[c], thread[c], up[c], stamp[c], proc[c])
  BY DEF ServerInv, InOrder
<1>6. stamp[c] \in Stamps
  BY <1>5 DEF Begun
<1>7. ProcessTypes' /\ \A d \in Conns \ {c} : proc'[d] = proc[d]
  <2>1. CASE Configured(c, o, ps)
    <3>1. PICK qs \in [Roles -> Process] : proc' = [proc EXCEPT ![c] = qs]
      BY <2>1, ConfigTypes DEF Configured
    <3>2. file' = [file EXCEPT ![stamp[c]] = <<c, conf[c] + 1>>]
      BY <2>1 DEF Configured
    <3> QED  BY <1>1, <1>6, <3>1, <3>2 DEF ServerInv, Types, ProcessTypes
  <2>2. CASE NotWritten(c, ps)
    BY <2>2 DEF NotWritten, ServerInv, Types, ProcessTypes
  <2> QED  BY <2>1, <2>2
<1>8. /\ opts' \in [Conns -> Options \cup {NoOptions}] /\ filter' \in [Conns -> BOOLEAN]
      /\ \A d \in Conns \ {c} : opts'[d] = opts[d]
  <2>1. /\ opts \in [Conns -> Options \cup {NoOptions}] /\ filter \in [Conns -> BOOLEAN]
    BY DEF ServerInv, Types, ThreadTypes
  <2>2. CASE SetOptions(c, o)
    <3>1. opts' = [opts EXCEPT ![c] = o] /\ filter' = [filter EXCEPT ![c] = filter[c] \/ o.nbest]
      BY <2>2 DEF SetOptions
    <3>2. (filter[c] \/ o.nbest) \in BOOLEAN
      OBVIOUS
    <3> QED  BY <1>3, <2>1, <3>1, <3>2
  <2>3. CASE UNCHANGED <<opts, filter>>
    BY <2>1, <2>3
  <2> QED  BY <2>2, <2>3
<1>9. Types'
  <2>1. ClientTypes'
    BY DEF ServerInv, Types, ClientTypes, cvars
  <2>2. StreamTypes'
    BY <1>2, <1>4 DEF ServerInv, Types, StreamTypes, evars
  <2>3. ThreadTypes'
    <3>1. ThreadTypes
      BY DEF ServerInv, Types
    <3>2. thread' \in [Conns -> {"none", "first", "read", "feed", "join", "over", "failed"}]
      BY <3>1 DEF ThreadTypes
    <3>3. conf' \in [Conns -> Nat]
      <4>1. conf[c] + 1 \in Nat  BY <1>1
      <4> QED  BY <3>1, <4>1 DEF ThreadTypes
    <3> QED  BY <1>8, <3>1, <3>2, <3>3 DEF ThreadTypes
  <2> QED  BY <1>7, <2>1, <2>2, <2>3 DEF Types
<1>10. OthersKeep(c)
  BY <1>7, <1>8 DEF OthersKeep, ServerInv, Types, StreamTypes, ThreadTypes, cvars, evars
<1>11. /\ client'[c] = client[c] /\ thread'[c] = "read" /\ up'[c] = Tail(up[c])
       /\ down'[c] = down[c] /\ out'[c] = ready /\ errq'[c] = errq[c]
       /\ stage'[c] = stage[c] /\ stamp'[c] = stamp[c]
  BY DEF ServerInv, Types, StreamTypes, ThreadTypes, cvars, evars, ready
<1>12. TakesTurns(client[c], "read", Tail(up[c]), down[c], ready, errq[c])
  <2>1. Quiet(ready)  BY <1>4 DEF ready
  <2> QED  BY <1>1, <1>5, <2>1, HearKeeps
<1>13. AtStage("read", stage[c], opts'[c])
  BY <1>5 DEF AtStage
<1>14. Begun(client[c], "read", Tail(up[c]), stamp[c], proc'[c])
  BY <1>5, BegunStays
<1>15. InOrder(c)'
  BY <1>11, <1>12, <1>13, <1>14 DEF InOrder
<1> QED  BY <1>9, <1>10, <1>15, StepKeeps

LEMMA PreferencesKeep ==
  ASSUME ServerInv, NEW c \in Conns, First(c) \/ Reconfigure(c)
  PROVE  ServerInv'
<1>1. /\ up[c] \in Seq(Message) /\ proc[c] \in [Roles -> Process]
      /\ thread \in [Conns -> {"none", "first", "read", "feed", "join", "over", "failed"}]
  BY TypesOf DEF ServerInv, Types, ThreadTypes
<1> DEFINE o == Head(up[c]).o
<1>2. CASE First(c)
  <2>1. up[c] # <<>> /\ up[c][1].kind = "prefs"
    BY <1>2 DEF First, ServerInv, InOrder, Begun
  <2>2. Head(up[c]).kind = "prefs"
    BY <1>1, <2>1, TailRest
  <2>3. /\ thread[c] = "first" /\ thread' = [thread EXCEPT ![c] = "read"]
        /\ up' = [up EXCEPT ![c] = Tail(@)] /\ out' = [out EXCEPT ![c] = Line("ready", 0)]
        /\ conf' = [conf EXCEPT ![c] = @ + 1]
        /\ UNCHANGED <<cvars, down, stage, text, stamp, evars>>
        /\ SetOptions(c, o) \/ UNCHANGED <<opts, filter>>
        /\ Configured(c, o, proc[c]) \/ NotWritten(c, proc[c])
    BY <1>2 DEF First
  <2> HIDE DEF o
  <2> QED  BY <1>1, <2>1, <2>2, <2>3, ConfigureKeeps DEF o
<1>3. CASE Reconfigure(c)
  <2>1. /\ thread[c] = "read" /\ thread' = thread
        /\ up[c] # <<>> /\ Head(up[c]).kind = "prefs" /\ up' = [up EXCEPT ![c] = Tail(@)]
        /\ out' = [out EXCEPT ![c] = Line("ready", 0)]
        /\ conf' = [conf EXCEPT ![c] = @ + 1]
        /\ UNCHANGED <<cvars, down, stage, text, stamp, evars>>
        /\ SetOptions(c, o)
        /\ Configured(c, o, Killed(proc[c])) \/ NotWritten(c, Killed(proc[c]))
    BY <1>3 DEF Reconfigure, Reads
  <2>2. Killed(proc[c]) \in [Roles -> Process]
    BY <1>1, ConfigTypes
  <2>3. thread' = [thread EXCEPT ![c] = "read"]
    BY <1>1, <2>1
  <2> HIDE DEF o
  <2> QED  BY <2>1, <2>2, <2>3, ConfigureKeeps DEF o
<1> QED  BY <1>2, <1>3

\* parse begins when the one sentence there is has been read.
LEMMA ParseKeeps ==
  ASSUME ServerInv, NEW c \in Conns, Parse(c)
  PROVE  ServerInv'
<1>1. /\ thread[c] = "read" /\ out[c] = <<>> /\ up[c] # <<>>
      /\ Head(up[c]).kind = "sentence" /\ up' = [up EXCEPT ![c] = Tail(@)]
      /\ text' = [text EXCEPT ![c] = Head(up[c]).k] /\ stage' = [stage EXCEPT ![c] = 1]
      /\ thread' = [thread EXCEPT ![c] = "feed"]
      /\ UNCHANGED <<cvars, down, opts, filter, conf, stamp, out, proc, evars, file>>
  BY DEF Parse, Reads
<1>2. up[c] \in Seq(Message)
  BY TypesOf DEF ServerInv
<1>3. /\ Head(up[c]) \in Message /\ Head(up[c]) = up[c][1] /\ 1 \in DOMAIN up[c]
      /\ Tail(up[c]) \in Seq(Message) /\ Len(Tail(up[c])) = Len(up[c]) - 1
  BY <1>1, <1>2, TailRest
<1>4. Head(up[c]).k \in Nat
  BY <1>1, <1>3 DEF Message
<1>5. /\ TakesTurns(client[c], "read", up[c], down[c], <<>>, errq[c])
      /\ Begun(client[c], "read", up[c], stamp[c], proc[c])
  BY <1>1 DEF ServerInv, InOrder
<1>6. 1 = Len(up[c]) /\ client[c] = "wait" /\ Quiet(down[c])
  BY <1>1, <1>3, <1>5 DEF TakesTurns
<1> DEFINE v == Tail(up[c])
<1>7. DOMAIN v = {}
  <2>1. v \in Seq(Message) /\ Len(v) = 0
    BY <1>3, <1>6
  <2> HIDE DEF v
  <2>2. v = <<>>
    BY <2>1, EmptySeq
  <2> QED  BY <2>2
<1> HIDE DEF v
<1>8. TakesTurns("wait", "feed", v, down[c], <<>>, errq[c])
  BY <1>5, <1>6, <1>7 DEF TakesTurns
<1>9. AtStage("feed", 1, opts[c])
  BY DEF AtStage, Pipeline
<1>10. Begun(client[c], "feed", v, stamp[c], proc[c])
  BY <1>5, BegunStays
<1>11. Types'
  <2>1. ClientTypes' /\ ProcessTypes'
    BY <1>1 DEF ServerInv, Types, ClientTypes, ProcessTypes, cvars
  <2>2. StreamTypes'
    BY <1>1, <1>3 DEF ServerInv, Types, StreamTypes, evars
  <2>3. ThreadTypes'
    BY <1>1, <1>4 DEF ServerInv, Types, ThreadTypes
  <2> QED  BY <2>1, <2>2, <2>3 DEF Types
<1>12. OthersKeep(c)
  BY <1>1 DEF OthersKeep, ServerInv, Types, StreamTypes, ThreadTypes, cvars, evars
<1>13. /\ client'[c] = client[c] /\ thread'[c] = "feed" /\ up'[c] = v
       /\ down'[c] = down[c] /\ out'[c] = <<>> /\ errq'[c] = errq[c]
       /\ stage'[c] = 1 /\ opts'[c] = opts[c] /\ stamp'[c] = stamp[c]
       /\ proc'[c] = proc[c]
  BY <1>1 DEF ServerInv, Types, StreamTypes, ThreadTypes, cvars, evars, v
<1>14. InOrder(c)'
  BY <1>6, <1>8, <1>9, <1>10, <1>13 DEF InOrder
<1> QED  BY <1>11, <1>12, <1>14, StepKeeps

\* The thread ends when the client says that it is done.
LEMMA DoneKeeps ==
  ASSUME ServerInv, NEW c \in Conns, Done(c)
  PROVE  ServerInv'
<1>1. /\ thread[c] = "read" /\ out[c] = <<>> /\ up[c] # <<>>
      /\ up' = [up EXCEPT ![c] = Tail(@)]
      /\ thread' = [thread EXCEPT ![c] = "over"]
      /\ file' = [file EXCEPT ![stamp[c]] = unread]
      /\ UNCHANGED <<cvars, down, opts, filter, stage, text, conf, stamp, out, proc, evars>>
  BY DEF Done, Reads
<1>2. up[c] \in Seq(Message) /\ Tail(up[c]) \in Seq(Message)
  BY <1>1, TailRest, TypesOf DEF ServerInv
<1>3. /\ TakesTurns(client[c], "read", up[c], down[c], <<>>, errq[c])
      /\ AtStage("read", stage[c], opts[c])
      /\ Begun(client[c], "read", up[c], stamp[c], proc[c])
  BY <1>1 DEF ServerInv, InOrder
<1> DEFINE v == Tail(up[c])
<1>4. Quiet(<<>>)
  BY DEF Quiet
<1>5. TakesTurns(client[c], "over", v, down[c], <<>>, errq[c])
  BY <1>1, <1>2, <1>3, <1>4, HearKeeps
<1> HIDE DEF v
<1>6. AtStage("over", stage[c], opts[c])
  BY <1>3 DEF AtStage
<1>7. Begun(client[c], "over", v, stamp[c], proc[c])
  BY <1>3, BegunStays
<1>8. Types'
  <2>1. ClientTypes'
    BY <1>1 DEF ServerInv, Types, ClientTypes, cvars
  <2>2. StreamTypes'
    BY <1>1, <1>2 DEF ServerInv, Types, StreamTypes, evars
  <2>3. ThreadTypes'
    BY <1>1 DEF ServerInv, Types, ThreadTypes
  <2>4. ProcessTypes'
    BY <1>1 DEF ServerInv, Types, ProcessTypes
  <2> QED  BY <2>1, <2>2, <2>3, <2>4 DEF Types
<1>9. OthersKeep(c)
  BY <1>1 DEF OthersKeep, ServerInv, Types, StreamTypes, ThreadTypes, cvars, evars
<1>10. /\ client'[c] = client[c] /\ thread'[c] = "over" /\ up'[c] = v
       /\ down'[c] = down[c] /\ out'[c] = <<>> /\ errq'[c] = errq[c]
       /\ stage'[c] = stage[c] /\ opts'[c] = opts[c] /\ stamp'[c] = stamp[c]
       /\ proc'[c] = proc[c]
  BY <1>1 DEF ServerInv, Types, StreamTypes, ThreadTypes, cvars, evars, v
<1>11. InOrder(c)'
  BY <1>5, <1>6, <1>7, <1>10 DEF InOrder
<1> QED  BY <1>8, <1>9, <1>11, StepKeeps

\* There is a place in the pipeline, or another after one that is not the last.
LEMMA PipelineIs ==
  ASSUME NEW o, NEW i \in DOMAIN Pipeline(o)
  PROVE  /\ i \in Nat /\ Pipeline(o)[i] \in Roles
         /\ i < Len(Pipeline(o)) => i + 1 \in DOMAIN Pipeline(o)
<1>1. Pipeline(o) \in Seq(Roles)
  <2>1. {"parser", "nbest", "synget", "delete", "checker", "featproc"} \subseteq Roles
    BY DEF Roles
  <2>2. /\ <<"synget", "delete", "nbest">> \in Seq(Roles)
        /\ <<"parser", "checker", "featproc">> \in Seq(Roles)
        /\ <<"parser">> \in Seq(Roles)
    BY <2>1
  <2> QED  BY <2>2 DEF Pipeline
<1> DEFINE p == Pipeline(o)
<1> HIDE DEF p
<1>2. p \in Seq(Roles) /\ i \in DOMAIN p
  BY <1>1 DEF p
<1>3. i \in Nat /\ p[i] \in Roles /\ (i < Len(p) => i + 1 \in DOMAIN p)
  BY <1>2
<1> QED  BY <1>3 DEF p

\* The text of a stage goes to the next stage, or to the client as the reply.
LEMMA PassKeeps ==
  ASSUME ServerInv, NEW c \in Conns, thread[c] \in {"feed", "join"},
         NEW t \in Nat \cup {null}, Pass(c, t),
         ProcessTypes', \A d \in Conns \ {c} : proc'[d] = proc[d],
         UNCHANGED <<cvars, up, down, opts, filter, conf, stamp, evars>>
  PROVE  ServerInv'
<1>1. /\ TakesTurns(client[c], thread[c], up[c], down[c], out[c], errq[c])
      /\ stage[c] \in DOMAIN Pipeline(opts[c])
      /\ Begun(client[c], thread[c], up[c], stamp[c], proc[c])
  BY DEF ServerInv, InOrder, AtStage
<1>2. /\ client[c] = "wait" /\ Quiet(down[c]) /\ out[c] = <<>>
      /\ \A i \in DOMAIN up[c] : up[c][i].kind # "sentence"
  BY <1>1 DEF TakesTurns
<1>3. /\ stage[c] \in Nat
      /\ stage[c] < Len(Pipeline(opts[c])) => stage[c] + 1 \in DOMAIN Pipeline(opts[c])
  BY <1>1, PipelineIs
<1>4. ClientTypes'
  BY DEF ServerInv, Types, ClientTypes, cvars
<1>5. ReplyTo(t) \in Seq(Half) /\ MarkLast(ReplyTo(t))
  BY ReplyIs
<1>6. CASE /\ stage[c] < Len(Pipeline(opts[c]))
           /\ text' = [text EXCEPT ![c] = t] /\ stage' = [stage EXCEPT ![c] = @ + 1]
           /\ thread' = [thread EXCEPT ![c] = "feed"] /\ UNCHANGED out
  <2>1. Types'
    <3>1. StreamTypes'
      BY <1>6 DEF ServerInv, Types, StreamTypes, evars
    <3>2. ThreadTypes'
      <4>1. stage[c] + 1 \in Nat  BY <1>3
      <4> QED  BY <1>6, <4>1 DEF ServerInv, Types, ThreadTypes
    <3> QED  BY <1>4, <3>1, <3>2 DEF Types
  <2>2. OthersKeep(c)
    BY <1>6 DEF OthersKeep, ServerInv, Types, ThreadTypes, cvars, evars
  <2>3. /\ client'[c] = client[c] /\ thread'[c] = "feed" /\ up'[c] = up[c]
        /\ down'[c] = down[c] /\ out'[c] = out[c] /\ errq'[c] = errq[c]
        /\ stage'[c] = stage[c] + 1 /\ opts'[c] = opts[c] /\ stamp'[c] = stamp[c]
    BY <1>6 DEF ServerInv, Types, ThreadTypes, cvars, evars
  <2>4. TakesTurns(client[c], "feed", up[c], down[c], out[c], errq[c])
    BY <1>1, <1>2 DEF TakesTurns
  <2>5. AtStage("feed", stage[c] + 1, opts[c])
    BY <1>3, <1>6 DEF AtStage
  <2>6. Begun(client[c], "feed", up[c], stamp[c], proc'[c])
    BY <1>1, BegunStays
  <2>7. InOrder(c)'
    BY <2>3, <2>4, <2>5, <2>6 DEF InOrder
  <2> QED  BY <2>1, <2>2, <2>7, StepKeeps
<1>7. CASE /\ out' = [out EXCEPT ![c] = ReplyTo(t)] /\ text' = [text EXCEPT ![c] = empty]
           /\ stage' = [stage EXCEPT ![c] = 0] /\ thread' = [thread EXCEPT ![c] = "read"]
  <2>1. Types'
    <3>1. StreamTypes'
      BY <1>5, <1>7 DEF ServerInv, Types, StreamTypes, evars
    <3>2. ThreadTypes'
      BY <1>7 DEF ServerInv, Types, ThreadTypes, empty
    <3> QED  BY <1>4, <3>1, <3>2 DEF Types
  <2>2. OthersKeep(c)
    BY <1>7 DEF OthersKeep, ServerInv, Types, ThreadTypes, StreamTypes, cvars, evars
  <2>3. /\ client'[c] = client[c] /\ thread'[c] = "read" /\ up'[c] = up[c]
        /\ down'[c] = down[c] /\ out'[c] = ReplyTo(t) /\ errq'[c] = errq[c]
        /\ stage'[c] = 0 /\ opts'[c] = opts[c] /\ stamp'[c] = stamp[c]
    BY <1>7 DEF ServerInv, Types, ThreadTypes, StreamTypes, cvars, evars
  <2>4. Unmarked(down[c]) /\ MarkLast(down[c])
    BY <1>2, QuietIs
  <2>5. TakesTurns(client[c], "read", up[c], down[c], ReplyTo(t), errq[c])
    BY <1>1, <1>2, <1>5, <2>4 DEF TakesTurns
  <2>6. AtStage("read", 0, opts[c])
    BY DEF AtStage
  <2>7. Begun(client[c], "read", up[c], stamp[c], proc'[c])
    BY <1>1, BegunStays
  <2>8. InOrder(c)'
    BY <2>3, <2>5, <2>6, <2>7 DEF InOrder
  <2> QED  BY <2>1, <2>2, <2>8, StepKeeps
<1> QED  BY <1>6, <1>7 DEF Pass

\* One process of c changes, when its thread is running.
OneProcess(c, r, p) == proc' = [proc EXCEPT ![c] = [proc[c] EXCEPT ![r] = p]]

LEMMA OneProcessTypes ==
  ASSUME ProcessTypes, NEW c \in Conns, NEW r \in Roles, NEW p \in Process,
         OneProcess(c, r, p), UNCHANGED file
  PROVE  ProcessTypes' /\ \A d \in Conns \ {c} : proc'[d] = proc[d]
<1>1. [proc[c] EXCEPT ![r] = p] \in [Roles -> Process]
  BY DEF ProcessTypes
<1> QED  BY <1>1 DEF ProcessTypes, OneProcess

\* pipeToProcess up to the join.
LEMMA FeedKeeps ==
  ASSUME ServerInv, NEW c \in Conns, Feed(c)
  PROVE  ServerInv'
<1>1. /\ thread[c] = "feed"
      /\ UNCHANGED <<cvars, up, down, opts, filter, conf, stamp, evars, file>>
  BY DEF Feed
<1>2. /\ text[c] \in Nat \cup {null} /\ ProcessTypes
      /\ proc[c] \in [Roles -> Process]
  BY TypesOf DEF ServerInv, Types
<1>3. CASE Pass(c, null) /\ UNCHANGED proc
  <2>1. ProcessTypes'
    BY <1>1, <1>2, <1>3 DEF ProcessTypes
  <2> QED  BY <1>1, <1>3, <2>1, PassKeeps
<1>4. CASE /\ text[c] # null /\ thread' = [thread EXCEPT ![c] = "join"]
           /\ proc' = IF text[c] = empty THEN proc
                      ELSE [proc EXCEPT ![c][Role(c)] = [@ EXCEPT !.st = "busy", !.k = text[c]]]
           /\ UNCHANGED <<out, text, stage>>
  <2>1. /\ TakesTurns(client[c], "feed", up[c], down[c], out[c], errq[c])
        /\ stage[c] \in DOMAIN Pipeline(opts[c])
        /\ Begun(client[c], "feed", up[c], stamp[c], proc[c])
    BY <1>1 DEF ServerInv, InOrder, AtStage
  <2>2. Role(c) \in Roles
    BY <2>1, PipelineIs DEF Role
  <2>3. ProcessTypes' /\ \A d \in Conns \ {c} : proc'[d] = proc[d]
    <3>1. CASE text[c] = empty
      BY <1>1, <1>2, <1>4, <3>1 DEF ProcessTypes
    <3>2. CASE text[c] # empty
      <4> DEFINE p == [proc[c][Role(c)] EXCEPT !.st = "busy", !.k = text[c]]
      <4>1. p \in Process
        BY <1>2, <1>4, <2>2 DEF Process
      <4>2. OneProcess(c, Role(c), p)
        BY <1>4, <3>2 DEF OneProcess
      <4> HIDE DEF p
      <4> QED  BY <1>1, <1>2, <2>2, <4>1, <4>2, OneProcessTypes
    <3> QED  BY <3>1, <3>2
  <2>4. Types'
    <3>1. ClientTypes' /\ StreamTypes'
      BY <1>1, <1>4 DEF ServerInv, Types, ClientTypes, StreamTypes, cvars, evars
    <3>2. ThreadTypes'
      BY <1>1, <1>4 DEF ServerInv, Types, ThreadTypes
    <3> QED  BY <2>3, <3>1, <3>2 DEF Types
  <2>5. OthersKeep(c)
    BY <1>1, <1>4, <2>3 DEF OthersKeep, ServerInv, Types, ThreadTypes, cvars, evars
  <2>6. /\ client'[c] = client[c] /\ thread'[c] = "join" /\ up'[c] = up[c]
        /\ down'[c] = down[c] /\ out'[c] = out[c] /\ errq'[c] = errq[c]
        /\ stage'[c] = stage[c] /\ opts'[c] = opts[c] /\ stamp'[c] = stamp[c]
    BY <1>1, <1>4 DEF ServerInv, Types, ThreadTypes, cvars, evars
  <2>7. TakesTurns(client[c], "join", up[c], down[c], out[c], errq[c])
    BY <2>1 DEF TakesTurns
  <2>8. AtStage("join", stage[c], opts[c])
    BY <2>1 DEF AtStage
  <2>9. Begun(client[c], "join", up[c], stamp[c], proc'[c])
    BY <2>1, BegunStays
  <2>10. InOrder(c)'
    BY <2>6, <2>7, <2>8, <2>9 DEF InOrder
  <2> QED  BY <2>4, <2>5, <2>10, StepKeeps
<1> QED  BY <1>3, <1>4 DEF Feed

\* The rest of pipeToProcess.
LEMMA JoinKeeps ==
  ASSUME ServerInv, NEW c \in Conns, Join(c)
  PROVE  ServerInv'
<1>1. /\ thread[c] = "join"
      /\ UNCHANGED <<cvars, up, down, opts, filter, conf, stamp, evars, file>>
  BY DEF Join
<1>2. ProcessTypes /\ proc[c] \in [Roles -> Process]
  BY TypesOf DEF ServerInv, Types
<1>3. stage[c] \in DOMAIN Pipeline(opts[c])
  BY <1>1 DEF ServerInv, InOrder, AtStage
<1>4. Role(c) \in Roles
  BY <1>3, PipelineIs DEF Role
<1>5. CASE Pass(c, proc[c][Role(c)].k) /\ proc' = [proc EXCEPT ![c][Role(c)].st = "up"]
  <2> DEFINE p == [proc[c][Role(c)] EXCEPT !.st = "up"]
  <2>1. p \in Process /\ proc[c][Role(c)].k \in Nat
    BY <1>2, <1>4 DEF Process
  <2>2. OneProcess(c, Role(c), p)
    BY <1>5 DEF OneProcess
  <2> HIDE DEF p
  <2>3. ProcessTypes' /\ \A d \in Conns \ {c} : proc'[d] = proc[d]
    BY <1>1, <1>2, <1>4, <2>1, <2>2, OneProcessTypes
  <2> QED  BY <1>1, <1>5, <2>1, <2>3, PassKeeps
<1>6. CASE Pass(c, empty) /\ UNCHANGED proc
  <2>1. ProcessTypes' /\ empty \in Nat \cup {null}
    BY <1>1, <1>2, <1>6 DEF ProcessTypes, empty
  <2> QED  BY <1>1, <1>6, <2>1, PassKeeps
<1> QED  BY <1>5, <1>6 DEF Join

\* A value written moves from the one stream to the other.
LEMMA MoveKeeps ==
  ASSUME NEW cl, NEW u, NEW d \in Seq(Half), NEW o \in Seq(Half), o # <<>>, NEW e,
         TakesTurns(cl, "read", u, d, o, e)
  PROVE  TakesTurns(cl, "read", u, Append(d, Head(o)), Tail(o), e)
<1> DEFINE x == Head(o)
           v == Tail(o)
           w == Append(d, x)
<1>1. /\ x \in Half /\ x = o[1] /\ 1 \in DOMAIN o /\ v \in Seq(Half) /\ RestOf(o, v)
      /\ Len(v) = Len(o) - 1 /\ \A i \in 1 .. Len(o) - 1 : v[i] = o[i + 1]
  BY TailRest
<1> HIDE DEF x, v
<1>2. /\ (Quiet(o) => Quiet(v)) /\ (MarkLast(o) => MarkLast(v))
  BY <1>1, RestKeeps
<1>3. Quiet(o) => Idle(x)
  BY <1>1 DEF Quiet
<1>4. /\ Quiet(d) /\ Idle(x) => Quiet(w)
      /\ Unmarked(d) /\ ~ Mark(x) => Unmarked(w)
      /\ MarkLast(d) /\ (Idle(x) \/ Unmarked(d)) => MarkLast(w)
  BY <1>1, AppendKeeps
<1>5. MarkLast(o) /\ Mark(x) => Quiet(v)
  <2> SUFFICES ASSUME MarkLast(o), Mark(x), NEW i \in DOMAIN v PROVE Idle(v[i])
    BY DEF Quiet
  <2>1. i + 1 \in DOMAIN o /\ v[i] = o[i + 1] /\ 1 < i + 1
    BY <1>1
  <2> QED  BY <1>1, <2>1 DEF MarkLast
<1> HIDE DEF w
<1>6. MarkLast(d) /\ MarkLast(o) /\ (Quiet(o) \/ Unmarked(d))
  BY DEF TakesTurns
<1>7. MarkLast(w) /\ MarkLast(v) /\ (Quiet(v) \/ Unmarked(w))
  BY <1>2, <1>3, <1>4, <1>5, <1>6
<1>8. Quiet(d) /\ Quiet(o) => Quiet(w) /\ Quiet(v)
  BY <1>2, <1>3, <1>4
<1>9. TakesTurns(cl, "read", u, w, v, e)
  BY <1>7, <1>8 DEF TakesTurns
<1> QED  BY <1>9 DEF w, v, x

\* The thread writes half a line.
LEMMA WriteKeeps ==
  ASSUME ServerInv, NEW c \in Conns, Write(c)
  PROVE  ServerInv'
<1>1. /\ out[c] # <<>> /\ thread[c] = "read"
      /\ UNCHANGED <<cvars, up, opts, filter, stage, text, conf, stamp, proc, evars, file>>
  BY DEF Write
<1>2. /\ TakesTurns(client[c], "read", up[c], down[c], out[c], errq[c])
      /\ AtStage("read", stage[c], opts[c])
      /\ Begun(client[c], "read", up[c], stamp[c], proc[c])
  BY <1>1 DEF ServerInv, InOrder
<1>3. down[c] \in Seq(Half) /\ out[c] \in Seq(Half)
  BY TypesOf DEF ServerInv
<1>4. /\ Head(out[c]) \in Half /\ Tail(out[c]) \in Seq(Half)
      /\ Append(down[c], Head(out[c])) \in Seq(Half)
  BY <1>1, <1>3, TailRest, AppendProperties
<1>5. ClientTypes' /\ ProcessTypes'
  BY <1>1 DEF ServerInv, Types, ClientTypes, ProcessTypes, cvars
<1>6. CASE /\ down' = [down EXCEPT ![c] = Append(@, Head(out[c]))]
           /\ out' = [out EXCEPT ![c] = Tail(@)] /\ UNCHANGED thread
  <2>1. Types'
    <3>1. StreamTypes'
      BY <1>1, <1>4, <1>6 DEF ServerInv, Types, StreamTypes, evars
    <3>2. ThreadTypes'
      BY <1>1, <1>6 DEF ServerInv, Types, ThreadTypes
    <3> QED  BY <1>5, <3>1, <3>2 DEF Types
  <2>2. OthersKeep(c)
    BY <1>1, <1>6 DEF OthersKeep, ServerInv, Types, StreamTypes, cvars, evars
  <2>3. /\ client'[c] = client[c] /\ thread'[c] = "read" /\ up'[c] = up[c]
        /\ down'[c] = Append(down[c], Head(out[c])) /\ out'[c] = Tail(out[c])
        /\ errq'[c] = errq[c] /\ stage'[c] = stage[c] /\ opts'[c] = opts[c]
        /\ stamp'[c] = stamp[c] /\ proc'[c] = proc[c]
    BY <1>1, <1>6 DEF ServerInv, Types, StreamTypes, cvars, evars
  <2>4. TakesTurns(client[c], "read", up[c], Append(down[c], Head(out[c])), Tail(out[c]), errq[c])
    BY <1>1, <1>2, <1>3, MoveKeeps
  <2>5. InOrder(c)'
    BY <1>2, <2>3, <2>4 DEF InOrder
  <2> QED  BY <2>1, <2>2, <2>5, StepKeeps
<1>7. CASE /\ out' = [out EXCEPT ![c] = <<>>] /\ UNCHANGED down
           /\ UNCHANGED thread \/ thread' = [thread EXCEPT ![c] = "failed"]
  <2>1. PICK th \in {"read", "failed"} : thread' = [thread EXCEPT ![c] = th]
    <3>1. thread = [thread EXCEPT ![c] = "read"]
      BY <1>1 DEF ServerInv, Types, ThreadTypes
    <3> QED  BY <1>7, <3>1
  <2>2. Types'
    <3>1. <<>> \in Seq(Half)
      OBVIOUS
    <3>2. StreamTypes'
      BY <1>1, <1>7, <3>1 DEF ServerInv, Types, StreamTypes, evars
    <3>3. ThreadTypes'
      BY <1>1, <2>1 DEF ServerInv, Types, ThreadTypes
    <3> QED  BY <1>5, <3>2, <3>3 DEF Types
  <2>3. OthersKeep(c)
    BY <1>1, <1>7, <2>1 DEF OthersKeep, ServerInv, Types, StreamTypes, ThreadTypes, cvars, evars
  <2>4. /\ client'[c] = client[c] /\ thread'[c] = th /\ up'[c] = up[c]
        /\ down'[c] = down[c] /\ out'[c] = <<>> /\ errq'[c] = errq[c]
        /\ stage'[c] = stage[c] /\ opts'[c] = opts[c]
        /\ stamp'[c] = stamp[c] /\ proc'[c] = proc[c]
    BY <1>1, <1>7, <2>1 DEF ServerInv, Types, StreamTypes, ThreadTypes, cvars, evars
  <2>5. TakesTurns(client[c], th, up[c], down[c], <<>>, errq[c])
    BY <1>2 DEF TakesTurns, Quiet, MarkLast
  <2>6. AtStage(th, stage[c], opts[c])
    BY <1>2 DEF AtStage
  <2>7. Begun(client[c], th, up[c], stamp[c], proc[c])
    BY <1>2, BegunStays
  <2>8. InOrder(c)'
    BY <2>4, <2>5, <2>6, <2>7 DEF InOrder
  <2> QED  BY <2>2, <2>3, <2>8, StepKeeps
<1> QED  BY <1>6, <1>7 DEF Write

-----------------------------------------------------------------------------
(* The processes and their error output.                                   *)

\* A process that is not there does nothing; so the connection has begun.
LEMMA ProcessKeeps ==
  ASSUME ServerInv, NEW c \in Conns, NEW r \in Roles, NEW p \in Process,
         proc[c][r].st # "none", OneProcess(c, r, p),
         UNCHANGED <<cvars, up, down, tvars, out, evars, file>>
  PROVE  ServerInv'
<1>1. /\ TakesTurns(client[c], thread[c], up[c], down[c], out[c], errq[c])
      /\ AtStage(thread[c], stage[c], opts[c])
      /\ Begun(client[c], thread[c], up[c], stamp[c], proc[c])
  BY DEF ServerInv, InOrder
<1>2. ProcessTypes' /\ \A d \in Conns \ {c} : proc'[d] = proc[d]
  BY OneProcessTypes DEF ServerInv, Types
<1>3. ClientTypes' /\ StreamTypes' /\ ThreadTypes'
  BY DEF ServerInv, Types, ClientTypes, StreamTypes, ThreadTypes, cvars, tvars, evars
<1>4. OthersKeep(c)
  BY <1>2 DEF OthersKeep, cvars, tvars, evars
<1>5. Begun(client[c], thread[c], up[c], stamp[c], proc'[c])
  BY <1>1 DEF Begun, NoProcess
<1>6. InOrder(c)'
  BY <1>1, <1>5 DEF InOrder, cvars, tvars, evars
<1> QED  BY <1>2, <1>3, <1>4, <1>6, StepKeeps DEF Types

LEMMA ProcessesKeep ==
  ASSUME ServerInv, NEW c \in Conns, Processes(c)
  PROVE  ServerInv'
<1>1. PICK r \in Roles : Boot(c, r) \/ Answer(c, r)
  BY DEF Processes
<1>2. /\ proc[c] \in [Roles -> Process] /\ proc[c][r] \in Process
      /\ file \in [Stamps -> {unread} \cup (Conns \X Nat)]
  BY TypesOf DEF ServerInv, Types, ProcessTypes
<1>3. CASE Boot(c, r)
  <2>1. /\ proc[c][r].st # "none" /\ UNCHANGED <<cvars, up, down, tvars, out, evars, file>>
    BY <1>3 DEF Boot, Alive
  <2>2. stamp[c] \in Stamps
    BY <2>1 DEF ServerInv, InOrder, Begun, NoProcess
  <2> DEFINE p == IF file[stamp[c]] # unread
                  THEN [proc[c][r] EXCEPT !.cfg = file[stamp[c]]]
                  ELSE [proc[c][r] EXCEPT !.st = "dead"]
  <2>3. p \in Process
    BY <1>2, <2>2 DEF Process
  <2>4. OneProcess(c, r, p)
    BY <1>3 DEF Boot, OneProcess
  <2> HIDE DEF p
  <2> QED  BY <2>1, <2>3, <2>4, ProcessKeeps
<1>4. CASE Answer(c, r)
  <2>1. PICK st \in {"said", "dead"} : proc' = [proc EXCEPT ![c][r].st = st]
    BY <1>4 DEF Answer
  <2>2. proc[c][r].st # "none" /\ UNCHANGED <<cvars, up, down, tvars, out, evars, file>>
    BY <1>4 DEF Answer
  <2> DEFINE p == [proc[c][r] EXCEPT !.st = st]
  <2>3. p \in Process
    BY <1>2 DEF Process
  <2>4. OneProcess(c, r, p)
    BY <2>1 DEF OneProcess
  <2> HIDE DEF p
  <2> QED  BY <2>2, <2>3, <2>4, ProcessKeeps
<1> QED  BY <1>1, <1>3, <1>4

\* A line of error output is queued for the client.
LEMMA ComplainKeeps ==
  ASSUME ServerInv, NEW c \in Conns, Complain(c)
  PROVE  ServerInv'
<1>1. /\ errs' = [errs EXCEPT ![c] = @ + 1]
      /\ errq' = [errq EXCEPT ![c] = @ \o Line("err", errs[c] + 1)]
      /\ UNCHANGED <<cvars, up, down, tvars, out, proc, file>>
  BY DEF Complain
<1>2. errs[c] \in Nat /\ errq[c] \in Seq(Half)
  BY TypesOf DEF ServerInv
<1> DEFINE l == Line("err", errs[c] + 1)
           q == errq[c] \o l
<1>3. l \in Seq(Half) /\ \A i \in DOMAIN l : l[i].kind = "err"
  <2>1. "err" \in {"ready", "end", "nullend", "text", "err"} /\ errs[c] + 1 \in Nat
    BY <1>2
  <2> QED  BY <2>1, LineIs, Zenon
<1> HIDE DEF l
<1>4. /\ q \in Seq(Half) /\ Len(q) = Len(errq[c]) + Len(l)
      /\ \A i \in 1 .. Len(errq[c]) + Len(l) :
           q[i] = IF i <= Len(errq[c]) THEN errq[c][i] ELSE l[i - Len(errq[c])]
  BY <1>2, <1>3, ConcatProperties
<1>5. /\ TakesTurns(client[c], thread[c], up[c], down[c], out[c], errq[c])
      /\ AtStage(thread[c], stage[c], opts[c])
      /\ Begun(client[c], thread[c], up[c], stamp[c], proc[c])
  BY DEF ServerInv, InOrder
<1> HIDE DEF q
<1>6. ASSUME NEW i \in DOMAIN q
      PROVE  q[i].kind = "err"
  <2>1. i \in 1 .. Len(errq[c]) + Len(l) /\ Len(errq[c]) \in Nat /\ Len(l) \in Nat
    BY <1>2, <1>3, <1>4
  <2>2. CASE i <= Len(errq[c])
    <3>1. i \in DOMAIN errq[c] /\ q[i] = errq[c][i]
      BY <1>2, <1>4, <2>1, <2>2
    <3> QED  BY <1>5, <3>1 DEF TakesTurns
  <2>3. CASE ~ (i <= Len(errq[c]))
    <3>1. i - Len(errq[c]) \in DOMAIN l /\ q[i] = l[i - Len(errq[c])]
      BY <1>3, <1>4, <2>1, <2>3
    <3> QED  BY <1>3, <3>1
  <2> QED  BY <2>2, <2>3
<1>7. TakesTurns(client[c], thread[c], up[c], down[c], out[c], q)
  BY <1>5, <1>6 DEF TakesTurns
<1>8. errq' = [errq EXCEPT ![c] = q]
  BY <1>1 DEF q, l
<1>9. Types'
  <2>1. StreamTypes'
    <3>1. StreamTypes
      BY DEF ServerInv, Types
    <3>2. errs' \in [Conns -> Nat]
      <4>1. errs[c] + 1 \in Nat  BY <1>2
      <4> QED  BY <1>1, <3>1, <4>1 DEF StreamTypes
    <3>3. errq' \in [Conns -> Seq(Half)]
      BY <1>4, <1>8, <3>1 DEF StreamTypes
    <3> QED  BY <1>1, <3>1, <3>2, <3>3 DEF StreamTypes
  <2>2. ClientTypes' /\ ThreadTypes' /\ ProcessTypes'
    BY <1>1 DEF ServerInv, Types, ClientTypes, ThreadTypes, ProcessTypes, cvars, tvars
  <2> QED  BY <2>1, <2>2 DEF Types
<1>10. OthersKeep(c)
  BY <1>1, <1>8 DEF OthersKeep, ServerInv, Types, StreamTypes, cvars, tvars
<1>11. errq'[c] = q
  BY <1>8 DEF ServerInv, Types, StreamTypes
<1>12. InOrder(c)'
  BY <1>1, <1>5, <1>7, <1>11 DEF InOrder, cvars, tvars
<1> QED  BY <1>9, <1>10, <1>12, StepKeeps

\* Half a line of error output comes between whatever the thread writes.
LEMMA CopyKeeps ==
  ASSUME NEW cl, NEW th, NEW u, NEW d \in Seq(Half), NEW o, NEW e \in Seq(Half), e # <<>>,
         TakesTurns(cl, th, u, d, o, e)
  PROVE  /\ TakesTurns(cl, th, u, Append(d, Head(e)), o, Tail(e))
         /\ TakesTurns(cl, th, u, d, o, Tail(e))
<1> DEFINE x == Head(e)
           v == Tail(e)
           w == Append(d, x)
<1>1. /\ x \in Half /\ x = e[1] /\ 1 \in DOMAIN e /\ v \in Seq(Half)
      /\ Len(v) = Len(e) - 1 /\ \A i \in 1 .. Len(e) - 1 : v[i] = e[i + 1]
  BY TailRest
<1> HIDE DEF x, v
<1>2. x.kind = "err" /\ Idle(x) /\ ~ Mark(x)
  BY <1>1 DEF TakesTurns, Idle, Mark
<1>3. \A i \in DOMAIN v : v[i].kind = "err"
  <2> SUFFICES ASSUME NEW i \in DOMAIN v PROVE v[i].kind = "err"
    OBVIOUS
  <2>1. i + 1 \in DOMAIN e /\ v[i] = e[i + 1]
    BY <1>1
  <2> QED  BY <2>1 DEF TakesTurns
<1>4. /\ (Quiet(d) => Quiet(w)) /\ (Unmarked(d) => Unmarked(w))
      /\ (MarkLast(d) => MarkLast(w))
  BY <1>1, <1>2, AppendKeeps
<1> HIDE DEF w
<1>5. TakesTurns(cl, th, u, w, o, v)
  BY <1>3, <1>4 DEF TakesTurns
<1>6. TakesTurns(cl, th, u, d, o, v)
  BY <1>3 DEF TakesTurns
<1> QED  BY <1>5, <1>6 DEF w, v, x

LEMMA CopyErrorKeeps ==
  ASSUME ServerInv, NEW c \in Conns, CopyError(c)
  PROVE  ServerInv'
<1>1. /\ errq[c] # <<>> /\ errq' = [errq EXCEPT ![c] = Tail(@)]
      /\ UNCHANGED <<cvars, up, tvars, out, proc, errs, file>>
  BY DEF CopyError
<1>2. errq[c] \in Seq(Half) /\ down[c] \in Seq(Half)
  BY TypesOf DEF ServerInv
<1>3. Head(errq[c]) \in Half /\ Tail(errq[c]) \in Seq(Half)
  BY <1>1, <1>2, TailRest
<1>4. /\ TakesTurns(client[c], thread[c], up[c], down[c], out[c], errq[c])
      /\ AtStage(thread[c], stage[c], opts[c])
      /\ Begun(client[c], thread[c], up[c], stamp[c], proc[c])
  BY DEF ServerInv, InOrder
<1>5. PICK w \in {down[c], Append(down[c], Head(errq[c]))} : down' = [down EXCEPT ![c] = w]
  <2>1. down = [down EXCEPT ![c] = down[c]]
    BY DEF ServerInv, Types, StreamTypes
  <2> QED  BY <2>1 DEF CopyError
<1>6. w \in Seq(Half)
  <2>1. Append(down[c], Head(errq[c])) \in Seq(Half)
    BY <1>2, <1>3, AppendProperties, Zenon
  <2> QED  BY <1>2, <1>5, <2>1
<1>7. TakesTurns(client[c], thread[c], up[c], w, out[c], Tail(errq[c]))
  BY <1>1, <1>2, <1>4, <1>5, CopyKeeps
<1>8. Types'
  <2>1. StreamTypes'
    BY <1>1, <1>3, <1>5, <1>6 DEF ServerInv, Types, StreamTypes
  <2>2. ClientTypes' /\ ThreadTypes' /\ ProcessTypes'
    BY <1>1 DEF ServerInv, Types, ClientTypes, ThreadTypes, ProcessTypes, cvars, tvars
  <2> QED  BY <2>1, <2>2 DEF Types
<1>9. OthersKeep(c)
  BY <1>1, <1>5 DEF OthersKeep, ServerInv, Types, StreamTypes, cvars, tvars
<1>10. down'[c] = w /\ errq'[c] = Tail(errq[c])
  BY <1>1, <1>5 DEF ServerInv, Types, StreamTypes
<1>11. InOrder(c)'
  BY <1>1, <1>4, <1>7, <1>10 DEF InOrder, cvars, tvars
<1> QED  BY <1>8, <1>9, <1>11, StepKeeps

-----------------------------------------------------------------------------
\* The server starts in order.
LEMMA ServerInit ==
  ASSUME Init
  PROVE  ServerInv
<1>1. NoProcess \in Process
  BY DEF NoProcess, Process, unread
<1>2. Types
  <2>1. <<>> \in Seq(Half) /\ <<>> \in Seq(Message)
    OBVIOUS
  <2>2. ClientTypes
    BY <2>1, ServerAssumption DEF Init, ClientTypes
  <2>3. StreamTypes
    BY <2>1 DEF Init, StreamTypes
  <2>4. ThreadTypes
    BY DEF Init, ThreadTypes, NoOptions, empty
  <2>5. ProcessTypes
    BY <1>1 DEF Init, ProcessTypes
  <2> QED  BY <2>2, <2>3, <2>4, <2>5 DEF Types
<1>3. ASSUME NEW c \in Conns PROVE InOrder(c)
  <2>1. /\ client[c] = "away" /\ thread[c] = "none" /\ up[c] = <<>> /\ down[c] = <<>>
        /\ out[c] = <<>> /\ errq[c] = <<>> /\ stage[c] = 0
        /\ \A r \in Roles : proc[c][r] = NoProcess
    BY DEF Init
  <2>2. TakesTurns("away", "none", <<>>, <<>>, <<>>, <<>>)
    BY DEF TakesTurns, Quiet, MarkLast
  <2>3. AtStage("none", 0, opts[c]) /\ Begun("away", "none", <<>>, stamp[c], proc[c])
    BY <2>1 DEF AtStage, Begun
  <2> QED  BY <2>1, <2>2, <2>3 DEF InOrder
<1> QED  BY <1>2, <1>3 DEF ServerInv

\* Every operation leaves it in order.
LEMMA ServerNext ==
  ASSUME ServerInv, [Next]_vars
  PROVE  ServerInv'
<1>1. CASE Next
  <2>1. PICK c \in Conns :
          \/ Connect(c) \/ SendPreferences(c) \/ Ask(c) \/ Disconnect(c)
          \/ ReadReady(c) \/ ReadLine(c)
          \/ Accept(c) \/ Thread(c)
          \/ Processes(c) \/ Complain(c) \/ CopyError(c)
    BY <1>1 DEF Next
  <2>2. CASE Thread(c)
    BY <2>2, PreferencesKeep, ParseKeeps, DoneKeeps, FeedKeeps, JoinKeeps, WriteKeeps DEF Thread
  <2> QED  BY <2>1, <2>2, ConnectKeeps, ClientSendsKeeps, ClientReadsKeeps, AcceptKeeps,
              ProcessesKeep, ComplainKeeps, CopyErrorKeeps
<1>2. CASE UNCHANGED vars
  <2>1. Types'
    BY <1>2 DEF vars, cvars, tvars, evars, ServerInv, Types, ClientTypes, StreamTypes,
                ThreadTypes, ProcessTypes
  <2>2. \A c \in Conns : InOrder(c)'
    BY <1>2 DEF vars, cvars, tvars, evars, ServerInv, InOrder
  <2> QED  BY <2>1, <2>2 DEF ServerInv
<1> QED  BY <1>1, <1>2

\* Each connection has its pipeline, streams and files, and its thread is at a
\* stage of the pipeline just when it feeds a process (Parser.parse).
THEOREM ServerTypes == Spec => []TypeOK
<1>1. Init => ServerInv
  BY ServerInit
<1>2. ServerInv /\ [Next]_vars => ServerInv'
  BY ServerNext
<1>3. ServerInv => TypeOK
  <2> SUFFICES ASSUME ServerInv, NEW c \in Conns
               PROVE  /\ client[c] \in {"away", "config", "wait", "idle", "gone"}
                      /\ thread[c] \in {"none", "first", "read", "feed", "join", "over", "failed"}
                      /\ {down[c], out[c], reply[c], errq[c]} \subseteq Seq(Half)
                      /\ opts[c] \in Options \cup {[nbest |-> FALSE, unify |-> FALSE]}
                      /\ IF thread[c] \in {"feed", "join"} THEN stage[c] \in DOMAIN Pipeline(opts[c])
                         ELSE stage[c] = 0
                      /\ proc[c] \in [Roles -> Process]
    BY DEF TypeOK
  <2>1. AtStage(thread[c], stage[c], opts[c])
    BY DEF ServerInv, InOrder
  <2>2. Types
    BY DEF ServerInv
  <2> QED  BY <2>1, <2>2, TypesOf DEF AtStage, NoOptions
<1> QED  BY <1>1, <1>2, <1>3, PTL DEF Spec

\* However many sentences a client sends, and whatever error output comes in
\* between, nothing of a reply is on its way to a client that does not wait for
\* one (sendAndReceive and Connection.run).
THEOREM InLockstep == Spec => []Lockstep
<1>1. Init => ServerInv
  BY ServerInit
<1>2. ServerInv /\ [Next]_vars => ServerInv'
  BY ServerNext
<1>3. ServerInv => Lockstep
  <2> SUFFICES ASSUME ServerInv, NEW c \in Conns, client[c] # "wait"
               PROVE  /\ thread[c] \notin {"feed", "join"}
                      /\ \A i \in DOMAIN (down[c] \o out[c]) :
                           (down[c] \o out[c])[i].kind \in {"ready", "err"}
    BY DEF Lockstep
  <2>1. TakesTurns(client[c], thread[c], up[c], down[c], out[c], errq[c])
    BY DEF ServerInv, InOrder
  <2>2. thread[c] \notin {"feed", "join"} /\ Quiet(down[c]) /\ Quiet(out[c])
    BY <2>1 DEF TakesTurns
  <2>3. down[c] \in Seq(Half) /\ out[c] \in Seq(Half)
    BY TypesOf DEF ServerInv
  <2>4. Quiet(down[c] \o out[c])
    BY <2>2, <2>3, QuietJoin
  <2> QED  BY <2>2, <2>4 DEF Quiet, Idle
<1> QED  BY <1>1, <1>2, <1>3, PTL DEF Spec

-----------------------------------------------------------------------------
(* Whose preferences a process has read.                                   *)

\* Another connection shares the name of c's file.
Shared(c) == \E d \in Conns \ {c} : thread[d] # "none" /\ stamp[d] = stamp[c]

\* Only the process that the thread waits for has a sentence.
OneWorks(th, o, s, ps) ==
  \A r \in Roles : ps[r].st \in {"busy", "said"} => th = "join" /\ r = Pipeline(o)[s]

\* A process that has answered has read its preferences.
HasRead(ps) == \A r \in Readers : ps[r].st = "said" => ps[r].cfg # unread

\* The file f is the one of the configuration id, and the pipeline has read no
\* other.
Own(o, ps, f, id) ==
  /\ f = id
  /\ \A i \in DOMAIN Pipeline(o) :
       /\ Pipeline(o)[i] \in Readers /\ Alive(ps[Pipeline(o)[i]])
       /\ ps[Pipeline(o)[i]].cfg # unread
       => ps[Pipeline(o)[i]].cfg = id

\* The pipeline has not been started: nothing gets as far as a process.
Unfed(th, o, s, x, ps) ==
  /\ ~ Alive(ps[Pipeline(o)[1]])
  /\ th # "join" /\ (th = "feed" => s = 1 \/ x = null)

PrefsOf(c) ==
  /\ thread[c] \in {"none", "first"} => \A r \in Roles : proc[c][r] = NoProcess
  /\ OneWorks(thread[c], opts[c], stage[c], proc[c]) /\ HasRead(proc[c])
  /\ thread[c] \in {"read", "feed", "join"} =>
       \/ Shared(c)
       \/ Own(opts[c], proc[c], file[stamp[c]], <<c, conf[c]>>)
       \/ Unfed(thread[c], opts[c], stage[c], text[c], proc[c])

PrefsInv == \A c \in Conns : PrefsOf(c)

\* What the others of a step's connection have to fear: c, once accepted, keeps
\* its stamp, and writes no file but its own.
LEMMA OthersPrefs ==
  ASSUME ServerInv, PrefsInv, NEW c \in Conns, ServerInv', PrefsOf(c)',
         \A d \in Conns \ {c} :
           /\ thread'[d] = thread[d] /\ opts'[d] = opts[d] /\ stage'[d] = stage[d]
           /\ text'[d] = text[d] /\ conf'[d] = conf[d] /\ stamp'[d] = stamp[d]
           /\ proc'[d] = proc[d],
         thread[c] # "none" => thread'[c] # "none" /\ stamp'[c] = stamp[c],
         \/ file' = file
         \/ thread[c] # "none" /\ \E id \in {unread} \cup (Conns \X Nat) :
                                    file' = [file EXCEPT ![stamp[c]] = id]
  PROVE  PrefsInv'
<1>1. ASSUME NEW d \in Conns \ {c} PROVE PrefsOf(d)'
  <2>1. /\ thread'[d] = thread[d] /\ opts'[d] = opts[d] /\ stage'[d] = stage[d]
        /\ text'[d] = text[d] /\ conf'[d] = conf[d] /\ stamp'[d] = stamp[d]
        /\ proc'[d] = proc[d]
    OBVIOUS
  <2>2. PrefsOf(d)
    BY DEF PrefsInv
  <2>3. Shared(d) => Shared(d)'
    <3>1. ASSUME NEW e \in Conns \ {d}, thread[e] # "none", stamp[e] = stamp[d]
          PROVE  thread'[e] # "none" /\ stamp'[e] = stamp'[d]
      BY <2>1, <3>1
    <3> QED  BY <3>1 DEF Shared
  <2>4. thread[d] \in {"read", "feed", "join"} => Shared(d)' \/ file'[stamp[d]] = file[stamp[d]]
    <3>1. CASE file' = file
      BY <3>1
    <3>2. CASE thread[c] # "none" /\ stamp[c] = stamp[d]
      BY <3>2, <2>1 DEF Shared
    <3>3. ASSUME thread[c] # "none", stamp[c] # stamp[d], thread[d] \in {"read", "feed", "join"},
                 NEW id \in {unread} \cup (Conns \X Nat), file' = [file EXCEPT ![stamp[c]] = id]
          PROVE  file'[stamp[d]] = file[stamp[d]]
      <4>1. stamp[d] \in Stamps
        BY <3>3 DEF ServerInv, InOrder, Begun
      <4>2. file \in [Stamps -> {unread} \cup (Conns \X Nat)]
        BY DEF ServerInv, Types, ProcessTypes
      <4> QED  BY <3>3, <4>1, <4>2
    <3> QED  BY <3>1, <3>2, <3>3
  <2> QED  BY <2>1, <2>2, <2>3, <2>4 DEF PrefsOf
<1> QED  BY <1>1 DEF PrefsInv

\* Where neither threads nor processes nor files change.
LEMMA QuietPrefs ==
  ASSUME PrefsInv, UNCHANGED <<tvars, proc, file>>
  PROVE  PrefsInv'
BY DEF PrefsInv, PrefsOf, Shared, tvars

LEMMA AcceptPrefs ==
  ASSUME ServerInv, PrefsInv, ServerInv', NEW c \in Conns, Accept(c)
  PROVE  PrefsInv'
<1>1. PICK t \in Stamps : stamp' = [stamp EXCEPT ![c] = t]
  BY DEF Accept
<1>2. /\ thread[c] = "none" /\ thread' = [thread EXCEPT ![c] = "first"]
      /\ UNCHANGED <<opts, stage, text, conf, proc, file>>
  BY DEF Accept
<1>3. /\ thread' [c] = "first"
      /\ \A d \in Conns \ {c} : thread'[d] = thread[d] /\ stamp'[d] = stamp[d]
  BY <1>1, <1>2 DEF ServerInv, Types, ThreadTypes
<1>4. PrefsOf(c)
  BY DEF PrefsInv
<1>5. OneWorks("first", opts[c], stage[c], proc[c])
  BY <1>2, <1>4 DEF PrefsOf, OneWorks
<1>6. PrefsOf(c)'
  BY <1>2, <1>3, <1>4, <1>5 DEF PrefsOf
<1> QED  BY <1>2, <1>3, <1>6, OthersPrefs

\* The pipeline begins with a process that killAll kills.
LEMMA FirstRole ==
  ASSUME NEW o
  PROVE  /\ 1 \in DOMAIN Pipeline(o) /\ Pipeline(o)[1] \in Roles \ {"nbest"}
         /\ \A i \in DOMAIN Pipeline(o) : Pipeline(o)[i] \in Roles
<1>1. {"parser", "nbest", "synget", "delete", "checker", "featproc"} = Roles
  BY DEF Roles
<1>2. Pipeline(o) \in {<<"synget", "delete", "nbest">>, <<"parser", "checker", "featproc">>, <<"parser">>}
  BY DEF Pipeline
<1> QED  BY <1>1, <1>2

\* What reads the preferences in a pipeline is started with it.
LEMMA ReadersStarted ==
  ASSUME NEW o, NEW f, o.nbest => f, NEW i \in DOMAIN Pipeline(o), Pipeline(o)[i] \in Readers
  PROVE  Pipeline(o)[i] \in Started(o, f)
<1>1. CASE o.nbest
  <2>1. Pipeline(o) = <<"synget", "delete", "nbest">>
    BY <1>1 DEF Pipeline
  <2>2. "nbest" \in Started(o, f) /\ "synget" \in Started(o, f)
    BY <1>1 DEF Started
  <2> QED  BY <2>1, <2>2 DEF Readers
<1>2. CASE ~ o.nbest
  <2>1. Pipeline(o) \in {<<"parser", "checker", "featproc">>, <<"parser">>}
    BY <1>2 DEF Pipeline
  <2>2. "parser" \in Started(o, f)
    BY <1>2 DEF Started
  <2> QED  BY <2>1, <2>2 DEF Readers
<1> QED  BY <1>1, <1>2

\* New processes have read nothing, and the file is new.
LEMMA ConfiguredOwn ==
  ASSUME Types, NEW c \in Conns, stamp[c] \in Stamps, NEW o,
         NEW ps \in [Roles -> Process], Configured(c, o, ps), SetOptions(c, o),
         conf' = [conf EXCEPT ![c] = @ + 1], stamp' = stamp,
         \A r \in Roles : ps[r].st \notin {"busy", "said"}
  PROVE  /\ Own(opts'[c], proc'[c], file'[stamp'[c]], <<c, conf'[c]>>)
         /\ \A r \in Roles : proc'[c][r].st \notin {"busy", "said"}
<1> DEFINE f == filter[c] \/ o.nbest
           new == Fresh(ps, Started(o, f))
<1>1. /\ opts'[c] = o /\ proc'[c] = new /\ conf'[c] = conf[c] + 1
      /\ file'[stamp'[c]] = <<c, conf[c] + 1>>
  BY DEF Configured, SetOptions, Types, ThreadTypes, ProcessTypes
<1>2. \A r \in Roles : new[r] = IF r \in Started(o, f) THEN [NoProcess EXCEPT !.st = "up"] ELSE ps[r]
  BY DEF Fresh
<1>3. [NoProcess EXCEPT !.st = "up"].st = "up" /\ [NoProcess EXCEPT !.st = "up"].cfg = unread
  BY DEF NoProcess
<1>4. \A i \in DOMAIN Pipeline(o) :
        /\ Pipeline(o)[i] \in Roles
        /\ Pipeline(o)[i] \in Readers => Pipeline(o)[i] \in Started(o, f)
  BY FirstRole, ReadersStarted
<1> HIDE DEF new
<1>5. Own(o, new, <<c, conf[c] + 1>>, <<c, conf[c] + 1>>)
  BY <1>2, <1>3, <1>4 DEF Own
<1> QED  BY <1>1, <1>2, <1>3, <1>5

LEMMA FirstPrefs ==
  ASSUME ServerInv, PrefsInv, ServerInv', NEW c \in Conns, First(c)
  PROVE  PrefsInv'
<1> DEFINE o == Head(up[c]).o
<1>1. /\ thread[c] = "first" /\ thread' = [thread EXCEPT ![c] = "read"]
      /\ conf' = [conf EXCEPT ![c] = @ + 1] /\ UNCHANGED <<stage, text, stamp>>
      /\ \/ Configured(c, o, proc[c]) /\ SetOptions(c, o)
         \/ NotWritten(c, proc[c]) /\ UNCHANGED <<opts, filter>>
  BY DEF First
<1> HIDE DEF o
<1>2. /\ thread'[c] = "read" /\ stamp[c] \in Stamps
      /\ \A d \in Conns \ {c} : thread'[d] = thread[d] /\ conf'[d] = conf[d]
  BY <1>1 DEF ServerInv, Types, ThreadTypes, InOrder, Begun
<1>3. proc[c] \in [Roles -> Process] /\ conf[c] \in Nat /\ Types
  BY TypesOf DEF ServerInv
<1>4. \A r \in Roles : proc[c][r] = NoProcess
  BY <1>1 DEF PrefsInv, PrefsOf
<1>5. \A r \in Roles : proc[c][r].st = "none"
  BY <1>4 DEF NoProcess
<1>6. CASE Configured(c, o, proc[c]) /\ SetOptions(c, o)
  <2>1. /\ Own(opts'[c], proc'[c], file'[stamp'[c]], <<c, conf'[c]>>)
        /\ \A r \in Roles : proc'[c][r].st \notin {"busy", "said"}
    BY <1>1, <1>2, <1>3, <1>5, <1>6, ConfiguredOwn
  <2>2. PrefsOf(c)'
    BY <1>2, <2>1 DEF PrefsOf, OneWorks, HasRead, Readers, Roles
  <2>3. \A d \in Conns \ {c} : opts'[d] = opts[d] /\ proc'[d] = proc[d]
    BY <1>6 DEF Configured, SetOptions, ServerInv, Types, ThreadTypes, ProcessTypes
  <2>4. /\ <<c, conf[c] + 1>> \in Conns \X Nat
        /\ file' = [file EXCEPT ![stamp[c]] = <<c, conf[c] + 1>>]
    BY <1>3, <1>6 DEF Configured
  <2> QED  BY <1>1, <1>2, <2>2, <2>3, <2>4, OthersPrefs
<1>7. CASE NotWritten(c, proc[c]) /\ UNCHANGED <<opts, filter>>
  <2>1. proc' = proc /\ file' = file
    BY <1>7 DEF NotWritten, ServerInv, Types, ProcessTypes
  <2>2. ~ Alive(proc[c][Pipeline(opts[c])[1]])
    BY <1>5, FirstRole DEF Alive
  <2>3. Unfed("read", opts[c], stage[c], text[c], proc[c])
    BY <2>2 DEF Unfed
  <2>4. PrefsOf(c)'
    BY <1>1, <1>2, <1>5, <1>7, <2>1, <2>3 DEF PrefsOf, OneWorks, HasRead, Readers, Roles
  <2> QED  BY <1>1, <1>2, <1>7, <2>1, <2>4, OthersPrefs
<1> QED  BY <1>1, <1>6, <1>7

LEMMA ReconfigurePrefs ==
  ASSUME ServerInv, PrefsInv, ServerInv', NEW c \in Conns, Reconfigure(c)
  PROVE  PrefsInv'
<1> DEFINE o == Head(up[c]).o
           ps == Killed(proc[c])
<1>1. /\ thread[c] = "read" /\ UNCHANGED <<thread, stage, text, stamp>>
      /\ conf' = [conf EXCEPT ![c] = @ + 1] /\ SetOptions(c, o)
      /\ Configured(c, o, ps) \/ NotWritten(c, ps)
  BY DEF Reconfigure, Reads
<1>2. /\ stamp[c] \in Stamps /\ \A d \in Conns \ {c} : conf'[d] = conf[d]
      /\ opts'[c] = o /\ \A d \in Conns \ {c} : opts'[d] = opts[d]
  BY <1>1 DEF SetOptions, ServerInv, Types, ThreadTypes, InOrder, Begun
<1>3. proc[c] \in [Roles -> Process] /\ conf[c] \in Nat /\ Types
  BY TypesOf DEF ServerInv
<1>4. ps \in [Roles -> Process]
  BY <1>3, ConfigTypes
<1>5. \A r \in Roles : proc[c][r].st \notin {"busy", "said"}
  BY <1>1 DEF PrefsInv, PrefsOf, OneWorks
<1>6. \A r \in Roles : /\ ps[r].st \notin {"busy", "said"}
                       /\ r # "nbest" => ~ Alive(ps[r])
  <2> SUFFICES ASSUME NEW r \in Roles
               PROVE  /\ ps[r].st \notin {"busy", "said"}
                      /\ r # "nbest" => ~ Alive(ps[r])
    OBVIOUS
  <2>1. ps[r] = IF r # "nbest" /\ Alive(proc[c][r]) THEN [proc[c][r] EXCEPT !.st = "dead"]
                ELSE proc[c][r]
    BY DEF Killed
  <2>2. proc[c][r] \in Process
    BY <1>3
  <2>3. [proc[c][r] EXCEPT !.st = "dead"].st = "dead"
    BY <2>2 DEF Process
  <2> QED  BY <1>5, <2>1, <2>3 DEF Alive
<1> HIDE DEF o, ps
<1>7. CASE Configured(c, o, ps)
  <2>1. /\ Own(opts'[c], proc'[c], file'[stamp'[c]], <<c, conf'[c]>>)
        /\ \A r \in Roles : proc'[c][r].st \notin {"busy", "said"}
    BY <1>1, <1>2, <1>3, <1>4, <1>6, <1>7, ConfiguredOwn
  <2>2. PrefsOf(c)'
    BY <1>1, <2>1 DEF PrefsOf, OneWorks, HasRead, Readers, Roles
  <2>3. \A d \in Conns \ {c} : proc'[d] = proc[d]
    BY <1>7 DEF Configured, ServerInv, Types, ProcessTypes
  <2>4. /\ <<c, conf[c] + 1>> \in Conns \X Nat
        /\ file' = [file EXCEPT ![stamp[c]] = <<c, conf[c] + 1>>]
    BY <1>3, <1>7 DEF Configured
  <2> QED  BY <1>1, <1>2, <2>2, <2>3, <2>4, OthersPrefs
<1>8. CASE NotWritten(c, ps)
  <2>1. /\ proc'[c] = ps /\ file' = file /\ \A d \in Conns \ {c} : proc'[d] = proc[d]
    BY <1>8 DEF NotWritten, ServerInv, Types, ProcessTypes
  <2>2. ~ Alive(ps[Pipeline(o)[1]])
    BY <1>6, FirstRole
  <2>3. Unfed("read", o, stage[c], text[c], ps)
    BY <2>2 DEF Unfed
  <2>4. PrefsOf(c)'
    BY <1>1, <1>2, <1>6, <2>1, <2>3 DEF PrefsOf, OneWorks, HasRead, Readers, Roles
  <2> QED  BY <1>1, <1>2, <2>1, <2>4, OthersPrefs
<1> QED  BY <1>1, <1>7, <1>8

\* The thread of c goes on to read, or to the first or the next stage, or stops;
\* its processes rest.
GoesOn(c, th) ==
  /\ thread' = [thread EXCEPT ![c] = th] /\ UNCHANGED <<opts, conf, stamp>>
  /\ \A d \in Conns \ {c} : stage'[d] = stage[d] /\ text'[d] = text[d] /\ proc'[d] = proc[d]
  /\ \/ file' = file
     \/ th = "over" /\ file' = [file EXCEPT ![stamp[c]] = unread]
  /\ \A r \in Roles : /\ proc'[c][r].st \notin {"busy", "said"}
                      /\ Alive(proc'[c][r]) <=> Alive(proc[c][r])
                      /\ proc'[c][r].cfg = proc[c][r].cfg
  /\ th = "feed" => \/ thread[c] = "read" /\ stage'[c] = 1
                    \/ thread[c] = "feed" /\ text'[c] = null
                    \/ thread[c] = "join"

LEMMA RestPrefs ==
  ASSUME ServerInv, PrefsInv, ServerInv', NEW c \in Conns,
         NEW th \in {"read", "feed", "over", "failed"},
         thread[c] \in {"read", "feed", "join"}, GoesOn(c, th)
  PROVE  PrefsInv'
<1>1. /\ thread'[c] = th /\ \A d \in Conns \ {c} : thread'[d] = thread[d]
  BY DEF ServerInv, Types, ThreadTypes, GoesOn
<1>2. PrefsOf(c)
  BY DEF PrefsInv
<1>3. PrefsOf(c)'
  <2> SUFFICES ASSUME th \in {"read", "feed"}
               PROVE  \/ Shared(c)'
                      \/ Own(opts[c], proc'[c], file[stamp[c]], <<c, conf[c]>>)
                      \/ Unfed(th, opts[c], stage'[c], text'[c], proc'[c])
    BY <1>1 DEF PrefsOf, OneWorks, HasRead, Readers, Roles, GoesOn
  <2>1. Shared(c) => Shared(c)'
    BY <1>1 DEF Shared, GoesOn
  <2>2. Own(opts[c], proc[c], file[stamp[c]], <<c, conf[c]>>)
        => Own(opts[c], proc'[c], file[stamp[c]], <<c, conf[c]>>)
    BY FirstRole DEF Own, GoesOn
  <2>3. Unfed(thread[c], opts[c], stage[c], text[c], proc[c])
        => Unfed(th, opts[c], stage'[c], text'[c], proc'[c])
    BY FirstRole DEF Unfed, GoesOn
  <2> QED  BY <1>2, <2>1, <2>2, <2>3 DEF PrefsOf
<1> QED  BY <1>1, <1>3, OthersPrefs DEF GoesOn

\* What Pass does to the thread.
LEMMA PassMoves ==
  ASSUME Types, NEW c \in Conns, NEW t, Pass(c, t)
  PROVE  /\ \E th \in {"read", "feed"} : /\ thread' = [thread EXCEPT ![c] = th]
                                         /\ th = "feed" => text'[c] = t
         /\ \A d \in Conns \ {c} : stage'[d] = stage[d] /\ text'[d] = text[d]
<1>1. text \in [Conns -> Nat \cup {null}] /\ stage \in [Conns -> Nat]
  BY DEF Types, ThreadTypes
<1>2. CASE /\ text' = [text EXCEPT ![c] = t] /\ stage' = [stage EXCEPT ![c] = @ + 1]
           /\ thread' = [thread EXCEPT ![c] = "feed"]
  BY <1>1, <1>2
<1>3. CASE /\ text' = [text EXCEPT ![c] = empty] /\ stage' = [stage EXCEPT ![c] = 0]
           /\ thread' = [thread EXCEPT ![c] = "read"]
  BY <1>1, <1>3
<1> QED  BY <1>2, <1>3 DEF Pass

LEMMA ThreadPrefs ==
  ASSUME ServerInv, PrefsInv, ServerInv', NEW c \in Conns, Parse(c) \/ Done(c) \/ Write(c)
  PROVE  PrefsInv'
<1>1. thread[c] = "read" /\ UNCHANGED <<opts, conf, stamp, proc>>
  BY DEF Parse, Done, Write, Reads
<1>2. \A r \in Roles : proc[c][r].st \notin {"busy", "said"}
  BY <1>1 DEF PrefsInv, PrefsOf, OneWorks
<1>3. CASE Parse(c)
  <2>1. /\ thread' = [thread EXCEPT ![c] = "feed"] /\ file' = file /\ stage'[c] = 1
        /\ \A d \in Conns \ {c} : stage'[d] = stage[d] /\ text'[d] = text[d]
    BY <1>3 DEF Parse, ServerInv, Types, ThreadTypes
  <2>2. GoesOn(c, "feed")
    BY <1>1, <1>2, <2>1 DEF GoesOn
  <2> QED  BY <1>1, <2>2, RestPrefs
<1>4. CASE Done(c)
  <2>1. /\ thread' = [thread EXCEPT ![c] = "over"] /\ UNCHANGED <<stage, text>>
        /\ file' = [file EXCEPT ![stamp[c]] = unread]
    BY <1>4 DEF Done
  <2>2. GoesOn(c, "over")
    BY <1>1, <1>2, <2>1 DEF GoesOn
  <2> QED  BY <1>1, <2>2, RestPrefs
<1>5. CASE Write(c)
  <2>1. UNCHANGED <<stage, text, file>> /\ (UNCHANGED thread \/ thread' = [thread EXCEPT ![c] = "failed"])
    BY <1>5 DEF Write
  <2>2. CASE UNCHANGED thread
    BY <1>1, <2>1, <2>2, QuietPrefs, <1>5 DEF Write, tvars
  <2>3. CASE thread' = [thread EXCEPT ![c] = "failed"]
    <3>1. GoesOn(c, "failed")
      BY <1>1, <1>2, <2>1, <2>3 DEF GoesOn
    <3> QED  BY <1>1, <3>1, RestPrefs
  <2> QED  BY <2>1, <2>2, <2>3
<1> QED  BY <1>3, <1>4, <1>5

\* The process r of c becomes p.
LEMMA OneProcessIs ==
  ASSUME Types, NEW c \in Conns, NEW r \in Roles, NEW p, OneProcess(c, r, p)
  PROVE  /\ proc'[c][r] = p /\ \A q \in Roles \ {r} : proc'[c][q] = proc[c][q]
         /\ \A d \in Conns \ {c} : proc'[d] = proc[d]
<1>1. proc \in [Conns -> [Roles -> Process]]
  BY DEF Types, ProcessTypes
<1>2. proc'[c] = [proc[c] EXCEPT ![r] = p] /\ \A d \in Conns \ {c} : proc'[d] = proc[d]
  BY <1>1 DEF OneProcess
<1>3. proc[c] \in [Roles -> Process]
  BY <1>1
<1> QED  BY <1>2, <1>3

LEMMA FeedPrefs ==
  ASSUME ServerInv, PrefsInv, ServerInv', NEW c \in Conns, Feed(c)
  PROVE  PrefsInv'
<1> DEFINE r == Role(c)
<1>1. thread[c] = "feed" /\ UNCHANGED <<opts, conf, stamp, file>> /\ Types
  BY DEF Feed, ServerInv
<1>2. PrefsOf(c) /\ \A q \in Roles : proc[c][q].st \notin {"busy", "said"}
  BY <1>1 DEF PrefsInv, PrefsOf, OneWorks
<1>3. stage[c] \in DOMAIN Pipeline(opts[c]) /\ r = Pipeline(opts[c])[stage[c]] /\ r \in Roles
  BY <1>1, FirstRole DEF ServerInv, InOrder, AtStage, Role
<1> HIDE DEF r
<1>4. CASE Pass(c, null) /\ UNCHANGED proc
  <2>1. PICK th \in {"read", "feed"} : /\ thread' = [thread EXCEPT ![c] = th]
                                       /\ th = "feed" => text'[c] = null
    BY <1>1, <1>4, PassMoves
  <2>2. \A d \in Conns \ {c} : stage'[d] = stage[d] /\ text'[d] = text[d]
    BY <1>1, <1>4, PassMoves
  <2>3. GoesOn(c, th)
    BY <1>1, <1>2, <1>4, <2>1, <2>2 DEF GoesOn
  <2> QED  BY <1>1, <2>1, <2>3, RestPrefs
<1>5. CASE /\ text[c] # null /\ Alive(proc[c][r])
           /\ thread' = [thread EXCEPT ![c] = "join"]
           /\ proc' = IF text[c] = empty THEN proc
                      ELSE [proc EXCEPT ![c][r] = [@ EXCEPT !.st = "busy", !.k = text[c]]]
           /\ UNCHANGED <<text, stage>>
  <2>1. thread'[c] = "join" /\ \A d \in Conns \ {c} : thread'[d] = thread[d]
    BY <1>1, <1>5 DEF Types, ThreadTypes
  <2>2. /\ \A q \in Roles \ {r} : proc'[c][q] = proc[c][q]
        /\ \A d \in Conns \ {c} : proc'[d] = proc[d]
        /\ proc'[c][r].st # "said" /\ proc'[c][r].cfg = proc[c][r].cfg
    <3>1. CASE text[c] = empty
      BY <1>2, <1>3, <1>5, <3>1
    <3>2. CASE text[c] # empty
      <4> DEFINE p == [proc[c][r] EXCEPT !.st = "busy", !.k = text[c]]
      <4>1. OneProcess(c, r, p)
        BY <1>5, <3>2 DEF OneProcess
      <4>2. p.st = "busy" /\ p.cfg = proc[c][r].cfg
        <5>1. proc[c][r] \in Process
          BY <1>1, <1>3, TypesOf
        <5> QED  BY <5>1 DEF Process
      <4> HIDE DEF p
      <4> QED  BY <1>1, <1>3, <4>1, <4>2, OneProcessIs
    <3> QED  BY <3>1, <3>2
  <2>3. OneWorks("join", opts[c], stage[c], proc'[c])
    BY <1>2, <1>3, <2>2 DEF OneWorks
  <2>4. HasRead(proc'[c])
    BY <1>2, <2>2 DEF HasRead, Readers, Roles
  <2>5. Own(opts[c], proc[c], file[stamp[c]], <<c, conf[c]>>)
        => Own(opts[c], proc'[c], file[stamp[c]], <<c, conf[c]>>)
    BY <1>3, <1>5, <2>2, FirstRole DEF Own
  <2>6. ~ Unfed(thread[c], opts[c], stage[c], text[c], proc[c])
    BY <1>1, <1>3, <1>5 DEF Unfed
  <2>7. Shared(c) => Shared(c)'
    BY <1>1, <2>1 DEF Shared
  <2>8. PrefsOf(c)'
    BY <1>1, <1>2, <1>5, <2>1, <2>3, <2>4, <2>5, <2>6, <2>7 DEF PrefsOf
  <2> QED  BY <1>1, <1>5, <2>1, <2>2, <2>8, OthersPrefs
<1> QED  BY <1>4, <1>5 DEF Feed, r

LEMMA JoinPrefs ==
  ASSUME ServerInv, PrefsInv, ServerInv', NEW c \in Conns, Join(c)
  PROVE  PrefsInv'
<1> DEFINE r == Role(c)
<1>1. thread[c] = "join" /\ UNCHANGED <<opts, conf, stamp, file>> /\ Types
  BY DEF Join, ServerInv
<1>2. \A q \in Roles \ {r} : proc[c][q].st \notin {"busy", "said"}
  BY <1>1 DEF PrefsInv, PrefsOf, OneWorks, Role
<1>3. r \in Roles
  BY <1>1, FirstRole DEF ServerInv, InOrder, AtStage, Role
<1>4. PICK t : Pass(c, t)
  BY DEF Join
<1>5. \A d \in Conns \ {c} : stage'[d] = stage[d] /\ text'[d] = text[d]
  BY <1>1, <1>4, PassMoves
<1>6. PICK th \in {"read", "feed"} : thread' = [thread EXCEPT ![c] = th]
  BY <1>1, <1>4, PassMoves
<1> HIDE DEF r
<1>7. /\ \A d \in Conns \ {c} : proc'[d] = proc[d]
      /\ \A q \in Roles : proc'[c][q].st \notin {"busy", "said"}
      /\ \A q \in Roles : /\ Alive(proc'[c][q]) <=> Alive(proc[c][q])
                          /\ proc'[c][q].cfg = proc[c][q].cfg
  <2>1. CASE proc[c][r].st = "said" /\ proc' = [proc EXCEPT ![c][r].st = "up"]
    <3> DEFINE p == [proc[c][r] EXCEPT !.st = "up"]
    <3>1. OneProcess(c, r, p)
      BY <2>1 DEF OneProcess
    <3>2. p.st = "up" /\ p.cfg = proc[c][r].cfg
      <4>1. proc[c][r] \in Process
        BY <1>1, <1>3, TypesOf
      <4> QED  BY <4>1 DEF Process
    <3> HIDE DEF p
    <3>3. /\ proc'[c][r] = p /\ \A q \in Roles \ {r} : proc'[c][q] = proc[c][q]
          /\ \A d \in Conns \ {c} : proc'[d] = proc[d]
      BY <1>1, <1>3, <3>1, OneProcessIs
    <3> QED  BY <1>2, <1>3, <2>1, <3>2, <3>3 DEF Alive
  <2>2. CASE proc[c][r].st = "dead" /\ UNCHANGED proc
    BY <1>2, <2>2
  <2> QED  BY <2>1, <2>2 DEF Join, r
<1>8. GoesOn(c, th)
  BY <1>1, <1>5, <1>6, <1>7 DEF GoesOn
<1> QED  BY <1>1, <1>6, <1>8, RestPrefs

\* A process reads its preferences, answers or ends.
LEMMA ProcessPrefs ==
  ASSUME ServerInv, PrefsInv, ServerInv', NEW c \in Conns, NEW r \in Roles, NEW p \in Process,
         Alive(proc[c][r]), OneProcess(c, r, p), UNCHANGED <<tvars, file>>,
         p.st = "busy" => proc[c][r].st = "busy",
         p.st = "said" => /\ proc[c][r].st \in {"busy", "said"}
                          /\ r \in Readers => p.cfg # unread,
         \/ p.cfg = proc[c][r].cfg
         \/ r \in Readers /\ p.cfg = file[stamp[c]]
  PROVE  PrefsInv'
<1>1. /\ proc'[c][r] = p /\ \A q \in Roles \ {r} : proc'[c][q] = proc[c][q]
      /\ \A d \in Conns \ {c} : proc'[d] = proc[d]
  BY OneProcessIs DEF ServerInv
<1>2. PrefsOf(c)
  BY DEF PrefsInv
<1>3. thread[c] \notin {"none", "first"}
  BY <1>2 DEF PrefsOf, NoProcess, Alive
<1>4. OneWorks(thread[c], opts[c], stage[c], proc'[c]) /\ HasRead(proc'[c])
  BY <1>1, <1>2 DEF PrefsOf, OneWorks, HasRead, Readers, Roles
<1>5. Own(opts[c], proc[c], file[stamp[c]], <<c, conf[c]>>)
      => Own(opts[c], proc'[c], file[stamp[c]], <<c, conf[c]>>)
  BY <1>1, FirstRole DEF Own
<1>6. Unfed(thread[c], opts[c], stage[c], text[c], proc[c])
      => Unfed(thread[c], opts[c], stage[c], text[c], proc'[c])
  BY <1>1, FirstRole DEF Unfed
<1>7. PrefsOf(c)'
  BY <1>2, <1>3, <1>4, <1>5, <1>6 DEF PrefsOf, Shared, tvars
<1> QED  BY <1>1, <1>7, OthersPrefs DEF tvars

LEMMA ProcessesPrefs ==
  ASSUME ServerInv, PrefsInv, ServerInv', NEW c \in Conns, Processes(c)
  PROVE  PrefsInv'
<1>1. PICK r \in Roles : Boot(c, r) \/ Answer(c, r)
  BY DEF Processes
<1>2. /\ proc[c] \in [Roles -> Process] /\ proc[c][r] \in Process
      /\ file \in [Stamps -> {unread} \cup (Conns \X Nat)]
  BY TypesOf DEF ServerInv, Types, ProcessTypes
<1>3. PrefsOf(c)
  BY DEF PrefsInv
<1>4. CASE Boot(c, r)
  <2>1. stamp[c] \in Stamps
    BY <1>4 DEF Boot, Alive, ServerInv, InOrder, Begun, NoProcess
  <2> DEFINE p == IF file[stamp[c]] # unread
                  THEN [proc[c][r] EXCEPT !.cfg = file[stamp[c]]]
                  ELSE [proc[c][r] EXCEPT !.st = "dead"]
  <2>2. /\ p \in Process
        /\ \/ p.st = proc[c][r].st /\ p.cfg = file[stamp[c]] /\ p.cfg # unread
           \/ p.st = "dead" /\ p.cfg = proc[c][r].cfg
    BY <1>2, <2>1 DEF Process
  <2>3. OneProcess(c, r, p) /\ Alive(proc[c][r]) /\ r \in Readers /\ UNCHANGED <<tvars, file>>
    BY <1>4 DEF Boot, OneProcess
  <2> HIDE DEF p
  <2> QED  BY <2>2, <2>3, ProcessPrefs
<1>5. CASE Answer(c, r)
  <2>1. PICK st \in {"said", "dead"} : proc' = [proc EXCEPT ![c][r].st = st]
    BY <1>5 DEF Answer
  <2> DEFINE p == [proc[c][r] EXCEPT !.st = st]
  <2>2. p \in Process /\ p.st = st /\ p.cfg = proc[c][r].cfg
    BY <1>2 DEF Process
  <2>3. /\ OneProcess(c, r, p) /\ UNCHANGED <<tvars, file>>
        /\ proc[c][r].st = "busy" /\ (r \in Readers => proc[c][r].cfg # unread)
    BY <1>5, <2>1 DEF Answer, OneProcess
  <2>4. Alive(proc[c][r])
    BY <2>3 DEF Alive
  <2> HIDE DEF p
  <2> QED  BY <2>2, <2>3, <2>4, ProcessPrefs
<1> QED  BY <1>1, <1>4, <1>5

LEMMA PrefsInit ==
  ASSUME Init
  PROVE  PrefsInv
BY DEF Init, PrefsInv, PrefsOf, OneWorks, HasRead, NoProcess, Readers, Roles

LEMMA PrefsNext ==
  ASSUME ServerInv, PrefsInv, [Next]_vars
  PROVE  PrefsInv'
<1>1. ServerInv'
  BY ServerNext
<1>2. CASE Next
  <2>1. PICK c \in Conns :
          \/ Connect(c) \/ SendPreferences(c) \/ Ask(c) \/ Disconnect(c)
          \/ ReadReady(c) \/ ReadLine(c)
          \/ Accept(c) \/ Thread(c)
          \/ Processes(c) \/ Complain(c) \/ CopyError(c)
    BY <1>2 DEF Next
  <2>2. CASE \/ Connect(c) \/ SendPreferences(c) \/ Ask(c) \/ Disconnect(c)
             \/ ReadReady(c) \/ ReadLine(c) \/ Complain(c) \/ CopyError(c)
    <3>1. UNCHANGED <<tvars, proc, file>>
      BY <2>2 DEF Connect, SendPreferences, Ask, Disconnect, ReadReady, ReadLine, Complain, CopyError
    <3> QED  BY <3>1, QuietPrefs
  <2>3. CASE Thread(c)
    BY <1>1, <2>3, FirstPrefs, ReconfigurePrefs, ThreadPrefs, FeedPrefs, JoinPrefs DEF Thread
  <2> QED  BY <1>1, <2>1, <2>2, <2>3, AcceptPrefs, ProcessesPrefs
<1>3. CASE UNCHANGED vars
  BY <1>3, QuietPrefs DEF vars
<1> QED  BY <1>2, <1>3

\* A process that answers has read the preferences of its own connection, and
\* those of the last setPrefs, however configurations fail and whatever other
\* connections write, unless another one has the same time in its file's name.
THEOREM PrefsAreOwn == Spec => []OwnPrefs
<1>1. Init => ServerInv /\ PrefsInv
  BY ServerInit, PrefsInit
<1>2. (ServerInv /\ PrefsInv) /\ [Next]_vars => (ServerInv /\ PrefsInv)'
  BY ServerNext, PrefsNext
<1>3. ServerInv /\ PrefsInv => OwnPrefs
  <2> SUFFICES ASSUME ServerInv, PrefsInv, NEW c \in Conns, NEW r \in Readers,
                      thread[c] \notin {"none", "over", "failed"},
                      \A d \in Conns \ {c} : stamp[d] # stamp[c],
                      proc[c][r].st = "said"
               PROVE  proc[c][r].cfg = <<c, conf[c]>>
    BY DEF OwnPrefs
  <2>1. PrefsOf(c) /\ r \in Roles
    BY DEF PrefsInv, Readers, Roles
  <2>2. thread[c] = "join" /\ r = Pipeline(opts[c])[stage[c]] /\ proc[c][r].cfg # unread
    BY <2>1 DEF PrefsOf, OneWorks, HasRead
  <2>3. stage[c] \in DOMAIN Pipeline(opts[c])
    BY <2>2 DEF ServerInv, InOrder, AtStage
  <2>4. ~ Shared(c)
    BY DEF Shared
  <2>5. Own(opts[c], proc[c], file[stamp[c]], <<c, conf[c]>>)
    BY <2>1, <2>2, <2>4 DEF PrefsOf, Unfed
  <2> QED  BY <2>2, <2>3, <2>5 DEF Own, Alive
<1> QED  BY <1>1, <1>2, <1>3, PTL DEF Spec

-----------------------------------------------------------------------------
(* What a reply says.                                                      *)

\* A reply a of which r has been read, d is on its way and o is to be written.
Joined(a, r, d, o) ==
  /\ a \in Seq(Half) /\ Len(a) = Len(r) + Len(d) + Len(o)
  /\ \A i \in 1 .. Len(r) : a[i] = r[i]
  /\ \A i \in 1 .. Len(d) : a[Len(r) + i] = d[i]
  /\ \A i \in 1 .. Len(o) : a[Len(r) + Len(d) + i] = o[i]

LEMMA AllHas ==
  ASSUME NEW r \in Seq(Half), NEW d \in Seq(Half), NEW o \in Seq(Half)
  PROVE  Joined((r \o d) \o o, r, d, o)
<1>1. Len(r) \in Nat /\ Len(d) \in Nat /\ Len(o) \in Nat
  OBVIOUS
<1> DEFINE b == r \o d
           a == b \o o
<1>2. /\ b \in Seq(Half) /\ Len(b) = Len(r) + Len(d)
      /\ \A i \in 1 .. Len(r) + Len(d) : b[i] = IF i <= Len(r) THEN r[i] ELSE d[i - Len(r)]
  BY ConcatProperties, Zenon
<1> HIDE DEF b
<1>3. /\ a \in Seq(Half) /\ Len(a) = Len(b) + Len(o)
      /\ \A i \in 1 .. Len(b) + Len(o) : a[i] = IF i <= Len(b) THEN b[i] ELSE o[i - Len(b)]
  <2>1. b \in Seq(Half)
    BY <1>2
  <2> QED  BY <2>1, ConcatProperties
<1> HIDE DEF a
<1>4. \A i \in 1 .. Len(r) : a[i] = r[i]
  BY <1>1, <1>2, <1>3
<1>5. ASSUME NEW i \in 1 .. Len(d) PROVE a[Len(r) + i] = d[i]
  <2>1. a[Len(r) + i] = b[Len(r) + i]
    BY <1>1, <1>2, <1>3
  <2>2. b[Len(r) + i] = d[Len(r) + i - Len(r)]
    <3>1. Len(r) + i \in 1 .. Len(r) + Len(d) /\ ~ (Len(r) + i <= Len(r))
      BY <1>1
    <3> QED  BY <1>2, <3>1
  <2>3. Len(r) + i - Len(r) = i
    BY <1>1
  <2> QED  BY <2>1, <2>2, <2>3
<1>6. ASSUME NEW i \in 1 .. Len(o) PROVE a[Len(r) + Len(d) + i] = o[i]
  <2>1. a[Len(r) + Len(d) + i] = o[Len(r) + Len(d) + i - Len(b)]
    <3>1. Len(r) + Len(d) + i \in 1 .. Len(b) + Len(o) /\ ~ (Len(r) + Len(d) + i <= Len(b))
      BY <1>1, <1>2
    <3> QED  BY <1>3, <3>1
  <2>2. Len(r) + Len(d) + i - Len(b) = i
    BY <1>1, <1>2
  <2> QED  BY <2>1, <2>2
<1>7. Joined(a, r, d, o)
  BY <1>1, <1>2, <1>3, <1>4, <1>5, <1>6 DEF Joined
<1> QED  BY <1>7 DEF a, b

\* Each place is in one of the parts.
InPart(i, l, m, n) ==
  \/ i \in 1 .. l
  \/ \E j \in 1 .. m : i = l + j
  \/ \E j \in 1 .. n : i = l + m + j

LEMMA PartOf ==
  ASSUME NEW l \in Nat, NEW m \in Nat, NEW n \in Nat, NEW i \in 1 .. l + m + n
  PROVE  InPart(i, l, m, n)
<1>1. CASE i <= l
  BY <1>1 DEF InPart
<1>2. CASE ~ (i <= l) /\ i <= l + m
  <2>1. i - l \in 1 .. m /\ i = l + (i - l)
    BY <1>2
  <2> QED  BY <2>1 DEF InPart
<1>3. CASE ~ (i <= l + m)
  <2>1. i - l - m \in 1 .. n /\ i = l + m + (i - l - m)
    BY <1>3
  <2> QED  BY <2>1 DEF InPart
<1> QED  BY <1>1, <1>2, <1>3

LEMMA NoTextAll ==
  ASSUME NEW r \in Seq(Half), NEW d \in Seq(Half), NEW o \in Seq(Half)
  PROVE  NoText((r \o d) \o o) <=> NoText(r) /\ NoText(d) /\ NoText(o)
<1> DEFINE a == (r \o d) \o o
<1>1. Joined(a, r, d, o)
  BY AllHas
<1> HIDE DEF a
<1> USE DEF Joined
<1>2. /\ Len(r) \in Nat /\ Len(d) \in Nat /\ Len(o) \in Nat
      /\ DOMAIN a = 1 .. Len(r) + Len(d) + Len(o)
      /\ DOMAIN r = 1 .. Len(r) /\ DOMAIN d = 1 .. Len(d) /\ DOMAIN o = 1 .. Len(o)
  BY <1>1
<1>3. ASSUME NoText(a) PROVE NoText(r) /\ NoText(d) /\ NoText(o)
  <2>1. \A i \in DOMAIN r : i \in DOMAIN a /\ a[i] = r[i]
    BY <1>1, <1>2
  <2>2. \A i \in DOMAIN d : Len(r) + i \in DOMAIN a /\ a[Len(r) + i] = d[i]
    BY <1>1, <1>2
  <2>3. \A i \in DOMAIN o : Len(r) + Len(d) + i \in DOMAIN a /\ a[Len(r) + Len(d) + i] = o[i]
    BY <1>1, <1>2
  <2> QED  BY <1>3, <2>1, <2>2, <2>3 DEF NoText
<1>4. ASSUME NoText(r), NoText(d), NoText(o), NEW i \in DOMAIN a PROVE a[i].kind # "text"
  <2>1. InPart(i, Len(r), Len(d), Len(o))
    <3>1. Len(r) \in Nat /\ Len(d) \in Nat /\ Len(o) \in Nat /\ i \in 1 .. Len(r) + Len(d) + Len(o)
      BY <1>2
    <3> QED  BY <3>1, PartOf, Zenon
  <2>2. CASE i \in 1 .. Len(r)
    BY <1>1, <1>2, <1>4, <2>2 DEF NoText
  <2>3. ASSUME NEW j \in 1 .. Len(d), i = Len(r) + j PROVE a[i].kind # "text"
    BY <1>1, <1>2, <1>4, <2>3 DEF NoText
  <2>4. ASSUME NEW j \in 1 .. Len(o), i = Len(r) + Len(d) + j PROVE a[i].kind # "text"
    BY <1>1, <1>2, <1>4, <2>4 DEF NoText
  <2> QED  BY <2>1, <2>2, <2>3, <2>4 DEF InPart
<1> QED  BY <1>3, <1>4 DEF a, NoText

LEMMA QuietNoText ==
  ASSUME NEW s, Quiet(s)
  PROVE  NoText(s)
BY DEF Quiet, Idle, NoText

\* Something else than text comes in between.
LEMMA SpreadKeeps ==
  ASSUME NEW S, NEW s \in Seq(S), NEW t \in Seq(S), NEW n \in 0 .. Len(s), NEW k,
         Len(t) = Len(s) + 1, t[n + 1].kind # "text",
         \A i \in 1 .. n : t[i] = s[i], \A i \in n + 1 .. Len(s) : t[i + 1] = s[i],
         TextOf(s, k)
  PROVE  TextOf(t, k)
<1> DEFINE at(i) == IF i <= n THEN i ELSE i + 1
<1>1. Len(s) \in Nat /\ DOMAIN s = 1 .. Len(s) /\ DOMAIN t = 1 .. Len(s) + 1
  OBVIOUS
<1>2. PICK i, j \in DOMAIN s :
        /\ i < j /\ s[i] = Line("text", k)[1] /\ s[j] = Line("text", k)[2]
        /\ \A m \in DOMAIN s : s[m].kind = "text" => m \in {i, j}
  BY DEF TextOf
<1>3. /\ at(i) \in DOMAIN t /\ at(j) \in DOMAIN t /\ at(i) < at(j)
      /\ t[at(i)] = s[i] /\ t[at(j)] = s[j]
  BY <1>1, <1>2
<1>4. ASSUME NEW m \in DOMAIN t, t[m].kind = "text"
      PROVE  m \in {at(i), at(j)}
  <2>1. m # n + 1
    BY <1>4
  <2>2. CASE m <= n
    BY <1>1, <1>2, <1>4, <2>2
  <2>3. CASE m > n + 1
    <3>1. m - 1 \in n + 1 .. Len(s) /\ m = (m - 1) + 1
      BY <1>1, <2>3
    <3>2. t[m] = s[m - 1] /\ m - 1 \in DOMAIN s
      BY <1>1, <3>1
    <3>3. m - 1 \in {i, j}
      BY <1>2, <1>4, <3>2
    <3> QED  BY <1>1, <1>2, <3>1, <3>3
  <2> QED  BY <1>1, <2>1, <2>2, <2>3
<1> HIDE DEF at
<1> QED  BY <1>2, <1>3, <1>4 DEF TextOf

\* Error output is written to the client.
LEMMA InsertKeeps ==
  ASSUME NEW r \in Seq(Half), NEW d \in Seq(Half), NEW o \in Seq(Half), NEW x \in Half,
         x.kind # "text", NEW k
  PROVE  /\ NoText((r \o d) \o o) => NoText((r \o Append(d, x)) \o o)
         /\ TextOf((r \o d) \o o, k) => TextOf((r \o Append(d, x)) \o o, k)
<1> DEFINE e == Append(d, x)
<1>1. /\ e \in Seq(Half) /\ Len(e) = Len(d) + 1 /\ e[Len(d) + 1] = x
      /\ \A i \in 1 .. Len(d) : e[i] = d[i]
  BY AppendProperties
<1> HIDE DEF e
<1>2. NoText(d) => NoText(e)
  <2>1. DOMAIN e = 1 .. Len(d) + 1 /\ DOMAIN d = 1 .. Len(d) /\ Len(d) \in Nat
    BY <1>1
  <2>2. \A i \in DOMAIN e : (i \in DOMAIN d /\ e[i] = d[i]) \/ e[i] = x
    BY <1>1, <2>1
  <2> QED  BY <2>2 DEF NoText
<1>3. NoText((r \o d) \o o) => NoText((r \o e) \o o)
  BY <1>1, <1>2, NoTextAll
<1>4. ASSUME TextOf((r \o d) \o o, k) PROVE TextOf((r \o e) \o o, k)
  <2> DEFINE a == (r \o d) \o o
             b == (r \o e) \o o
             n == Len(r) + Len(d)
  <2>1. Joined(a, r, d, o)
    BY AllHas
  <2>2. Joined(b, r, e, o)
    <3>1. e \in Seq(Half)
      BY <1>1
    <3> QED  BY <3>1, AllHas
  <2>3. TextOf(a, k)
    BY <1>4
  <2> HIDE DEF a, b
  <2> USE DEF Joined
  <2>4. Len(r) \in Nat /\ Len(d) \in Nat /\ Len(o) \in Nat /\ n \in 0 .. Len(a) /\ Len(b) = Len(a) + 1
    BY <1>1, <2>1, <2>2
  <2>5. b[n + 1].kind # "text"
    <3>1. Len(d) + 1 \in 1 .. Len(e) /\ n + 1 = Len(r) + (Len(d) + 1)
      BY <1>1, <2>4
    <3> QED  BY <1>1, <2>2, <3>1
  <2>6. ASSUME NEW i \in 1 .. n PROVE b[i] = a[i]
    <3>1. CASE i <= Len(r)
      BY <2>1, <2>2, <2>4, <3>1
    <3>2. CASE ~ (i <= Len(r))
      <4>1. PICK j \in 1 .. Len(d) : i = Len(r) + j
        <5>1. i - Len(r) \in 1 .. Len(d) /\ i = Len(r) + (i - Len(r))
          BY <2>4, <3>2
        <5> QED  BY <5>1
      <4>2. b[i] = e[j] /\ a[i] = d[j]
        <5>1. j \in 1 .. Len(e)
          BY <1>1, <2>4
        <5> QED  BY <2>1, <2>2, <4>1, <5>1
      <4> QED  BY <1>1, <4>2
    <3> QED  BY <3>1, <3>2
  <2>7. ASSUME NEW i \in n + 1 .. Len(a) PROVE b[i + 1] = a[i]
    <3>1. i - n \in 1 .. Len(o) /\ i = Len(r) + Len(d) + (i - n)
          /\ i + 1 = Len(r) + Len(e) + (i - n)
      BY <1>1, <2>1, <2>4
    <3>2. a[i] = o[i - n] /\ b[i + 1] = o[i - n]
      BY <2>1, <2>2, <3>1
    <3> QED  BY <3>2
  <2>8. TextOf(b, k)
    <3> HIDE DEF n
    <3> QED  BY <2>1, <2>2, <2>3, <2>4, <2>5, <2>6, <2>7, SpreadKeeps
  <2> QED  BY <2>8 DEF b
<1> QED  BY <1>3, <1>4 DEF e

\* A line that is read belongs to the reply as before.
LEMMA ReadSame ==
  ASSUME NEW r \in Seq(Half), NEW d \in Seq(Half), HasLine(d)
  PROVE  (r \o FirstLine(d)) \o After(d, FirstLine(d)) = r \o d
<1> DEFINE l == FirstLine(d)
           v == After(d, FirstLine(d))
<1>1. l \in Seq(Half) /\ v \in Seq(Half)
  BY LineRest
<1>2. PICK m \in 1 .. Len(d) :
        /\ Len(l) = m /\ \A i \in 1 .. m : l[i] = d[i]
        /\ Len(v) = Len(d) - m /\ \A i \in 1 .. Len(d) - m : v[i] = d[m + i]
  BY LineRest
<1> HIDE DEF l, v
<1> DEFINE a == (r \o l) \o v
           b == r \o d
<1>3. Joined(a, r, l, v)
  BY <1>1, AllHas
<1>4. /\ b \in Seq(Half) /\ Len(b) = Len(r) + Len(d)
      /\ \A i \in 1 .. Len(r) + Len(d) : b[i] = IF i <= Len(r) THEN r[i] ELSE d[i - Len(r)]
  BY ConcatProperties
<1> HIDE DEF a, b
<1> USE DEF Joined
<1>5. Len(r) \in Nat /\ Len(d) \in Nat /\ m \in Nat /\ Len(a) = Len(b)
  BY <1>2, <1>3, <1>4
<1>6. ASSUME NEW i \in 1 .. Len(a) PROVE a[i] = b[i]
  <2>1. /\ Len(r) \in Nat /\ m \in Nat /\ Len(d) - m \in Nat
        /\ i \in 1 .. Len(r) + m + (Len(d) - m)
    BY <1>2, <1>3, <1>5
  <2>2. InPart(i, Len(r), m, Len(d) - m)
    BY <2>1, PartOf, Zenon
  <2>3. CASE i \in 1 .. Len(r)
    <3>1. a[i] = r[i]
      BY <1>3, <2>3
    <3>2. i \in 1 .. Len(r) + Len(d) /\ i <= Len(r)
      BY <1>5, <2>3
    <3>3. b[i] = r[i]
      BY <1>4, <3>2
    <3> QED  BY <3>1, <3>3
  <2>4. ASSUME NEW j \in 1 .. m, i = Len(r) + j PROVE a[i] = b[i]
    <3>1. a[i] = d[j]
      BY <1>2, <1>3, <2>4
    <3>2. b[i] = d[i - Len(r)] /\ i - Len(r) = j
      BY <1>4, <1>5, <2>4
    <3> QED  BY <3>1, <3>2
  <2>5. ASSUME NEW j \in 1 .. Len(d) - m, i = Len(r) + m + j PROVE a[i] = b[i]
    <3>1. a[i] = d[m + j]
      BY <1>2, <1>3, <2>5
    <3>2. b[i] = d[i - Len(r)] /\ i - Len(r) = m + j
      BY <1>4, <1>5, <2>5
    <3> QED  BY <3>1, <3>2
  <2> QED  BY <2>2, <2>3, <2>4, <2>5 DEF InPart
<1>7. a = b
  BY <1>3, <1>4, <1>5, <1>6, SeqEqual
<1> QED  BY <1>7 DEF a, b, l, v

\* Half a line that is written belongs to it as before.
LEMMA WriteSame ==
  ASSUME NEW r \in Seq(Half), NEW d \in Seq(Half), NEW o \in Seq(Half), o # <<>>
  PROVE  (r \o Append(d, Head(o))) \o Tail(o) = (r \o d) \o o
<1> DEFINE e == Append(d, Head(o))
           v == Tail(o)
           a == (r \o d) \o o
           b == (r \o e) \o v
<1>1. /\ Head(o) \in Half /\ Head(o) = o[1] /\ v \in Seq(Half) /\ Len(v) = Len(o) - 1
      /\ \A i \in 1 .. Len(o) - 1 : v[i] = o[i + 1]
  BY TailRest
<1>2. /\ e \in Seq(Half) /\ Len(e) = Len(d) + 1 /\ e[Len(d) + 1] = o[1]
      /\ \A i \in 1 .. Len(d) : e[i] = d[i]
  BY <1>1, AppendProperties
<1> HIDE DEF e, v
<1>3. Joined(a, r, d, o)
  BY AllHas
<1>4. Joined(b, r, e, v)
  <2>1. e \in Seq(Half) /\ v \in Seq(Half)
    BY <1>1, <1>2
  <2> QED  BY <2>1, AllHas
<1> HIDE DEF a, b
<1> USE DEF Joined
<1>5. /\ Len(r) \in Nat /\ Len(d) \in Nat /\ Len(o) \in Nat \ {0}
      /\ Len(b) = Len(a)
  <2>1. Len(o) \in Nat \ {0}
    BY EmptySeq
  <2> QED  BY <1>1, <1>2, <1>3, <1>4, <2>1
<1>6. ASSUME NEW i \in 1 .. Len(b) PROVE b[i] = a[i]
  <2>1. InPart(i, Len(r), Len(d), Len(o))
    <3>1. Len(r) \in Nat /\ Len(d) \in Nat /\ Len(o) \in Nat /\ i \in 1 .. Len(r) + Len(d) + Len(o)
      BY <1>3, <1>5
    <3> QED  BY <3>1, PartOf, Zenon
  <2>2. CASE i \in 1 .. Len(r)
    BY <1>3, <1>4, <2>2
  <2>3. ASSUME NEW j \in 1 .. Len(d), i = Len(r) + j PROVE b[i] = a[i]
    <3>1. j \in 1 .. Len(e)
      BY <1>2, <1>5
    <3> QED  BY <1>2, <1>3, <1>4, <2>3, <3>1
  <2>4. ASSUME NEW j \in 1 .. Len(o), i = Len(r) + Len(d) + j PROVE b[i] = a[i]
    <3>1. a[i] = o[j]
      BY <1>3, <2>4
    <3>2. CASE j = 1
      <4>1. Len(d) + 1 \in 1 .. Len(e) /\ i = Len(r) + (Len(d) + 1)
        BY <1>2, <1>5, <2>4, <3>2
      <4> QED  BY <1>2, <1>4, <3>1, <3>2, <4>1
    <3>3. CASE j # 1
      <4>1. j - 1 \in 1 .. Len(o) - 1 /\ (j - 1) + 1 = j /\ i = Len(r) + Len(e) + (j - 1)
        BY <1>2, <1>5, <2>4, <3>3
      <4> QED  BY <1>1, <1>4, <3>1, <4>1
    <3> QED  BY <3>2, <3>3
  <2> QED  BY <2>1, <2>2, <2>3, <2>4 DEF InPart
<1>7. b = a
  BY <1>3, <1>4, <1>5, <1>6, SeqEqual
<1> QED  BY <1>7 DEF a, b, e, v

\* The kind of both halves of a line.
IsLine(s, kind) ==
  /\ s \in Seq(Half) /\ Len(s) = 2 /\ DOMAIN s = {1, 2}
  /\ s[1].kind = kind /\ s[2].kind = kind /\ s[2].half = 2

LEMMA LineKinds ==
  ASSUME NEW k \in Nat
  PROVE  /\ IsLine(Line("text", k), "text") /\ IsLine(Line("end", 0), "end")
         /\ IsLine(Line("nullend", 0), "nullend")
<1>1. ASSUME NEW kind \in {"end", "nullend", "text"}, NEW n \in Nat
      PROVE  IsLine(Line(kind, n), kind)
  <2> DEFINE s == Line(kind, n)
  <2>1. /\ s \in Seq(Half) /\ Len(s) = 2
        /\ s[1] = [kind |-> kind, of |-> n, half |-> 1]
        /\ s[2] = [kind |-> kind, of |-> n, half |-> 2]
    BY LineIs
  <2> HIDE DEF s
  <2>2. IsLine(s, kind)
    BY <2>1 DEF IsLine
  <2> QED  BY <2>2 DEF s
<1> QED  BY <1>1

\* A text that is given to the client as the reply.
LEMMA ReplyText ==
  ASSUME NEW k \in Nat, k # 0, NEW r \in Seq(Half), NEW d \in Seq(Half), NoText(r), NoText(d)
  PROVE  TextOf((r \o d) \o ReplyTo(k), k)
<1> DEFINE t == Line("text", k)
           e == Line("end", 0)
           o == t \o e
           a == (r \o d) \o o
<1>1. ReplyTo(k) = o
  BY DEF ReplyTo, null, empty
<1>2. /\ t \in Seq(Half) /\ Len(t) = 2 /\ t[1].kind = "text" /\ t[2].kind = "text"
      /\ e \in Seq(Half) /\ Len(e) = 2 /\ e[1].kind = "end" /\ e[2].kind = "end"
  <2>1. IsLine(t, "text") /\ IsLine(e, "end")
    BY LineKinds
  <2> HIDE DEF t, e
  <2> QED  BY <2>1 DEF IsLine
<1> HIDE DEF t, e
<1>3. /\ o \in Seq(Half) /\ Len(o) = 4
      /\ o[1] = t[1] /\ o[2] = t[2] /\ o[3] = e[1] /\ o[4] = e[2]
  <2>1. /\ o \in Seq(Half) /\ Len(o) = Len(t) + Len(e)
        /\ \A i \in 1 .. Len(t) + Len(e) : o[i] = IF i <= Len(t) THEN t[i] ELSE e[i - Len(t)]
    BY <1>2, ConcatProperties
  <2> HIDE DEF o
  <2> QED  BY <1>2, <2>1
<1> HIDE DEF o
<1>4. Joined(a, r, d, o)
  <2>1. o \in Seq(Half)
    BY <1>3
  <2> QED  BY <2>1, AllHas
<1> HIDE DEF a
<1> USE DEF Joined
<1>5. Len(r) \in Nat /\ Len(d) \in Nat /\ DOMAIN a = 1 .. Len(r) + Len(d) + 4
  BY <1>3, <1>4
<1> DEFINE z == Len(r) + Len(d)
<1>6. /\ a[z + 1] = t[1] /\ a[z + 2] = t[2] /\ a[z + 3] = e[1] /\ a[z + 4] = e[2]
      /\ z + 1 \in DOMAIN a /\ z + 2 \in DOMAIN a /\ z + 1 < z + 2
  BY <1>3, <1>4, <1>5
<1>7. ASSUME NEW i \in DOMAIN a, a[i].kind = "text" PROVE i \in {z + 1, z + 2}
  <2>1. CASE i <= Len(r)
    <3>1. i \in 1 .. Len(r) /\ i \in DOMAIN r
      BY <1>5, <2>1
    <3> QED  BY <1>4, <1>7, <3>1 DEF NoText
  <2>2. CASE ~ (i <= Len(r)) /\ i <= z
    <3>1. i - Len(r) \in 1 .. Len(d) /\ i - Len(r) \in DOMAIN d /\ Len(r) + (i - Len(r)) = i
      BY <1>5, <2>2
    <3>2. a[i] = d[i - Len(r)]
      BY <1>4, <3>1
    <3> QED  BY <1>7, <3>1, <3>2 DEF NoText
  <2>3. CASE ~ (i <= z)
    <3>1. i \in {z + 1, z + 2, z + 3, z + 4}
      BY <1>5, <2>3
    <3> QED  BY <1>2, <1>6, <1>7, <3>1
  <2> QED  BY <2>1, <2>2, <2>3
<1>8. TextOf(a, k)
  <2> HIDE DEF z
  <2> QED  BY <1>6, <1>7 DEF TextOf, t
<1> QED  BY <1>1, <1>8 DEF a

\* A text that has been lost.
LEMMA ReplyNone ==
  ASSUME NEW t \in {empty, null}
  PROVE  ReplyTo(t) \in Seq(Half) /\ NoText(ReplyTo(t))
<1> DEFINE e == Line("end", 0)
           f == Line("nullend", 0)
<1>1. IsLine(e, "end") /\ IsLine(f, "nullend")
  BY LineKinds
<1>4. ReplyTo(t) = IF t = null THEN f ELSE <<>> \o e
  BY DEF ReplyTo
<1> HIDE DEF e, f
<1>2. <<>> \o e = e
  BY <1>1, ConcatEmptySeq DEF IsLine
<1>3. e \in Seq(Half) /\ f \in Seq(Half) /\ NoText(e) /\ NoText(f)
  BY <1>1 DEF IsLine, NoText
<1> QED  BY <1>2, <1>3, <1>4

\* When the client reads the mark, it has read all of the text.
LEMMA MarkIsRead ==
  ASSUME NEW r \in Seq(Half), NEW d \in Seq(Half), NEW o \in Seq(Half), NEW k,
         HasLine(d), FirstLine(d) = Line("end", 0), MarkLast(d), Quiet(o) \/ Unmarked(d)
  PROVE  /\ ~ Quiet(d)
         /\ NoText((r \o d) \o o) => NoText(r)
         /\ TextOf((r \o d) \o o, k) => TextOf(r, k)
<1> DEFINE e == Line("end", 0)
           a == (r \o d) \o o
<1>1. Len(e) = 2 /\ e[1].kind = "end" /\ e[2].kind = "end" /\ e[2].half = 2
  <2>1. IsLine(e, "end")
    BY LineKinds
  <2> HIDE DEF e
  <2> QED  BY <2>1 DEF IsLine
<1>2. PICK m \in 1 .. Len(d) :
        /\ Len(FirstLine(d)) = m /\ \A i \in 1 .. m : FirstLine(d)[i] = d[i]
  BY LineRest
<1> HIDE DEF e
<1>3. /\ 2 \in DOMAIN d /\ 1 \in DOMAIN d /\ d[1].kind = "end" /\ d[2].kind = "end" /\ d[2].half = 2
  <2>1. m = 2 /\ \A i \in 1 .. 2 : e[i] = d[i]
    BY <1>1, <1>2 DEF e
  <2> QED  BY <1>1, <2>1
<1>4. Mark(d[2])
  BY <1>3 DEF Mark
<1>5. ~ Quiet(d) /\ Quiet(o)
  BY <1>3, <1>4 DEF Quiet, Idle, Unmarked
<1>6. NoText(d)
  <2>1. ASSUME NEW i \in DOMAIN d PROVE d[i].kind # "text"
    <3>1. CASE i \in {1, 2}
      BY <1>3, <3>1
    <3>2. CASE i \notin {1, 2}
      <4>1. 2 < i
        BY <3>2
      <4> QED  BY <1>3, <1>4, <4>1 DEF MarkLast, Idle
    <3> QED  BY <3>1, <3>2
  <2> QED  BY <2>1 DEF NoText
<1>7. NoText(o)
  BY <1>5, QuietNoText
<1>8. NoText(a) => NoText(r)
  BY NoTextAll
<1>9. ASSUME TextOf(a, k) PROVE TextOf(r, k)
  <2>1. Joined(a, r, d, o)
    <3>1. r \in Seq(Half) /\ d \in Seq(Half) /\ o \in Seq(Half)
      OBVIOUS
    <3> QED  BY <3>1, AllHas
  <2> HIDE DEF a
  <2> USE DEF Joined
  <2>2. /\ Len(r) \in Nat /\ Len(d) \in Nat /\ Len(o) \in Nat
        /\ DOMAIN a = 1 .. Len(r) + Len(d) + Len(o) /\ DOMAIN r = 1 .. Len(r)
    BY <2>1
  <2>3. ASSUME NEW i \in DOMAIN a, a[i].kind = "text" PROVE i \in DOMAIN r /\ a[i] = r[i]
    <3>1. Len(r) \in Nat /\ Len(d) \in Nat /\ Len(o) \in Nat /\ i \in 1 .. Len(r) + Len(d) + Len(o)
      BY <2>2
    <3>2. InPart(i, Len(r), Len(d), Len(o))
      BY <3>1, PartOf, Zenon
    <3>3. ASSUME NEW j \in 1 .. Len(d), i = Len(r) + j PROVE FALSE
      BY <1>6, <2>1, <2>3, <3>3 DEF NoText
    <3>4. ASSUME NEW j \in 1 .. Len(o), i = Len(r) + Len(d) + j PROVE FALSE
      BY <1>7, <2>1, <2>3, <3>4 DEF NoText
    <3> QED  BY <2>1, <2>2, <3>2, <3>3, <3>4 DEF InPart
  <2>4. PICK i, j \in DOMAIN a :
          /\ i < j /\ a[i] = Line("text", k)[1] /\ a[j] = Line("text", k)[2]
          /\ \A p \in DOMAIN a : a[p].kind = "text" => p \in {i, j}
    BY <1>9 DEF TextOf
  <2>5. a[i].kind = "text" /\ a[j].kind = "text"
    BY <2>4 DEF Line
  <2>6. i \in DOMAIN r /\ a[i] = r[i] /\ j \in DOMAIN r /\ a[j] = r[j]
    BY <2>3, <2>5
  <2>7. \A p \in DOMAIN r : p \in DOMAIN a /\ a[p] = r[p]
    BY <2>1, <2>2
  <2> QED  BY <2>4, <2>6, <2>7 DEF TextOf
<1> QED  BY <1>5, <1>8, <1>9 DEF a

-----------------------------------------------------------------------------
(* Where the reply to a sentence is.                                       *)

\* The reply, as far as it has been read, is on its way, or is to be written.
AllOf(c) == (reply[c] \o down[c]) \o out[c]

Sentences(u) == {i \in DOMAIN u : u[i].kind = "sentence"}

\* The text in the pipeline is that for the sentence k, or has been lost.
Carried(c, k) == text[c] = k \/ (text[c] \in {empty, null} /\ Broken(c))

\* While a client waits: the sentence has not been read yet, goes through the
\* pipeline, or has been answered.
ReplyOf(c) ==
  client[c] = "wait" =>
    /\ asked[c] > 0
    /\ IF Sentences(up[c]) # {}
       THEN NoText(AllOf(c)) /\ \A i \in Sentences(up[c]) : up[c][i].k = asked[c]
       ELSE /\ up[c] = <<>>
            /\ IF thread[c] \in {"feed", "join"}
               THEN /\ NoText(AllOf(c)) /\ Carried(c, asked[c])
                    /\ \A r \in Roles : proc[c][r].st \in {"busy", "said"} => proc[c][r].k = asked[c]
               ELSE TextOf(AllOf(c), asked[c]) \/ (NoText(AllOf(c)) /\ Broken(c))

ReplyInv == \A c \in Conns : ReplyOf(c)

\* What the reply to d depends on.
SameReply(d) ==
  /\ client'[d] = client[d] /\ asked'[d] = asked[d] /\ reply'[d] = reply[d]
  /\ up'[d] = up[d] /\ down'[d] = down[d] /\ out'[d] = out[d]
  /\ thread'[d] = thread[d] /\ text'[d] = text[d] /\ opts'[d] = opts[d] /\ proc'[d] = proc[d]

LEMMA SameReplies ==
  ASSUME ReplyInv, NEW c \in Conns, \A d \in Conns \ {c} : SameReply(d), ReplyOf(c)'
  PROVE  ReplyInv'
<1>1. ASSUME NEW d \in Conns \ {c} PROVE ReplyOf(d)'
  <2>1. SameReply(d) /\ ReplyOf(d)
    BY DEF ReplyInv
  <2> QED  BY <2>1 DEF SameReply, ReplyOf, AllOf, Carried, Broken
<1> QED  BY <1>1 DEF ReplyInv

\* A client that does not wait has no claim; a thread that begins, and error
\* output in the queue, do nothing to a reply.
LEMMA IdleReplies ==
  ASSUME ServerInv, ReplyInv, NEW c \in Conns,
         \/ Connect(c) \/ SendPreferences(c) \/ Disconnect(c) \/ ReadReady(c)
         \/ Accept(c) \/ Complain(c)
  PROVE  ReplyInv'
<1>1. Types /\ ReplyOf(c)
  BY DEF ServerInv, ReplyInv
<1>2. \A d \in Conns \ {c} : SameReply(d)
  <2>1. CASE Connect(c) \/ SendPreferences(c) \/ Disconnect(c) \/ ReadReady(c)
    BY <1>1, <2>1 DEF Connect, SendPreferences, Disconnect, ReadReady, SameReply, Types,
       ClientTypes, StreamTypes, cvars, tvars, evars
  <2>2. CASE Accept(c) \/ Complain(c)
    BY <1>1, <2>2 DEF Accept, Complain, SameReply, Types, ThreadTypes, cvars, tvars, evars
  <2> QED  BY <2>1, <2>2
<1>3. CASE Connect(c) \/ SendPreferences(c) \/ Disconnect(c) \/ ReadReady(c)
  <2>1. client'[c] # "wait"
    BY <1>1, <1>3 DEF Connect, SendPreferences, Disconnect, ReadReady, Types, ClientTypes
  <2>2. ReplyOf(c)'
    BY <2>1 DEF ReplyOf
  <2> QED  BY <1>2, <2>2, SameReplies
<1>4. CASE Accept(c) \/ Complain(c)
  <2>1. /\ UNCHANGED <<client, asked, reply, up, down, out, text, opts, proc>>
        /\ thread[c] \in {"feed", "join"} <=> thread'[c] \in {"feed", "join"}
    BY <1>1, <1>4 DEF Accept, Complain, Types, ThreadTypes, cvars, tvars, evars
  <2>2. ReplyOf(c)'
    BY <1>1, <2>1 DEF ReplyOf, AllOf, Carried, Broken
  <2> QED  BY <1>2, <2>2, SameReplies
<1> QED  BY <1>3, <1>4

\* A new sentence: nothing of another reply is on its way.
LEMMA AskReplies ==
  ASSUME ServerInv, ReplyInv, NEW c \in Conns, Ask(c)
  PROVE  ReplyInv'
<1> DEFINE x == [kind |-> "sentence", k |-> asked[c] + 1]
           u == up[c]
           v == Append(u, x)
<1>1. /\ client[c] = "idle" /\ client' = [client EXCEPT ![c] = "wait"]
      /\ up' = [up EXCEPT ![c] = v] /\ asked' = [asked EXCEPT ![c] = asked[c] + 1]
      /\ reply' = [reply EXCEPT ![c] = <<>>]
      /\ UNCHANGED <<down, tvars, out, proc>>
  BY DEF Ask
<1>2. Types /\ u \in Seq(Message) /\ asked[c] \in Nat /\ down[c] \in Seq(Half) /\ out[c] \in Seq(Half)
  BY TypesOf DEF ServerInv
<1>3. x \in Message /\ x.kind = "sentence" /\ x.k = asked[c] + 1
  BY <1>2 DEF Message
<1>4. TakesTurns("idle", thread[c], u, down[c], out[c], errq[c])
  BY <1>1 DEF ServerInv, InOrder
<1> HIDE DEF x, u
<1>5. /\ v \in Seq(Message) /\ Len(v) = Len(u) + 1 /\ Len(u) \in Nat /\ v[Len(u) + 1] = x
      /\ \A i \in 1 .. Len(u) : v[i] = u[i]
  BY <1>2, <1>3, AppendProperties
<1> HIDE DEF v
<1>6. DOMAIN v = 1 .. Len(u) + 1 /\ DOMAIN u = 1 .. Len(u)
  BY <1>2, <1>5
<1>7. Sentences(v) = {Len(u) + 1}
  <2>1. \A i \in DOMAIN u : u[i].kind # "sentence"
    BY <1>4 DEF TakesTurns
  <2> QED  BY <1>3, <1>5, <1>6, <2>1 DEF Sentences
<1>8. /\ client'[c] = "wait" /\ up'[c] = v /\ asked'[c] = asked[c] + 1 /\ reply'[c] = <<>>
      /\ down'[c] = down[c] /\ out'[c] = out[c]
  BY <1>1, <1>2 DEF Types, ClientTypes, StreamTypes
<1>9. NoText((<<>> \o down[c]) \o out[c])
  <2>1. NoText(down[c]) /\ NoText(out[c])
    BY <1>4, QuietNoText DEF TakesTurns
  <2>2. NoText(<<>>) /\ <<>> \in Seq(Half)
    BY DEF NoText
  <2> QED  BY <1>2, <2>1, <2>2, NoTextAll
<1>10. ReplyOf(c)'
  <2>1. asked'[c] > 0
    BY <1>2, <1>8
  <2>2. Sentences(up'[c]) # {} /\ \A i \in Sentences(up'[c]) : up'[c][i].k = asked'[c]
    BY <1>3, <1>5, <1>7, <1>8
  <2>3. NoText(AllOf(c)')
    BY <1>8, <1>9 DEF AllOf
  <2> QED  BY <2>1, <2>2, <2>3 DEF ReplyOf
<1>11. \A d \in Conns \ {c} : SameReply(d)
  BY <1>1, <1>2 DEF SameReply, Types, ClientTypes, StreamTypes, tvars
<1> QED  BY <1>10, <1>11, SameReplies

\* A line that the client reads passes from the stream to the reply.
LEMMA ReadLineReplies ==
  ASSUME ServerInv, ReplyInv, NEW c \in Conns, ReadLine(c)
  PROVE  ReplyInv'
<1> DEFINE l == FirstLine(down[c])
<1>1. /\ client[c] = "wait" /\ HasLine(down[c]) /\ down' = [down EXCEPT ![c] = After(down[c], l)]
      /\ \/ client' = [client EXCEPT ![c] = "idle"] /\ UNCHANGED reply
         \/ reply' = [reply EXCEPT ![c] = reply[c] \o l] /\ UNCHANGED client
      /\ UNCHANGED <<asked, up, tvars, out, proc>>
  BY DEF ReadLine
<1>2. Types /\ ReplyOf(c) /\ down[c] \in Seq(Half) /\ reply[c] \in Seq(Half)
  BY TypesOf DEF ServerInv, ReplyInv
<1>3. \A d \in Conns \ {c} : SameReply(d)
  BY <1>1, <1>2 DEF SameReply, Types, ClientTypes, StreamTypes, tvars
<1>4. (reply[c] \o l) \o After(down[c], l) = reply[c] \o down[c]
  BY <1>1, <1>2, ReadSame
<1> HIDE DEF l
<1>5. CASE client' = [client EXCEPT ![c] = "idle"]
  <2>1. client'[c] # "wait"
    BY <1>2, <1>5 DEF Types, ClientTypes
  <2>2. ReplyOf(c)'
    BY <2>1 DEF ReplyOf
  <2> QED  BY <1>3, <2>2, SameReplies
<1>6. CASE reply' = [reply EXCEPT ![c] = reply[c] \o l] /\ UNCHANGED client
  <2>1. AllOf(c)' = AllOf(c)
    BY <1>1, <1>2, <1>4, <1>6 DEF AllOf, Types, ClientTypes, StreamTypes
  <2>2. ReplyOf(c)'
    BY <1>1, <1>2, <1>6, <2>1 DEF ReplyOf, Carried, Broken, tvars
  <2> QED  BY <1>3, <2>2, SameReplies
<1> QED  BY <1>1, <1>5, <1>6

\* The sentence stays behind a message that is read before it.
LEMMA HearReplies ==
  ASSUME ServerInv, NEW c \in Conns, ReplyOf(c), up[c] # <<>>, Head(up[c]).kind # "sentence",
         client'[c] = client[c], asked'[c] = asked[c], reply'[c] = reply[c], down'[c] = down[c],
         up'[c] = Tail(up[c]), out'[c] \in Seq(Half), NoText(out'[c])
  PROVE  ReplyOf(c)'
<1> SUFFICES ASSUME client[c] = "wait"
             PROVE  /\ asked[c] > 0 /\ Sentences(up'[c]) # {} /\ NoText(AllOf(c)')
                    /\ \A i \in Sentences(up'[c]) : up'[c][i].k = asked[c]
  BY DEF ReplyOf
<1> DEFINE u == up[c]
           v == Tail(up[c])
<1>1. /\ up[c] \in Seq(Message) /\ reply[c] \in Seq(Half) /\ down[c] \in Seq(Half)
      /\ out[c] \in Seq(Half)
  BY TypesOf DEF ServerInv
<1>2. /\ u[1].kind # "sentence" /\ v \in Seq(Message) /\ Len(v) = Len(u) - 1
      /\ \A i \in 1 .. Len(u) - 1 : v[i] = u[i + 1]
  BY <1>1, TailRest
<1> HIDE DEF v
<1>3. /\ asked[c] > 0 /\ NoText(AllOf(c))
      /\ Sentences(u) # {} /\ \A i \in Sentences(u) : u[i].k = asked[c]
  BY DEF ReplyOf
<1>4. Len(u) \in Nat /\ DOMAIN u = 1 .. Len(u) /\ DOMAIN v = 1 .. Len(u) - 1
  BY <1>1, <1>2
<1>5. \A i \in Sentences(v) : i + 1 \in Sentences(u) /\ v[i] = u[i + 1]
  BY <1>2, <1>4 DEF Sentences
<1>6. PICK i \in Sentences(u) : TRUE
  BY <1>3
<1>7. i - 1 \in Sentences(v)
  <2>1. i \in 1 .. Len(u) /\ i # 1 /\ u[i].kind = "sentence"
    BY <1>2, <1>4 DEF Sentences
  <2>2. i - 1 \in 1 .. Len(u) - 1 /\ (i - 1) + 1 = i
    BY <1>4, <2>1
  <2>3. v[i - 1].kind = "sentence"
    BY <1>2, <2>1, <2>2
  <2> QED  BY <1>4, <2>2, <2>3 DEF Sentences
<1>8. NoText(AllOf(c)')
  <2>1. NoText((reply[c] \o down[c]) \o out[c])
    BY <1>3 DEF AllOf
  <2>2. NoText(reply[c]) /\ NoText(down[c])
    BY <1>1, <2>1, NoTextAll
  <2> DEFINE o == out'[c]
  <2>3. o \in Seq(Half) /\ NoText(o)
    OBVIOUS
  <2> HIDE DEF o
  <2>4. NoText((reply[c] \o down[c]) \o o)
    BY <1>1, <2>2, <2>3, NoTextAll
  <2> QED  BY <2>4 DEF AllOf, o
<1>9. up'[c] = v
  BY DEF v
<1> QED  BY <1>3, <1>5, <1>7, <1>8, <1>9

LEMMA MessageReplies ==
  ASSUME ServerInv, ReplyInv, NEW c \in Conns, First(c) \/ Reconfigure(c) \/ Done(c)
  PROVE  ReplyInv'
<1>1. Types /\ ReplyOf(c) /\ up[c] \in Seq(Message)
  BY TypesOf DEF ServerInv, ReplyInv
<1>2. up[c] # <<>> /\ Head(up[c]).kind # "sentence"
  <2>1. CASE First(c)
    <3>1. up[c] # <<>> /\ up[c][1].kind = "prefs"
      BY <2>1 DEF First, ServerInv, InOrder, Begun
    <3> QED  BY <1>1, <3>1, TailRest
  <2>2. CASE Reconfigure(c) \/ Done(c)
    BY <2>2 DEF Reconfigure, Done, Reads
  <2> QED  BY <2>1, <2>2
<1>3. /\ up' = [up EXCEPT ![c] = Tail(up[c])] /\ UNCHANGED <<client, asked, reply, down, text>>
      /\ out' \in {[out EXCEPT ![c] = Line("ready", 0)], out}
      /\ out' = out => out[c] = <<>> \/ out[c] = Line("ready", 0)
      /\ \E th \in {"read", "over"} : thread' = [thread EXCEPT ![c] = th]
  <2>1. thread = [thread EXCEPT ![c] = thread[c]] /\ out = [out EXCEPT ![c] = out[c]]
    BY <1>1 DEF Types, ThreadTypes, StreamTypes
  <2>2. out' = [out EXCEPT ![c] = Line("ready", 0)] => out'[c] = Line("ready", 0)
    BY <1>1 DEF Types, StreamTypes
  <2> QED  BY <2>1, <2>2 DEF First, Reconfigure, Done, Reads, cvars
<1>4. out'[c] \in Seq(Half) /\ NoText(out'[c])
  <2>1. out'[c] \in {Line("ready", 0), <<>>}
    BY <1>1, <1>3 DEF Types, StreamTypes
  <2>2. <<>> \in Seq(Half) /\ NoText(<<>>)
    BY DEF NoText
  <2> DEFINE l == Line("ready", 0)
  <2>3. l \in Seq(Half) /\ NoText(l)
    BY ReadyIs, QuietNoText
  <2> HIDE DEF l
  <2> QED  BY <2>1, <2>2, <2>3 DEF l
<1>5. up'[c] = Tail(up[c])
  BY <1>1, <1>3 DEF Types, StreamTypes
<1>6. ReplyOf(c)'
  BY <1>1, <1>2, <1>3, <1>4, <1>5, HearReplies
<1>7. \A d \in Conns \ {c} : opts'[d] = opts[d] /\ proc'[d] = proc[d]
  BY <1>1 DEF First, Reconfigure, Done, SetOptions, Configured, NotWritten, Types, ThreadTypes, ProcessTypes
<1>8. \A d \in Conns \ {c} : SameReply(d)
  BY <1>1, <1>3, <1>7 DEF SameReply, Types, StreamTypes, ThreadTypes
<1> QED  BY <1>6, <1>8, SameReplies

\* The thread takes the sentence.
LEMMA ParseReplies ==
  ASSUME ServerInv, PrefsInv, ReplyInv, NEW c \in Conns, Parse(c)
  PROVE  ReplyInv'
<1> DEFINE u == up[c]
<1>1. /\ thread[c] = "read" /\ u # <<>> /\ Head(u).kind = "sentence"
      /\ up' = [up EXCEPT ![c] = Tail(u)] /\ text' = [text EXCEPT ![c] = Head(u).k]
      /\ thread' = [thread EXCEPT ![c] = "feed"]
      /\ UNCHANGED <<client, asked, reply, down, out, opts, proc>>
  BY DEF Parse, Reads, cvars
<1>2. Types /\ ReplyOf(c) /\ u \in Seq(Message)
  BY TypesOf DEF ServerInv, ReplyInv
<1>3. TakesTurns(client[c], "read", u, down[c], out[c], errq[c])
  BY <1>1 DEF ServerInv, InOrder
<1>4. /\ up'[c] = Tail(u) /\ text'[c] = Head(u).k /\ thread'[c] = "feed"
      /\ client'[c] = client[c] /\ asked'[c] = asked[c]
      /\ opts'[c] = opts[c] /\ proc'[c] = proc[c] /\ AllOf(c)' = AllOf(c)
  BY <1>1, <1>2 DEF Types, StreamTypes, ThreadTypes, AllOf
<1>5. Head(u) = u[1] /\ 1 \in DOMAIN u
  BY <1>1, <1>2, TailRest
<1>6. client[c] = "wait" /\ 1 = Len(u)
  BY <1>1, <1>3, <1>5 DEF TakesTurns
<1> HIDE DEF u
<1>7. Tail(u) = <<>>
  <2>1. Tail(u) \in Seq(Message) /\ Len(Tail(u)) = 0
    BY <1>1, <1>2, <1>6, TailRest
  <2> QED  BY <2>1, EmptySeq
<1>8. 1 \in Sentences(u)
  BY <1>1, <1>5 DEF Sentences
<1>9. /\ asked[c] > 0 /\ NoText(AllOf(c)) /\ Head(u).k = asked[c]
  BY <1>2, <1>5, <1>6, <1>8 DEF ReplyOf, u
<1>10. \A r \in Roles : proc[c][r].st \notin {"busy", "said"}
  BY <1>1 DEF PrefsInv, PrefsOf, OneWorks
<1>11. Sentences(<<>>) = {}
  BY DEF Sentences
<1>12. Carried(c, asked[c])'
  BY <1>4, <1>9 DEF Carried
<1>13. ReplyOf(c)'
  BY <1>4, <1>7, <1>9, <1>10, <1>11, <1>12 DEF ReplyOf, Carried
<1>14. \A d \in Conns \ {c} : SameReply(d)
  BY <1>1, <1>2 DEF SameReply, Types, StreamTypes, ThreadTypes
<1> QED  BY <1>13, <1>14, SameReplies

\* The sentence that a thread has in the pipeline.
LEMMA InPipeline ==
  ASSUME ServerInv, ReplyInv, NEW c \in Conns, thread[c] \in {"feed", "join"}
  PROVE  /\ client[c] = "wait" /\ asked[c] > 0 /\ asked[c] \in Nat /\ up[c] = <<>> /\ out[c] = <<>>
         /\ reply[c] \in Seq(Half) /\ down[c] \in Seq(Half)
         /\ NoText(reply[c]) /\ NoText(down[c]) /\ NoText(AllOf(c)) /\ Carried(c, asked[c])
         /\ stage[c] \in DOMAIN Pipeline(opts[c]) /\ Role(c) \in Roles
         /\ \A r \in Roles : proc[c][r].st \in {"busy", "said"} => proc[c][r].k = asked[c]
<1>1. /\ ReplyOf(c) /\ TakesTurns(client[c], thread[c], up[c], down[c], out[c], errq[c])
      /\ stage[c] \in DOMAIN Pipeline(opts[c])
  BY DEF ServerInv, ReplyInv, InOrder, AtStage
<1>2. client[c] = "wait" /\ out[c] = <<>> /\ Sentences(up[c]) = {}
  BY <1>1 DEF TakesTurns, Sentences
<1>3. /\ asked[c] \in Nat /\ reply[c] \in Seq(Half) /\ down[c] \in Seq(Half) /\ out[c] \in Seq(Half)
  BY TypesOf DEF ServerInv
<1>4. /\ asked[c] > 0 /\ up[c] = <<>> /\ NoText(AllOf(c)) /\ Carried(c, asked[c])
      /\ \A r \in Roles : proc[c][r].st \in {"busy", "said"} => proc[c][r].k = asked[c]
  BY <1>1, <1>2 DEF ReplyOf
<1>5. NoText(reply[c]) /\ NoText(down[c])
  BY <1>3, <1>4, NoTextAll DEF AllOf
<1>6. Role(c) \in Roles
  BY <1>1, PipelineIs DEF Role
<1> QED  BY <1>1, <1>2, <1>3, <1>4, <1>5, <1>6

\* The text of a stage goes on: it is that of the sentence, or has been lost.
LEMMA PassReplies ==
  ASSUME ServerInv, ReplyInv, NEW c \in Conns, thread[c] \in {"feed", "join"},
         NEW t, Pass(c, t), t = asked[c] \/ (t \in {empty, null} /\ Broken(c)'),
         UNCHANGED <<client, asked, reply, up, down, opts>>,
         \A d \in Conns \ {c} : proc'[d] = proc[d],
         \A r \in Roles : proc'[c][r].st \in {"busy", "said"} => proc'[c][r].k = asked[c]
  PROVE  ReplyInv'
<1>1. Types
  BY DEF ServerInv
<1>2. /\ client[c] = "wait" /\ asked[c] > 0 /\ asked[c] \in Nat /\ up[c] = <<>> /\ out[c] = <<>>
      /\ reply[c] \in Seq(Half) /\ down[c] \in Seq(Half)
      /\ NoText(reply[c]) /\ NoText(down[c]) /\ NoText(AllOf(c))
  BY InPipeline
<1>3. Sentences(<<>>) = {}
  BY DEF Sentences
<1>4. CASE /\ text' = [text EXCEPT ![c] = t] /\ thread' = [thread EXCEPT ![c] = "feed"]
           /\ stage' = [stage EXCEPT ![c] = @ + 1] /\ UNCHANGED out
  <2>1. /\ text'[c] = t /\ thread'[c] = "feed" /\ AllOf(c)' = AllOf(c)
        /\ \A d \in Conns \ {c} : text'[d] = text[d] /\ thread'[d] = thread[d]
    BY <1>1, <1>4 DEF Types, ThreadTypes, AllOf
  <2>2. Carried(c, asked[c])'
    BY <2>1 DEF Carried
  <2>3. ReplyOf(c)'
    BY <1>2, <1>3, <2>1, <2>2 DEF ReplyOf, Carried
  <2>4. \A d \in Conns \ {c} : SameReply(d)
    BY <1>4, <2>1 DEF SameReply
  <2> QED  BY <2>3, <2>4, SameReplies
<1>5. CASE /\ out' = [out EXCEPT ![c] = ReplyTo(t)] /\ text' = [text EXCEPT ![c] = empty]
           /\ thread' = [thread EXCEPT ![c] = "read"]
  <2>1. /\ out'[c] = ReplyTo(t) /\ thread'[c] = "read"
        /\ \A d \in Conns \ {c} : out'[d] = out[d] /\ text'[d] = text[d] /\ thread'[d] = thread[d]
    BY <1>1, <1>5 DEF Types, StreamTypes, ThreadTypes
  <2>2. AllOf(c)' = (reply[c] \o down[c]) \o ReplyTo(t)
    BY <2>1 DEF AllOf
  <2>3. CASE t = asked[c]
    <3>1. TextOf(AllOf(c)', asked[c])
      BY <1>2, <2>2, <2>3, ReplyText
    <3>2. ReplyOf(c)'
      BY <1>2, <1>3, <2>1, <3>1 DEF ReplyOf
    <3>3. \A d \in Conns \ {c} : SameReply(d)
      BY <2>1 DEF SameReply
    <3> QED  BY <3>2, <3>3, SameReplies
  <2>4. CASE t \in {empty, null} /\ Broken(c)'
    <3>1. ReplyTo(t) \in Seq(Half) /\ NoText(ReplyTo(t))
      BY <2>4, ReplyNone
    <3>2. NoText(AllOf(c)')
      BY <1>2, <2>2, <3>1, NoTextAll
    <3>3. ReplyOf(c)'
      BY <1>2, <1>3, <2>1, <2>4, <3>2 DEF ReplyOf
    <3>4. \A d \in Conns \ {c} : SameReply(d)
      BY <2>1 DEF SameReply
    <3> QED  BY <3>3, <3>4, SameReplies
  <2> QED  BY <2>3, <2>4
<1> QED  BY <1>4, <1>5 DEF Pass

LEMMA FeedReplies ==
  ASSUME ServerInv, PrefsInv, ReplyInv, NEW c \in Conns, Feed(c)
  PROVE  ReplyInv'
<1> DEFINE r == Role(c)
<1>1. thread[c] = "feed" /\ UNCHANGED <<client, asked, reply, up, down, opts>> /\ Types
  BY DEF Feed, ServerInv, cvars
<1>2. \A q \in Roles : proc[c][q].st \notin {"busy", "said"}
  BY <1>1 DEF PrefsInv, PrefsOf, OneWorks
<1>3. /\ client[c] = "wait" /\ asked[c] > 0 /\ asked[c] \in Nat /\ up[c] = <<>> /\ out[c] = <<>>
      /\ NoText(AllOf(c)) /\ Carried(c, asked[c]) /\ r \in Roles
      /\ stage[c] \in DOMAIN Pipeline(opts[c]) /\ r = Pipeline(opts[c])[stage[c]]
  BY <1>1, InPipeline DEF Role
<1> HIDE DEF r
<1>4. CASE (text[c] = null \/ ~ Alive(proc[c][r])) /\ Pass(c, null) /\ UNCHANGED proc
  <2>1. Broken(c)
    <3>1. CASE text[c] = null
      BY <1>3, <3>1 DEF Carried, null
    <3>2. CASE ~ Alive(proc[c][r])
      BY <1>3, <3>2 DEF Broken
    <3> QED  BY <1>4, <3>1, <3>2
  <2>2. Broken(c)'
    BY <1>1, <1>4, <2>1 DEF Broken
  <2> QED  BY <1>1, <1>2, <1>4, <2>2, PassReplies
<1>5. CASE /\ text[c] # null /\ Alive(proc[c][r])
           /\ thread' = [thread EXCEPT ![c] = "join"]
           /\ proc' = IF text[c] = empty THEN proc
                      ELSE [proc EXCEPT ![c][r] = [@ EXCEPT !.st = "busy", !.k = text[c]]]
           /\ UNCHANGED <<out, text>>
  <2>1. thread'[c] = "join" /\ \A d \in Conns \ {c} : thread'[d] = thread[d]
    BY <1>1, <1>5 DEF Types, ThreadTypes
  <2>2. /\ \A q \in Roles \ {r} : proc'[c][q] = proc[c][q]
        /\ \A d \in Conns \ {c} : proc'[d] = proc[d]
        /\ Alive(proc'[c][r])
        /\ proc'[c][r].st \in {"busy", "said"} => proc'[c][r].k = text[c] /\ text[c] # empty
    <3>1. CASE text[c] = empty
      BY <1>2, <1>3, <1>5, <3>1
    <3>2. CASE text[c] # empty
      <4> DEFINE p == [proc[c][r] EXCEPT !.st = "busy", !.k = text[c]]
      <4>1. OneProcess(c, r, p)
        BY <1>5, <3>2 DEF OneProcess
      <4>2. p.st = "busy" /\ p.k = text[c]
        <5>1. proc[c][r] \in Process
          BY <1>1, <1>3, TypesOf
        <5> QED  BY <5>1 DEF Process
      <4> HIDE DEF p
      <4>3. /\ proc'[c][r] = p /\ \A q \in Roles \ {r} : proc'[c][q] = proc[c][q]
            /\ \A d \in Conns \ {c} : proc'[d] = proc[d]
        BY <1>1, <1>3, <4>1, OneProcessIs
      <4> QED  BY <3>2, <4>2, <4>3 DEF Alive
    <3> QED  BY <3>1, <3>2
  <2>3. \A q \in Roles : proc'[c][q].st \in {"busy", "said"} => proc'[c][q].k = asked[c]
    <3>1. text[c] # empty => text[c] = asked[c]
      BY <1>3, <1>5 DEF Carried
    <3> QED  BY <1>2, <2>2, <3>1
  <2>4. Broken(c) => Broken(c)'
    <3>1. ASSUME NEW i \in DOMAIN Pipeline(opts[c]), ~ Alive(proc[c][Pipeline(opts[c])[i]])
          PROVE  ~ Alive(proc'[c][Pipeline(opts[c])[i]])
      BY <1>5, <2>2, <3>1, PipelineIs
    <3> QED  BY <1>1, <3>1 DEF Broken
  <2>5. Carried(c, asked[c])'
    BY <1>1, <1>3, <1>5, <2>4 DEF Carried
  <2>6. AllOf(c)' = AllOf(c) /\ Sentences(<<>>) = {}
    BY <1>1, <1>5 DEF AllOf, Sentences
  <2>7. ReplyOf(c)'
    BY <1>1, <1>3, <2>1, <2>3, <2>5, <2>6 DEF ReplyOf, Carried
  <2>8. \A d \in Conns \ {c} : SameReply(d)
    BY <1>1, <1>5, <2>1, <2>2 DEF SameReply
  <2> QED  BY <2>7, <2>8, SameReplies
<1> QED  BY <1>4, <1>5 DEF Feed, r

LEMMA JoinReplies ==
  ASSUME ServerInv, PrefsInv, ReplyInv, NEW c \in Conns, Join(c)
  PROVE  ReplyInv'
<1> DEFINE r == Role(c)
<1>1. thread[c] = "join" /\ UNCHANGED <<client, asked, reply, up, down, opts>> /\ Types
  BY DEF Join, ServerInv, cvars
<1>2. \A q \in Roles \ {r} : proc[c][q].st \notin {"busy", "said"}
  BY <1>1 DEF PrefsInv, PrefsOf, OneWorks, Role
<1>3. /\ r \in Roles /\ stage[c] \in DOMAIN Pipeline(opts[c]) /\ r = Pipeline(opts[c])[stage[c]]
      /\ \A q \in Roles : proc[c][q].st \in {"busy", "said"} => proc[c][q].k = asked[c]
  BY <1>1, InPipeline DEF Role
<1> HIDE DEF r
<1>4. CASE /\ proc[c][r].st = "said" /\ Pass(c, proc[c][r].k)
           /\ proc' = [proc EXCEPT ![c][r].st = "up"]
  <2> DEFINE p == [proc[c][r] EXCEPT !.st = "up"]
  <2>1. OneProcess(c, r, p)
    BY <1>4 DEF OneProcess
  <2>2. p.st = "up"
    <3>1. proc[c][r] \in Process
      BY <1>1, <1>3, TypesOf
    <3> QED  BY <3>1 DEF Process
  <2> HIDE DEF p
  <2>3. /\ proc'[c][r] = p /\ \A q \in Roles \ {r} : proc'[c][q] = proc[c][q]
        /\ \A d \in Conns \ {c} : proc'[d] = proc[d]
    BY <1>1, <1>3, <2>1, OneProcessIs
  <2>4. \A q \in Roles : proc'[c][q].st \notin {"busy", "said"}
    BY <1>2, <2>2, <2>3
  <2>5. Pass(c, asked[c])
    BY <1>3, <1>4
  <2> QED  BY <1>1, <2>3, <2>4, <2>5, PassReplies
<1>5. CASE proc[c][r].st = "dead" /\ Pass(c, empty) /\ UNCHANGED proc
  <2>1. Broken(c)'
    BY <1>1, <1>3, <1>5 DEF Broken, Alive
  <2> QED  BY <1>1, <1>3, <1>5, <2>1, PassReplies
<1> QED  BY <1>4, <1>5 DEF Join, r

\* Half a line that is written passes to the stream.
LEMMA WriteReplies ==
  ASSUME ServerInv, ReplyInv, NEW c \in Conns, Write(c)
  PROVE  ReplyInv'
<1>1. /\ out[c] # <<>> /\ thread[c] = "read" /\ Types /\ ReplyOf(c)
      /\ UNCHANGED <<client, asked, reply, up, opts, text, proc>>
  BY DEF Write, cvars, ServerInv, ReplyInv
<1>2. reply[c] \in Seq(Half) /\ down[c] \in Seq(Half) /\ out[c] \in Seq(Half)
  BY <1>1, TypesOf
<1>3. CASE /\ down' = [down EXCEPT ![c] = Append(down[c], Head(out[c]))]
           /\ out' = [out EXCEPT ![c] = Tail(out[c])] /\ UNCHANGED thread
  <2>1. (reply[c] \o Append(down[c], Head(out[c]))) \o Tail(out[c]) = (reply[c] \o down[c]) \o out[c]
    BY <1>1, <1>2, WriteSame
  <2>2. AllOf(c)' = AllOf(c)
    BY <1>1, <1>3, <2>1 DEF AllOf, Types, StreamTypes
  <2>3. ReplyOf(c)'
    BY <1>1, <1>3, <2>2 DEF ReplyOf, Carried, Broken
  <2>4. \A d \in Conns \ {c} : SameReply(d)
    BY <1>1, <1>3 DEF SameReply, Types, StreamTypes
  <2> QED  BY <2>3, <2>4, SameReplies
<1>4. CASE /\ client[c] = "gone" /\ UNCHANGED down /\ out' = [out EXCEPT ![c] = <<>>]
           /\ UNCHANGED thread \/ thread' = [thread EXCEPT ![c] = "failed"]
  <2>1. ReplyOf(c)'
    BY <1>1, <1>4 DEF ReplyOf
  <2>2. \A d \in Conns \ {c} : SameReply(d)
    BY <1>1, <1>4 DEF SameReply, Types, StreamTypes, ThreadTypes
  <2> QED  BY <2>1, <2>2, SameReplies
<1> QED  BY <1>3, <1>4 DEF Write

\* A process that has ended does not come back, and one keeps to its sentence.
LEMMA ProcessReplies ==
  ASSUME ServerInv, ReplyInv, NEW c \in Conns, Processes(c)
  PROVE  ReplyInv'
<1>1. PICK r \in Roles : Boot(c, r) \/ Answer(c, r)
  BY DEF Processes
<1>2. /\ Types /\ ReplyOf(c) /\ proc[c][r] \in Process
      /\ UNCHANGED <<client, asked, reply, up, down, out, thread, text, opts>>
  BY <1>1, TypesOf DEF Boot, Answer, cvars, tvars, ServerInv, ReplyInv
<1>3. PICK p : /\ OneProcess(c, r, p) /\ p.k = proc[c][r].k /\ Alive(proc[c][r])
               /\ p.st \in {"busy", "said"} => proc[c][r].st \in {"busy", "said"}
  <2>1. CASE Boot(c, r) /\ file[stamp[c]] # unread
    <3> DEFINE p == [proc[c][r] EXCEPT !.cfg = file[stamp[c]]]
    <3>1. OneProcess(c, r, p) /\ Alive(proc[c][r])
      BY <2>1 DEF Boot, OneProcess
    <3>2. p.k = proc[c][r].k /\ p.st = proc[c][r].st
      BY <1>2 DEF Process
    <3> HIDE DEF p
    <3> QED  BY <3>1, <3>2
  <2>2. CASE Boot(c, r) /\ ~ (file[stamp[c]] # unread)
    <3> DEFINE p == [proc[c][r] EXCEPT !.st = "dead"]
    <3>1. OneProcess(c, r, p) /\ Alive(proc[c][r])
      BY <2>2 DEF Boot, OneProcess
    <3>2. p.k = proc[c][r].k /\ p.st = "dead"
      BY <1>2 DEF Process
    <3> HIDE DEF p
    <3> QED  BY <3>1, <3>2
  <2>3. CASE Answer(c, r)
    <3>1. PICK st \in {"said", "dead"} : proc' = [proc EXCEPT ![c][r].st = st]
      BY <2>3 DEF Answer
    <3> DEFINE p == [proc[c][r] EXCEPT !.st = st]
    <3>2. OneProcess(c, r, p) /\ proc[c][r].st = "busy"
      BY <2>3, <3>1 DEF Answer, OneProcess
    <3>3. p.k = proc[c][r].k
      BY <1>2 DEF Process
    <3> HIDE DEF p
    <3> QED  BY <3>2, <3>3 DEF Alive
  <2> QED  BY <1>1, <2>1, <2>2, <2>3
<1>4. /\ proc'[c][r] = p /\ \A q \in Roles \ {r} : proc'[c][q] = proc[c][q]
      /\ \A d \in Conns \ {c} : proc'[d] = proc[d]
  BY <1>2, <1>3, OneProcessIs
<1>5. /\ \A q \in Roles : /\ ~ Alive(proc[c][q]) => ~ Alive(proc'[c][q])
                          /\ proc'[c][q].k = proc[c][q].k
                          /\ proc'[c][q].st \in {"busy", "said"} => proc[c][q].st \in {"busy", "said"}
  BY <1>3, <1>4
<1>6. Broken(c) => Broken(c)'
  BY <1>2, <1>5, PipelineIs DEF Broken
<1>7. AllOf(c)' = AllOf(c)
  BY <1>2 DEF AllOf
<1>8. Carried(c, asked[c]) => Carried(c, asked[c])'
  BY <1>2, <1>6 DEF Carried
<1>9. ReplyOf(c)'
  BY <1>2, <1>5, <1>6, <1>7, <1>8 DEF ReplyOf, Carried
<1>10. \A d \in Conns \ {c} : SameReply(d)
  BY <1>2, <1>4 DEF SameReply
<1> QED  BY <1>9, <1>10, SameReplies

\* Error output comes in between.
LEMMA CopyErrorReplies ==
  ASSUME ServerInv, ReplyInv, NEW c \in Conns, CopyError(c)
  PROVE  ReplyInv'
<1> DEFINE x == Head(errq[c])
<1>1. /\ errq[c] # <<>> /\ Types /\ ReplyOf(c)
      /\ UNCHANGED <<client, asked, reply, up, out, thread, text, opts, proc>>
  BY DEF CopyError, cvars, tvars, ServerInv, ReplyInv
<1>2. /\ reply[c] \in Seq(Half) /\ down[c] \in Seq(Half) /\ out[c] \in Seq(Half)
      /\ errq[c] \in Seq(Half)
  BY <1>1, TypesOf
<1>3. x \in Half /\ x.kind # "text"
  <2>1. TakesTurns(client[c], thread[c], up[c], down[c], out[c], errq[c])
    BY DEF ServerInv, InOrder
  <2>2. x \in Half /\ x = errq[c][1] /\ 1 \in DOMAIN errq[c]
    BY <1>1, <1>2, TailRest
  <2> QED  BY <2>1, <2>2 DEF TakesTurns
<1>4. CASE client[c] = "gone" /\ UNCHANGED down
  BY <1>1, <1>4 DEF ReplyInv, ReplyOf, AllOf, Carried, Broken
<1>5. CASE down' = [down EXCEPT ![c] = Append(down[c], x)]
  <2> HIDE DEF x
  <2>1. AllOf(c)' = (reply[c] \o Append(down[c], x)) \o out[c]
    BY <1>1, <1>5 DEF AllOf, Types, StreamTypes
  <2>2. NoText(AllOf(c)) => NoText(AllOf(c)')
    BY <1>2, <1>3, <2>1, InsertKeeps DEF AllOf
  <2>3. TextOf(AllOf(c), asked[c]) => TextOf(AllOf(c)', asked[c])
    BY <1>2, <1>3, <2>1, InsertKeeps DEF AllOf
  <2>4. (Broken(c) => Broken(c)') /\ (Carried(c, asked[c]) => Carried(c, asked[c])')
    BY <1>1 DEF Broken, Carried
  <2>5. ReplyOf(c)'
    BY <1>1, <2>2, <2>3, <2>4 DEF ReplyOf, Carried
  <2>6. \A d \in Conns \ {c} : SameReply(d)
    BY <1>1, <1>5 DEF SameReply, Types, StreamTypes
  <2> QED  BY <2>5, <2>6, SameReplies
<1> QED  BY <1>4, <1>5 DEF CopyError

LEMMA RepliesInit ==
  ASSUME Init
  PROVE  ReplyInv
BY DEF Init, ReplyInv, ReplyOf

LEMMA RepliesNext ==
  ASSUME ServerInv, PrefsInv, ReplyInv, [Next]_vars
  PROVE  ReplyInv'
<1>1. CASE Next
  <2>1. PICK c \in Conns :
          \/ Connect(c) \/ SendPreferences(c) \/ Ask(c) \/ Disconnect(c)
          \/ ReadReady(c) \/ ReadLine(c)
          \/ Accept(c) \/ Thread(c)
          \/ Processes(c) \/ Complain(c) \/ CopyError(c)
    BY <1>1 DEF Next
  <2>2. CASE Thread(c)
    BY <2>2, MessageReplies, ParseReplies, FeedReplies, JoinReplies, WriteReplies DEF Thread
  <2> QED  BY <2>1, <2>2, IdleReplies, AskReplies, ReadLineReplies, ProcessReplies, CopyErrorReplies
<1>2. CASE UNCHANGED vars
  BY <1>2 DEF vars, cvars, tvars, ReplyInv, ReplyOf, AllOf, Carried, Broken
<1> QED  BY <1>1, <1>2

\* The reply a client has read when sendAndReceive returns holds the text for
\* its sentence, whole and once, whatever error output has come in between; it
\* holds none when a process of the pipeline has ended, and never another's.
THEOREM RepliesAreOwn == Spec => OwnReplies
<1>1. Init => ServerInv /\ PrefsInv /\ ReplyInv
  BY ServerInit, PrefsInit, RepliesInit
<1>2. (ServerInv /\ PrefsInv /\ ReplyInv) /\ [Next]_vars => (ServerInv /\ PrefsInv /\ ReplyInv)'
  BY ServerNext, PrefsNext, RepliesNext
<1>3. ASSUME ServerInv, ReplyInv, Next
      PROVE  \A c \in Conns :
               client[c] = "wait" /\ client'[c] = "idle" =>
                 TextOf(reply[c], asked[c]) \/ (NoText(reply[c]) /\ Broken(c))
  <2> SUFFICES ASSUME NEW c \in Conns, client[c] = "wait", client'[c] = "idle"
               PROVE  TextOf(reply[c], asked[c]) \/ (NoText(reply[c]) /\ Broken(c))
    OBVIOUS
  <2>1. Types /\ client \in [Conns -> {"away", "config", "wait", "idle", "gone"}]
    BY <1>3 DEF ServerInv, Types, ClientTypes
  <2>2. ReadLine(c) /\ FirstLine(down[c]) = Line("end", 0)
    <3>1. PICK d \in Conns :
            \/ Connect(d) \/ SendPreferences(d) \/ Ask(d) \/ Disconnect(d)
            \/ ReadReady(d) \/ ReadLine(d)
            \/ Accept(d) \/ Thread(d)
            \/ Processes(d) \/ Complain(d) \/ CopyError(d)
      BY <1>3 DEF Next
    <3>2. ~ (Accept(d) \/ Thread(d) \/ Processes(d) \/ Complain(d) \/ CopyError(d))
      <4>1. ASSUME Accept(d) \/ Thread(d) \/ Processes(d) \/ Complain(d) \/ CopyError(d)
            PROVE  client' = client
        BY <4>1 DEF Accept, Thread, First, Reconfigure, Parse, Done, Feed, Join, Write,
           Processes, Boot, Answer, Complain, CopyError, cvars
      <4> QED  BY <4>1
    <3>3. ~ (Connect(d) \/ SendPreferences(d) \/ Ask(d) \/ Disconnect(d))
      BY <2>1 DEF Connect, SendPreferences, Ask, Disconnect
    <3>4. ~ ReadReady(d)
      BY <2>1 DEF ReadReady
    <3>5. ReadLine(d)
      BY <3>1, <3>2, <3>3, <3>4
    <3> QED  BY <2>1, <3>5 DEF ReadLine
  <2>3. /\ reply[c] \in Seq(Half) /\ down[c] \in Seq(Half) /\ out[c] \in Seq(Half)
    BY <2>1, TypesOf
  <2>4. ReplyOf(c) /\ TakesTurns(client[c], thread[c], up[c], down[c], out[c], errq[c])
    BY <1>3 DEF ServerInv, ReplyInv, InOrder
  <2>5. HasLine(down[c]) /\ MarkLast(down[c]) /\ (Quiet(out[c]) \/ Unmarked(down[c]))
    BY <2>2, <2>4 DEF ReadLine, TakesTurns
  <2>6. ~ Quiet(down[c])
    BY <2>2, <2>3, <2>5, MarkIsRead
  <2>7. /\ NoText(AllOf(c)) => NoText(reply[c])
        /\ TextOf(AllOf(c), asked[c]) => TextOf(reply[c], asked[c])
    BY <2>2, <2>3, <2>5, MarkIsRead DEF AllOf
  <2>8. Sentences(up[c]) = {} /\ thread[c] \notin {"feed", "join"}
    BY <2>4, <2>6 DEF TakesTurns, Sentences
  <2> QED  BY <2>4, <2>7, <2>8 DEF ReplyOf
<1>4. ServerInv /\ ReplyInv /\ [Next]_vars =>
        [\A c \in Conns :
           client[c] = "wait" /\ client'[c] = "idle" =>
             TextOf(reply[c], asked[c]) \/ (NoText(reply[c]) /\ Broken(c))]_vars
  BY <1>3
<1> QED  BY <1>1, <1>2, <1>4, PTL DEF Spec, OwnReplies
=============================================================================
