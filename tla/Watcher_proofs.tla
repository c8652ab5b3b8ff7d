--------------------------- MODULE Watcher_proofs ---------------------------
(***************************************************************************)
(* Theorems about the critic's watcher, for any configuration of the       *)
(* channels of a ping, any budget and any bounds.                          *)
(***************************************************************************)
EXTENDS Watcher, SequenceTheorems, FiniteSetTheorems, WellFoundedInduction, TLAPS

------------------------------------------------------------------------------
(* The inductive invariant. *)

\* The channel is a sequence and the process has read a prefix of it.
LogIsAChannel ==
    log \in Seq({log[i] : i \in DOMAIN log}) /\ read \in 0 .. Len(log)

\* The notices of a stretch are counted by its attempts: two for the first, one for
\* each other, none once it is quiet.
NoiseIsCounted ==
    /\ noise \in Nat /\ faults \in Nat
    /\ stretch \in [open : BOOLEAN, attempts : Nat, quiet : BOOLEAN]
    /\ ~stretch.open => noise = 0
    /\ stretch.open =>
           /\ noise <= stretch.attempts + 1 /\ stretch.attempts <= Budget
           /\ stretch.attempts < Budget \/ stretch.quiet

\* Nobody moves the gate while a pass that may find something runs.
PassHasItsTurn ==
    pc \in {"review", "post_findings", "post_clean"} => PassAllowed(Len(log))

\* A version, findings or proposals come after the proposals of a round only when the
\* operator has ruled on them.
RulingsEndRounds ==
    \A i, j \in DOMAIN log :
        i < j /\ log[i].kind = "proposals" /\ log[j].kind \in {"artifact", "findings", "proposals"}
            => \E k \in i + 1 .. j - 1 : log[k].kind = "ruling"

\* The proposals a ping is about are the newest until it is noticed, and were not told.
GateIsHeld ==
    pc \in {"gate_ping", "gate_notice"} =>
        /\ GateMovedBy(Len(log)) # "findings"
        /\ Last({"proposals"}, read) = Last({"proposals"}, Len(log))
        /\ ~Told({"gate_ping", "fallback"}, Last({"proposals"}, Len(log)), Len(log))

\* The timer is a round's whose fallback nobody has noticed.
TimerIsOwed ==
    pending # 0 => /\ pending \in Seqs({"proposals"}, Len(log))
                   /\ ~Told({"fallback"}, pending, Len(log))

\* A fallback is read before the timer is taken over again.
FallbackIsRead ==
    pending # 0 \/ pc \notin {"off", "poll"} =>
        \A i \in Seqs({"fallback"}, Len(log)) : i <= read

\* A push of the newest proposals that nothing records is one a fault can answer for.
PushesAreCounted ==
    LET round == Last({"proposals"}, Len(log)) IN
    /\ sent \in [primary : Nat, fallback : Nat]
    /\ \/ sent.primary <= faults
       \/ /\ sent.primary <= faults + 1
          /\ Told({"gate_ping", "fallback"}, round, Len(log)) \/ pc = "gate_notice"
    /\ \/ sent.fallback <= faults
       \/ sent.fallback <= faults + 1 /\ Told({"fallback"}, round, Len(log))

\* A gate on a version that was concluded is one raised without reading the channel.
GatesAreCounted == unread \in Nat /\ ConcludedStands

IInv ==
    /\ LogIsAChannel
    /\ NoiseIsCounted
    /\ PassHasItsTurn
    /\ RulingsEndRounds
    /\ GateIsHeld
    /\ TimerIsOwed
    /\ FallbackIsRead
    /\ PushesAreCounted
    /\ GatesAreCounted

------------------------------------------------------------------------------
(* The last of some messages. *)

\* Naturals are well-founded: a set of them has a least.
LEMMA SmallestOfSome ==
  ASSUME NEW T, T \subseteq Nat, T # {}
  PROVE  \E x \in T : \A y \in T : x <= y
<1> DEFINE R == OpToRel(<, Nat)
<1>1. IsWellFoundedOn(R, Nat)
  BY NatLessThanWellFounded
<1>2. ASSUME NEW x \in Nat, NEW y \in Nat, y < x PROVE <<y, x>> \in R
  BY <1>2 DEF OpToRel
<1> HIDE DEF R
<1>3. PICK x \in T : \A y \in T : ~ (<<y, x>> \in R)
  BY <1>1, WFMin
<1>4. ASSUME NEW y \in T PROVE x <= y
  <2>1. x \in Nat /\ y \in Nat
    OBVIOUS
  <2>2. ~ (y < x)
    BY <1>2, <1>3, <2>1
  <2> QED BY <2>1, <2>2
<1> QED
  BY <1>4

\* Counted from the end, the least of some places of a sequence is the last.
LEMMA GreatestOfSome ==
  ASSUME NEW n \in Nat, NEW T, T \subseteq 1 .. n, T # {}
  PROVE  \E x \in T : \A y \in T : y <= x
<1> DEFINE D == {n - x : x \in T}
<1>1. \A x \in T : x \in Nat /\ n - x \in Nat
  OBVIOUS
<1>2. D \subseteq Nat
  BY <1>1
<1>3. D # {}
  <2>1. PICK x : x \in T
    OBVIOUS
  <2>2. n - x \in D
    BY <2>1
  <2> QED BY <2>2
<1>4. PICK d \in D : \A e \in D : d <= e
  <2> HIDE DEF D
  <2> QED BY <1>2, <1>3, SmallestOfSome
<1>5. PICK x \in T : d = n - x
  BY <1>4
<1>6. ASSUME NEW y \in T PROVE y <= x
  <2>1. n - y \in D
    OBVIOUS
  <2>2. n - x <= n - y
    BY <2>1, <1>4, <1>5
  <2> QED BY <2>2, <1>1
<1> QED
  BY <1>6

\* Last is the last of them, and 0 where there is none.
LEMMA LastIsLast ==
  ASSUME NEW n \in Nat, NEW kinds
  PROVE  /\ Last(kinds, n) \in Nat
         /\ Last(kinds, n) \in Seqs(kinds, n) \cup {0}
         /\ \A i \in Seqs(kinds, n) : i <= Last(kinds, n)
<1> DEFINE S == Seqs(kinds, n)
<1>1. S \subseteq 1 .. n
  BY DEF Seqs
<1>2. Last(kinds, n) = Max(S \cup {0})
  BY DEF Last
<1> HIDE DEF S
<1>3. \E x \in S \cup {0} : \A y \in S \cup {0} : x >= y
  <2>1. CASE S = {}
    BY <2>1
  <2>2. CASE S # {}
    <3>1. PICK x \in S : \A y \in S : y <= x
      BY <1>1, <2>2, GreatestOfSome
    <3> QED
      BY <1>1, <3>1
  <2> QED
    BY <2>1, <2>2
<1>4. /\ Last(kinds, n) \in S \cup {0}
      /\ \A y \in S \cup {0} : Last(kinds, n) >= y
  BY <1>2, <1>3 DEF Max
<1>5. \A y \in S : y <= Last(kinds, n)
  BY <1>1, <1>4
<1> QED
  BY <1>1, <1>4, <1>5 DEF S

\* Two that are both the last are the same.
LEMMA LastIsTheOne ==
  ASSUME NEW n \in Nat, NEW kinds, NEW i \in Seqs(kinds, n),
         \A j \in Seqs(kinds, n) : j <= i
  PROVE  Last(kinds, n) = i
<1>1. \A j \in Seqs(kinds, n) : j \in Nat /\ j # 0
  BY DEF Seqs
<1> QED
  BY <1>1, LastIsLast

------------------------------------------------------------------------------
(* How the channel grows. *)

\* Messages put behind the others, which stay.
Grows ==
    /\ Len(log) \in Nat /\ Len(log') \in Nat /\ Len(log) <= Len(log')
    /\ \A i \in 1 .. Len(log) : log'[i] = log[i]
    /\ DOMAIN log' = 1 .. Len(log')

\* The new ones.
Fresh == Len(log) + 1 .. Len(log')

\* None of the new ones is of these kinds.
Without(kinds) == \A i \in Fresh : log'[i].kind \notin kinds

LEMMA OfItsOwn ==
  ASSUME NEW T, NEW s \in Seq(T)
  PROVE  s \in Seq({s[i] : i \in DOMAIN s})
OBVIOUS

LEMMA ConcatGrows ==
  ASSUME log \in Seq({log[i] : i \in DOMAIN log}), NEW S, NEW more \in Seq(S),
         log' = log \o more
  PROVE  /\ Grows
         /\ log' \in Seq({log'[i] : i \in DOMAIN log'})
         /\ Len(log') = Len(log) + Len(more)
         /\ \A i \in 1 .. Len(more) : log'[Len(log) + i] = more[i]
<1> DEFINE T == {log[i] : i \in DOMAIN log} \cup S
<1>1. log \in Seq(T) /\ more \in Seq(T)
  BY SeqMonotonic
<1> HIDE DEF T
<1>2. /\ log' \in Seq(T)
      /\ Len(log') = Len(log) + Len(more)
      /\ \A i \in 1 .. Len(log') : log'[i] = IF i <= Len(log) THEN log[i] ELSE more[i - Len(log)]
  BY <1>1, ConcatProperties
<1>3. Len(log) \in Nat /\ Len(more) \in Nat
  BY <1>1
<1>4. Grows
  BY <1>2, <1>3 DEF Grows
<1>5. \A i \in 1 .. Len(more) : log'[Len(log) + i] = more[i]
  BY <1>2, <1>3
<1>6. log' \in Seq({log'[i] : i \in DOMAIN log'})
  <2> DEFINE L == log'
  <2>1. L \in Seq(T)
    BY <1>2
  <2> HIDE DEF L
  <2>2. L \in Seq({L[i] : i \in DOMAIN L})
    BY <2>1, OfItsOwn
  <2> QED
    BY <2>2 DEF L
<1> QED
  BY <1>2, <1>4, <1>5, <1>6

LEMMA AppendGrows ==
  ASSUME log \in Seq({log[i] : i \in DOMAIN log}), NEW m, log' = Append(log, m)
  PROVE  /\ Grows
         /\ log' \in Seq({log'[i] : i \in DOMAIN log'})
         /\ Len(log') = Len(log) + 1
         /\ log'[Len(log) + 1] = m
<1> DEFINE T == {log[i] : i \in DOMAIN log} \cup {m}
<1>1. log \in Seq(T) /\ m \in T
  BY SeqMonotonic
<1> HIDE DEF T
<1>2. /\ log' \in Seq(T)
      /\ Len(log) \in Nat /\ Len(log') = Len(log) + 1
      /\ \A i \in 1 .. Len(log) : log'[i] = log[i]
      /\ log'[Len(log) + 1] = m
  BY <1>1
<1>3. log' \in Seq({log'[i] : i \in DOMAIN log'})
  BY <1>2
<1>4. Grows
  BY <1>2 DEF Grows
<1> QED
  BY <1>2, <1>3, <1>4

LEMMA StaysGrows ==
  ASSUME log \in Seq({log[i] : i \in DOMAIN log}), log' = log
  PROVE  /\ Grows /\ Fresh = {}
         /\ log' \in Seq({log'[i] : i \in DOMAIN log'})
BY DEF Grows, Fresh

\* What is said about kinds that do not grow.
LEMMA OldNewsStay ==
  ASSUME Grows, NEW kinds, Without(kinds)
  PROVE  /\ Seqs(kinds, Len(log))' = Seqs(kinds, Len(log))
         /\ Last(kinds, Len(log))' = Last(kinds, Len(log))
         /\ \A ref : Told(kinds, ref, Len(log))' <=> Told(kinds, ref, Len(log))
<1>1. Seqs(kinds, Len(log))' = Seqs(kinds, Len(log))
  BY DEF Grows, Without, Fresh, Seqs
<1>2. Last(kinds, Len(log))' = Last(kinds, Len(log))
  BY <1>1 DEF Last
<1>3. \A i \in Seqs(kinds, Len(log)) : log'[i] = log[i]
  BY DEF Grows, Seqs
<1>4. \A ref : Told(kinds, ref, Len(log))' <=> Told(kinds, ref, Len(log))
  BY <1>1, <1>3 DEF Told
<1> QED
  BY <1>1, <1>2, <1>4

\* What is said once a message of these kinds is put behind the others.
LEMMA NewsComes ==
  ASSUME Grows, Len(log') = Len(log) + 1, NEW kinds, log'[Len(log) + 1].kind \in kinds
  PROVE  /\ Seqs(kinds, Len(log))' = Seqs(kinds, Len(log)) \cup {Len(log) + 1}
         /\ Last(kinds, Len(log))' = Len(log) + 1
         /\ \A ref : Told(kinds, ref, Len(log))' <=>
                \/ Told(kinds, ref, Len(log)) \/ log'[Len(log) + 1].about = ref
<1>1. Seqs(kinds, Len(log))' = Seqs(kinds, Len(log)) \cup {Len(log) + 1}
  BY DEF Grows, Seqs
<1>2. Last(kinds, Len(log))' = Len(log) + 1
  <2> DEFINE S == Seqs(kinds, Len(log))'
  <2>1. Last(kinds, Len(log))' = Max(S \cup {0})
    BY DEF Last
  <2>2. Len(log) \in Nat /\ S \subseteq 1 .. Len(log) + 1 /\ Len(log) + 1 \in S
    BY <1>1 DEF Grows, Seqs
  <2> HIDE DEF S
  <2>3. \A x \in S \cup {0} : (\A y \in S \cup {0} : x >= y) <=> x = Len(log) + 1
    BY <2>2
  <2> QED
    BY <2>1, <2>2, <2>3 DEF Max
<1>3. \A i \in Seqs(kinds, Len(log)) : log'[i] = log[i]
  BY DEF Grows, Seqs
<1>4. \A ref : Told(kinds, ref, Len(log))' <=>
          \/ Told(kinds, ref, Len(log)) \/ log'[Len(log) + 1].about = ref
  BY <1>1, <1>3 DEF Told
<1> QED
  BY <1>1, <1>2, <1>4

\* What the process has read does not change.
LEMMA ReadStays ==
  ASSUME Grows, read \in 0 .. Len(log), read' = read, NEW kinds
  PROVE  Last(kinds, read)' = Last(kinds, read)
<1>1. Seqs(kinds, read)' = Seqs(kinds, read)
  BY DEF Grows, Seqs
<1> QED
  BY <1>1 DEF Last

LEMMA GateIsMovedBy ==
  ASSUME NEW n \in Nat
  PROVE  \/ Seqs(GateMoves, n) = {} /\ GateMovedBy(n) = "nothing"
         \/ /\ Last(GateMoves, n) \in Seqs(GateMoves, n)
            /\ GateMovedBy(n) = log[Last(GateMoves, n)].kind
            /\ GateMovedBy(n) \in GateMoves
<1>1. CASE Seqs(GateMoves, n) = {}
  BY <1>1 DEF GateMovedBy
<1>2. CASE Seqs(GateMoves, n) # {}
  <2>1. PICK i : i \in Seqs(GateMoves, n)
    BY <1>2
  <2>2. i \in Nat /\ i # 0 /\ i <= Last(GateMoves, n) /\ Last(GateMoves, n) \in Nat
    BY <2>1, LastIsLast DEF Seqs
  <2>3. Last(GateMoves, n) \in Seqs(GateMoves, n)
    BY <2>2, LastIsLast
  <2> QED
    BY <1>2, <2>3 DEF GateMovedBy, Seqs
<1> QED
  BY <1>1, <1>2

LEMMA GateStays ==
  ASSUME Grows, Without(GateMoves)
  PROVE  GateMovedBy(Len(log))' = GateMovedBy(Len(log))
<1>1. /\ Seqs(GateMoves, Len(log))' = Seqs(GateMoves, Len(log))
      /\ Last(GateMoves, Len(log))' = Last(GateMoves, Len(log))
  BY OldNewsStay
<1>2. Len(log) \in Nat /\ \A i \in Seqs(GateMoves, Len(log)) : log'[i] = log[i]
  BY DEF Grows, Seqs
<1>3. Seqs(GateMoves, Len(log)) # {} =>
          log'[Last(GateMoves, Len(log))] = log[Last(GateMoves, Len(log))]
  BY <1>2, GateIsMovedBy
<1> QED
  BY <1>1, <1>3 DEF GateMovedBy

LEMMA GateMoved ==
  ASSUME Grows, Len(log') = Len(log) + 1, log'[Len(log) + 1].kind \in GateMoves
  PROVE  GateMovedBy(Len(log))' = log'[Len(log) + 1].kind
<1>1. /\ Seqs(GateMoves, Len(log))' # {}
      /\ Last(GateMoves, Len(log))' = Len(log) + 1
  BY NewsComes
<1> QED
  BY <1>1 DEF GateMovedBy

------------------------------------------------------------------------------
(* What each step puts on the channel. *)

\* The messages the properties look for.
Tracked == GateMoves \cup {"gate_ping", "fallback", "status", "needs_human"}

Single(m) == Len(log') = Len(log) + 1 /\ log'[Len(log) + 1] = m

\* Best-effort posts come whole, in part or not at all.
LEMMA NoticesCome ==
  ASSUME LogIsAChannel, NEW S, NEW messages \in Seq(S), Noticed(messages)
  PROVE  /\ Grows /\ log' \in Seq({log'[i] : i \in DOMAIN log'})
         /\ \A i \in Fresh : \E j \in DOMAIN messages : log'[i] = messages[j]
<1>1. CASE log' = log \o messages
  <2>1. /\ Grows
        /\ log' \in Seq({log'[i] : i \in DOMAIN log'})
        /\ Len(log') = Len(log) + Len(messages)
        /\ \A i \in 1 .. Len(messages) : log'[Len(log) + i] = messages[i]
    BY <1>1, ConcatGrows DEF LogIsAChannel
  <2>2. Len(log) \in Nat /\ Len(messages) \in Nat /\ DOMAIN messages = 1 .. Len(messages)
    BY <2>1 DEF Grows
  <2>3. ASSUME NEW i \in Fresh
        PROVE  \E j \in DOMAIN messages : log'[i] = messages[j]
    <3>1. i - Len(log) \in 1 .. Len(messages) /\ Len(log) + (i - Len(log)) = i
      BY <2>1, <2>2 DEF Fresh
    <3>2. log'[i] = messages[i - Len(log)]
      BY <2>1, <3>1
    <3> QED
      BY <2>2, <3>1, <3>2
  <2> QED
    BY <2>1, <2>3
<1>2. CASE log' = log
  BY <1>2, StaysGrows DEF LogIsAChannel
<1>3. ASSUME NEW j \in DOMAIN messages, log' = Append(log, messages[j])
      PROVE  /\ Grows /\ log' \in Seq({log'[i] : i \in DOMAIN log'})
             /\ \A i \in Fresh : \E k \in DOMAIN messages : log'[i] = messages[k]
  <2>1. /\ Grows /\ log' \in Seq({log'[i] : i \in DOMAIN log'})
        /\ Len(log') = Len(log) + 1 /\ log'[Len(log) + 1] = messages[j]
    BY <1>3, AppendGrows DEF LogIsAChannel
  <2>2. \A i \in Fresh : i = Len(log) + 1
    BY <2>1 DEF Fresh, Grows
  <2> QED
    BY <2>1, <2>2
<1> QED
  BY <1>1, <1>2, <1>3 DEF Noticed

LEMMA NoticeComes ==
  ASSUME LogIsAChannel, NEW m, Noticed(<<m>>)
  PROVE  /\ Grows /\ log' \in Seq({log'[i] : i \in DOMAIN log'})
         /\ \/ log' = log /\ faults' = faults + 1
            \/ Single(m) /\ faults' \in {faults, faults + 1}
<1>1. CASE log' = log \o <<m>> /\ faults' = faults
  <2> DEFINE one == <<m>>
  <2>1. one \in Seq({m}) /\ Len(one) = 1 /\ one[1] = m /\ log' = log \o one
    BY <1>1
  <2> HIDE DEF one
  <2>2. /\ Grows
        /\ log' \in Seq({log'[i] : i \in DOMAIN log'})
        /\ Len(log') = Len(log) + 1
        /\ log'[Len(log) + 1] = m
    <3>1. /\ Grows
          /\ log' \in Seq({log'[i] : i \in DOMAIN log'})
          /\ Len(log') = Len(log) + Len(one)
          /\ \A i \in 1 .. Len(one) : log'[Len(log) + i] = one[i]
      BY <2>1, ConcatGrows DEF LogIsAChannel
    <3>2. Len(log') = Len(log) + 1 /\ log'[Len(log) + 1] = m
      BY <2>1, <3>1
    <3> QED
      BY <3>1, <3>2
  <2> QED
    BY <1>1, <2>2 DEF Single
<1>2. CASE log' = log /\ faults' = faults + 1
  BY <1>2, StaysGrows DEF LogIsAChannel
<1>3. CASE log' = Append(log, m) /\ faults' = faults + 1
  BY <1>3, AppendGrows DEF LogIsAChannel, Single
<1>4. \A i \in DOMAIN <<m>> : <<m>>[i] = m
  OBVIOUS
<1> QED
  BY <1>1, <1>2, <1>3, <1>4 DEF Noticed

\* The posts of a pass.
LEMMA ResultComes ==
  ASSUME LogIsAChannel, NEW m, NEW next, Posted(m, next)
  PROVE  /\ Grows /\ log' \in Seq({log'[i] : i \in DOMAIN log'})
         /\ pc' \in {next, "fault"}
         /\ log' = log \/ Single(m)
<1>1. pc' \in {next, "fault"} /\ (log' = log \/ log' = Append(log, m))
  BY DEF Posted
<1> QED
  BY <1>1, StaysGrows, AppendGrows DEF LogIsAChannel, Single

\* The channel is one, and what a step may add to it.
Adds ==
    \/ log' = log
    \/ Without(Tracked)
    \/ \E kind \in Moves : Move(kind) /\ Single(Message(kind, 0))
    \/ NoticeGate /\ Single(Message("gate_ping", Last({"proposals"}, read)))
    \/ FireFallback /\ ~Answered(pending, read) /\ Single(Message("fallback", pending))
    \/ PostFindings /\ \E kind \in {"findings", "clean"} : Single(Message(kind, version))
    \/ PostStatus /\ Single(Message("status", version))
    \/ PassFails /\ Without(Tracked \ {"needs_human"})
       /\ \A i \in Fresh : log'[i].kind = "needs_human" =>
              /\ log'[i].about = version /\ i = Len(log')
              /\ ~Concluded \/ unread' = unread + 1

LEMMA FailureComes ==
  ASSUME LogIsAChannel, PassFails
  PROVE  /\ Grows /\ log' \in Seq({log'[i] : i \in DOMAIN log'}) /\ Adds
<1> DEFINE error == <<Message("watcher_error", version)>>
           human == <<Message("needs_human", version)>>
           both  == error \o human
           M     == {Message("watcher_error", version), Message("needs_human", version)}
           Cause == ~Concluded \/ unread' = unread + 1
<1>1. /\ error \in Seq(M) /\ Len(error) = 1 /\ error[1].kind = "watcher_error"
      /\ human \in Seq(M) /\ Len(human) = 1
      /\ human[1].kind = "needs_human" /\ human[1].about = version
  BY DEF Message
<1>2. \/ log' = log \/ log' = log \o error
      \/ log' = (log \o error) \o human /\ Cause
  BY DEF PassFails
<1> HIDE DEF M, error, human, Cause
<1>3. CASE log' = log
  BY <1>3, StaysGrows DEF LogIsAChannel, Adds
<1>4. ASSUME NEW more \in Seq(M), log' = log \o more,
             \A i \in 1 .. Len(more) :
                \/ more[i].kind = "watcher_error"
                \/ /\ more[i].kind = "needs_human" /\ more[i].about = version
                   /\ i = Len(more) /\ Cause
      PROVE  /\ Grows /\ log' \in Seq({log'[i] : i \in DOMAIN log'}) /\ Adds
  <2>1. /\ Grows /\ log' \in Seq({log'[i] : i \in DOMAIN log'})
        /\ Len(log') = Len(log) + Len(more)
        /\ \A i \in 1 .. Len(more) : log'[Len(log) + i] = more[i]
    BY <1>4, ConcatGrows DEF LogIsAChannel
  <2>2. ASSUME NEW i \in Fresh
        PROVE  \/ log'[i].kind = "watcher_error"
               \/ /\ log'[i].kind = "needs_human" /\ log'[i].about = version
                  /\ i = Len(log') /\ Cause
    <3>1. i - Len(log) \in 1 .. Len(more) /\ Len(log) + (i - Len(log)) = i
      BY <2>1 DEF Fresh, Grows
    <3>2. log'[i] = more[i - Len(log)]
      BY <2>1, <3>1
    <3> QED
      BY <1>4, <2>1, <3>1, <3>2
  <2>3. Without(Tracked \ {"needs_human"})
    BY <2>2 DEF Without, Tracked, GateMoves
  <2> QED
    BY <2>1, <2>2, <2>3 DEF Adds, Cause
<1>5. CASE log' = log \o error
  <2>1. \A i \in 1 .. Len(error) : error[i].kind = "watcher_error"
    BY <1>1
  <2> QED
    BY <1>1, <1>4, <1>5, <2>1
<1>6. CASE log' = (log \o error) \o human /\ Cause
  <2>1. log' = log \o both
    BY <1>1, <1>6, ConcatAssociative DEF LogIsAChannel
  <2>2. /\ both \in Seq(M) /\ Len(both) = 2
        /\ both[1] = error[1] /\ both[2] = human[1]
    BY <1>1, ConcatProperties
  <2> HIDE DEF both
  <2>3. \A i \in 1 .. Len(both) :
          \/ both[i].kind = "watcher_error"
          \/ /\ both[i].kind = "needs_human" /\ both[i].about = version
             /\ i = Len(both) /\ Cause
    BY <1>1, <1>6, <2>2
  <2> QED
    BY <1>4, <2>1, <2>2, <2>3
<1> QED
  BY <1>2, <1>3, <1>5, <1>6

\* Notices about the machinery are none the properties look for.
LEMMA AsidesCome ==
  ASSUME LogIsAChannel, NEW S, NEW messages \in Seq(S), Noticed(messages),
         \A i \in DOMAIN messages : messages[i].kind \in {"fault", "items_ping"}
  PROVE  /\ Grows /\ log' \in Seq({log'[i] : i \in DOMAIN log'}) /\ Without(Tracked)
BY NoticesCome DEF Without, Tracked, GateMoves

LEMMA MachineryIsAside ==
  ASSUME LogIsAChannel, NoticeItems \/ Recover \/ Contain
  PROVE  /\ Grows /\ log' \in Seq({log'[i] : i \in DOMAIN log'})
         /\ log' = log \/ Without(Tracked)
<1> DEFINE one   == Message("fault", 0)
           two   == Message("items_ping", Last(Items, read))
           M     == {one, two}
           fault == <<one>>
           both  == <<one, two>>
           first == IF stretch.open THEN <<>> ELSE fault
           next  == IF stretch.open /\ stretch.quiet THEN <<>> ELSE fault
<1>1. fault \in Seq(M) /\ both \in Seq(M) /\ FaultNotices \in Seq(M)
  <2>1. FaultNotices = first \o next
    BY DEF FaultNotices
  <2> HIDE DEF one, two
  <2>2. fault \in Seq(M) /\ both \in Seq(M) /\ first \in Seq(M) /\ next \in Seq(M)
    <3>1. one \in M /\ two \in M
      OBVIOUS
    <3> HIDE DEF M
    <3>2. <<>> \in Seq(M) /\ <<one>> \in Seq(M) /\ <<one, two>> \in Seq(M)
      BY <3>1
    <3> QED
      BY <3>2
  <2> HIDE DEF first, next, M
  <2>3. first \o next \in Seq(M)
    BY <2>2
  <2> QED
    BY <2>1, <2>2, <2>3
<1>2. \A m \in M : m.kind \in {"fault", "items_ping"}
  BY DEF Message
<1> HIDE DEF M, fault, both
<1>3. \A s \in Seq(M) : \A i \in DOMAIN s : s[i].kind \in {"fault", "items_ping"}
  BY <1>2
<1>4. \/ log' = log \/ Noticed(fault) \/ Noticed(both) \/ Noticed(FaultNotices)
  BY DEF NoticeItems, Recover, Contain, fault, both
<1> QED
  BY <1>1, <1>3, <1>4, AsidesCome, StaysGrows DEF LogIsAChannel

LEMMA ChannelGrows ==
  ASSUME LogIsAChannel, [Next]_vars
  PROVE  Grows /\ LogIsAChannel' /\ Adds
<1> DEFINE Own == log' \in Seq({log'[i] : i \in DOMAIN log'})
<1>0. read' = read \/ read' = 0 \/ read' = Len(log)
  BY DEF Next, Polling, Pass, Ends, Start, Poll, PushGate, NoticeGate, NoticeItems, PassFaults,
         PassAbandoned, PassConcludes, PostFindings, PostStatus, Recover, Contain,
         FireFallback, PassFails, Gone, Die, Break, Repair, Move, vars, process
<1> SUFFICES Grows /\ Own /\ Adds
  BY <1>0 DEF LogIsAChannel, Grows
<1> HIDE DEF Own
<1>1. CASE log' = log
  BY <1>1, StaysGrows DEF Own, LogIsAChannel, Adds
<1>2. CASE NoticeItems \/ Recover \/ Contain
  BY <1>2, MachineryIsAside DEF Own, Adds
<1>3. CASE PassFails
  BY <1>3, FailureComes DEF Own
<1>4. CASE NoticeGate
  <2>1. Noticed(<<Message("gate_ping", Last({"proposals"}, read))>>)
    BY <1>4 DEF NoticeGate
  <2> QED
    BY <1>4, <2>1, NoticeComes DEF Own, Adds
<1>5. CASE FireFallback /\ log' # log
  <2>1. ~Answered(pending, read) /\ Noticed(<<Message("fallback", pending)>>)
    BY <1>5 DEF FireFallback
  <2> QED
    BY <1>5, <2>1, NoticeComes DEF Own, Adds
<1>6. CASE PostFindings
  <2>1. \E kind \in {"findings", "clean"} : Posted(Message(kind, version), "post_status")
    BY <1>6 DEF PostFindings
  <2> QED
    BY <1>6, <2>1, ResultComes DEF Own, Adds
<1>7. CASE PostStatus
  <2>1. CASE Posted(Message("status", version), "recovered")
    BY <1>7, <2>1, ResultComes DEF Own, Adds
  <2>2. CASE log' = Append(log, Message("refusal", version))
    <3>1. Grows /\ Own /\ Len(log') = Len(log) + 1
          /\ log'[Len(log) + 1] = Message("refusal", version)
      BY <2>2, AppendGrows DEF Own, LogIsAChannel
    <3>2. Without(Tracked)
      BY <3>1 DEF Without, Fresh, Grows, Tracked, GateMoves, Message
    <3> QED
      BY <3>1, <3>2 DEF Own, Adds
  <2> QED
    BY <1>7, <2>1, <2>2 DEF PostStatus
<1>8. ASSUME NEW kind \in Moves, Move(kind)
      PROVE  Grows /\ Own /\ Adds
  <2>1. log' = Append(log, Message(kind, 0))
    BY <1>8 DEF Move
  <2> QED
    BY <1>8, <2>1, AppendGrows DEF Own, LogIsAChannel, Adds, Single
<1>9. \/ Start \/ Poll \/ PushGate \/ PassFaults \/ PassAbandoned \/ PassConcludes
      \/ Die \/ Break \/ Repair \/ UNCHANGED vars
      => log' = log
  BY DEF Start, Poll, PushGate, PassFaults, PassAbandoned, PassConcludes, Die, Break,
         Repair, vars
<1> QED
  BY <1>1, <1>2, <1>3, <1>4, <1>5, <1>6, <1>7, <1>8, <1>9 DEF Next, Polling, Pass, Ends

LEMMA SingleIsWithout ==
  ASSUME Grows, NEW m, Single(m), NEW kinds, m.kind \notin kinds
  PROVE  Without(kinds)
BY DEF Grows, Single, Without, Fresh

LEMMA FewerKinds ==
  ASSUME NEW kinds, NEW fewer, fewer \subseteq kinds, Without(kinds) \/ log' = log, Grows
  PROVE  Without(fewer)
BY DEF Without, Fresh, Grows

\* What is on the channel stays.
LEMMA OldNewsStand ==
  ASSUME Grows, NEW kinds
  PROVE  /\ Seqs(kinds, Len(log)) \subseteq Seqs(kinds, Len(log))'
         /\ \A ref : Told(kinds, ref, Len(log)) => Told(kinds, ref, Len(log))'
<1>1. /\ Seqs(kinds, Len(log)) \subseteq Seqs(kinds, Len(log))'
      /\ \A i \in Seqs(kinds, Len(log)) : log'[i] = log[i]
  BY DEF Grows, Seqs
<1> QED
  BY <1>1 DEF Told

------------------------------------------------------------------------------
(* Each part is preserved. *)

\* Only findings and the others' moves move the gate.
LEMMA GateMovers ==
  ASSUME Grows, Adds
  PROVE  \/ Without(GateMoves)
         \/ \E kind \in {"artifact", "proposals", "ruling"} :
                Move(kind) /\ Single(Message(kind, 0))
         \/ PostFindings /\ Single(Message("findings", version))
<1>1. CASE log' = log \/ Without(Tracked)
  BY <1>1, FewerKinds DEF Tracked
<1>2. ASSUME NEW kind \in Moves, Move(kind), Single(Message(kind, 0)),
             kind \notin {"artifact", "proposals", "ruling"}
      PROVE  Without(GateMoves)
  BY <1>2, SingleIsWithout DEF GateMoves, Moves, Message
<1>3. ASSUME NEW kind \in {"gate_ping", "fallback", "clean", "status"}, NEW about,
             Single(Message(kind, about))
      PROVE  Without(GateMoves)
  BY <1>3, SingleIsWithout DEF GateMoves, Message
<1>4. CASE Without(Tracked \ {"needs_human"})
  BY <1>4, FewerKinds DEF Tracked, GateMoves
<1> QED
  BY <1>1, <1>2, <1>3, <1>4 DEF Adds

\* Where a pass that may find something stands, and the ping of a gate.
LEMMA PlacesAreReached ==
  ASSUME [Next]_vars
  PROVE  /\ pc' \in {"review", "post_findings", "post_clean"} =>
                \/ log' = log /\ pc \in {"review", "post_findings", "post_clean"}
                \/ log' = log /\ PassDue(Len(log))
                \/ /\ pc' = pc /\ \E kind \in Moves : Move(kind)
         /\ pc' \in {"gate_ping", "gate_notice"} =>
                \/ log' = log /\ read' = Len(log) /\ GatePingDue(Len(log))
                \/ log' = log /\ read' = read /\ pc \in {"gate_ping", "gate_notice"}
                \/ /\ pc' = pc /\ read' = read /\ \E kind \in Moves : Move(kind)
<1>1. Poll => /\ log' = log /\ read' = Len(log)
              /\ pc' = "review" => PassDue(Len(log))
              /\ pc' = "gate_ping" => GatePingDue(Len(log))
              /\ pc' \in {"poll", "gate_ping", "review", "operator_ping"}
  BY DEF Poll, Plan, Loop
<1> QED
  BY <1>1 DEF Next, Polling, Pass, Ends, Start, PushGate, NoticeGate, NoticeItems,
       PassFaults, PassAbandoned, PassConcludes, PostFindings, PostStatus, Posted, Recover,
       Contain, Loop, FireFallback, PassFails, Gone, Die, Break, Repair, Move, vars, process

LEMMA PassStep ==
  ASSUME LogIsAChannel, PassHasItsTurn, [Next]_vars
  PROVE  PassHasItsTurn'
<1> SUFFICES ASSUME pc' \in {"review", "post_findings", "post_clean"}
             PROVE  PassAllowed(Len(log))'
  BY DEF PassHasItsTurn
<1>1. Grows /\ Adds
  BY ChannelGrows
<1>2. CASE log' = log /\ PassAllowed(Len(log))
  BY <1>2 DEF PassAllowed, GateMovedBy, Seqs, Last
<1>3. ASSUME pc' = pc, NEW kind \in Moves, Move(kind)
      PROVE  PassAllowed(Len(log))'
  <2>1. GateMovedBy(Len(log)) \in {"nothing", "artifact"}
    BY <1>3 DEF PassHasItsTurn, PassAllowed
  <2>2. Single(Message(kind, 0))
    BY <1>3, AppendGrows DEF LogIsAChannel, Move, Single
  <2>3. kind \notin {"proposals", "ruling"}
    BY <1>3, <2>1 DEF Move, MoveAllowed, GateOpen
  <2>4. CASE kind = "artifact"
    <3>1. log'[Len(log) + 1].kind = "artifact" /\ Len(log') = Len(log) + 1
      BY <2>2, <2>4 DEF Single, Message
    <3>2. GateMovedBy(Len(log))' = "artifact"
      BY <1>1, <3>1, GateMoved DEF GateMoves
    <3> QED
      BY <3>2 DEF PassAllowed
  <2>5. CASE kind # "artifact"
    <3>1. Without(GateMoves)
      BY <1>1, <2>2, <2>3, <2>5, SingleIsWithout DEF GateMoves, Moves, Message
    <3> QED
      BY <1>1, <2>1, <3>1, GateStays DEF PassAllowed
  <2> QED
    BY <2>4, <2>5
<1> QED
  BY <1>2, <1>3, PlacesAreReached DEF PassHasItsTurn, PassDue

LEMMA RulingsStep ==
  ASSUME LogIsAChannel, PassHasItsTurn, RulingsEndRounds, [Next]_vars
  PROVE  RulingsEndRounds'
<1>1. Grows /\ Adds /\ DOMAIN log = 1 .. Len(log)
  BY ChannelGrows DEF LogIsAChannel
<1> SUFFICES ASSUME NEW i \in 1 .. Len(log'), NEW j \in 1 .. Len(log'), i < j,
                    log'[i].kind = "proposals",
                    log'[j].kind \in {"artifact", "findings", "proposals"}
             PROVE  \E k \in i + 1 .. j - 1 : log'[k].kind = "ruling"
  BY <1>1 DEF RulingsEndRounds, Grows
<1>2. CASE j <= Len(log)
  <2>1. log'[i] = log[i] /\ log'[j] = log[j] /\ i \in DOMAIN log /\ j \in DOMAIN log
    BY <1>1, <1>2 DEF Grows
  <2>2. PICK k \in i + 1 .. j - 1 : log[k].kind = "ruling"
    BY <2>1 DEF RulingsEndRounds
  <2>3. log'[k] = log[k]
    BY <1>1, <1>2, <2>2 DEF Grows
  <2> QED
    BY <2>2, <2>3
<1>3. CASE j > Len(log)
  <2> DEFINE g == Last(GateMoves, Len(log))
  <2>1. ~Without(GateMoves)
    BY <1>1, <1>3 DEF Without, Fresh, Grows, GateMoves
  <2>2. /\ j = Len(log) + 1
        /\ GateMovedBy(Len(log)) # "proposals"
    <3>1. ASSUME NEW kind \in {"artifact", "proposals", "ruling"},
                 Move(kind), Single(Message(kind, 0))
          PROVE  j = Len(log) + 1 /\ GateMovedBy(Len(log)) # "proposals"
      <4>1. j = Len(log) + 1 /\ kind # "ruling"
        BY <1>1, <1>3, <3>1 DEF Single, Message, Grows
      <4> QED
        BY <3>1, <4>1 DEF Move, MoveAllowed
    <3>2. CASE PostFindings /\ Single(Message("findings", version))
      <4>1. j = Len(log) + 1
        BY <1>1, <1>3, <3>2 DEF Single, Grows
      <4> QED
        BY <3>2, <4>1 DEF PostFindings, PassHasItsTurn, PassAllowed
    <3> QED
      BY <1>1, <2>1, <3>1, <3>2, GateMovers
  <2>3. GateMovedBy(Len(log)) \in {"nothing", "artifact", "findings", "ruling"}
    BY <1>1, <2>2, GateIsMovedBy DEF Grows, GateMoves
  <2>4. i \in Seqs(GateMoves, Len(log)) /\ log[i].kind = "proposals" /\ i \in DOMAIN log
    BY <1>1, <2>2 DEF Seqs, GateMoves, Grows
  <2>5. /\ g \in Seqs(GateMoves, Len(log)) /\ i <= g
        /\ log[g].kind \in {"artifact", "findings", "ruling"}
    <3>1. g \in Seqs(GateMoves, Len(log)) /\ log[g].kind = GateMovedBy(Len(log))
          /\ GateMovedBy(Len(log)) \in GateMoves
      BY <1>1, <2>4, GateIsMovedBy DEF Grows
    <3> QED
      BY <1>1, <2>3, <2>4, <3>1, LastIsLast DEF Grows, GateMoves
  <2> HIDE DEF g
  <2>6. i < g /\ g \in DOMAIN log /\ g \in 1 .. Len(log)
    <3>1. g # i
      BY <2>4, <2>5
    <3> QED
      BY <1>1, <2>4, <2>5, <3>1 DEF Seqs, Grows
  <2>7. \E k \in i + 1 .. g : log[k].kind = "ruling"
    <3>1. CASE log[g].kind = "ruling"
      BY <2>6, <3>1
    <3>2. CASE log[g].kind \in {"artifact", "findings"}
      <4>1. PICK k \in i + 1 .. g - 1 : log[k].kind = "ruling"
        BY <2>4, <2>6, <3>2 DEF RulingsEndRounds
      <4> QED
        BY <2>6, <4>1
    <3> QED
      BY <2>5, <3>1, <3>2
  <2>8. PICK k \in i + 1 .. g : log[k].kind = "ruling"
    BY <2>7
  <2>9. k \in i + 1 .. j - 1 /\ log'[k] = log[k]
    BY <1>1, <2>2, <2>6 DEF Grows
  <2> QED
    BY <2>8, <2>9
<1> QED
  BY <1>1, <1>2, <1>3 DEF Grows

\* No proposals come while a ping waits to be pushed or noticed: they need findings,
\* and the process that would post them is the one that pings.
LEMMA GateStep ==
  ASSUME LogIsAChannel, GateIsHeld, [Next]_vars
  PROVE  GateIsHeld'
<1> DEFINE told  == {"gate_ping", "fallback"}
           round == Last({"proposals"}, Len(log))
<1>1. Grows /\ Adds /\ Len(log) \in Nat /\ read \in 0 .. Len(log)
  BY ChannelGrows DEF LogIsAChannel, Grows
<1> SUFFICES ASSUME pc' \in {"gate_ping", "gate_notice"}
             PROVE  /\ GateMovedBy(Len(log))' # "findings"
                    /\ Last({"proposals"}, read)' = round'
                    /\ ~Told(told, round, Len(log))'
  BY DEF GateIsHeld
<1>2. CASE log' = log /\ read' = Len(log) /\ GatePingDue(Len(log))
  <2>1. GateMovedBy(Len(log)) = "proposals" /\ ~Told(told, round, Len(log))
    BY <1>2 DEF GatePingDue, GateOpen
  <2> QED
    BY <1>2, <2>1 DEF GateMovedBy, Told, Last, Seqs
<1>3. CASE log' = log /\ read' = read /\ pc \in {"gate_ping", "gate_notice"}
  BY <1>3 DEF GateIsHeld, GateMovedBy, Told, Last, Seqs
<1>4. ASSUME pc' = pc, read' = read, NEW kind \in Moves, Move(kind)
      PROVE  /\ GateMovedBy(Len(log))' # "findings"
             /\ Last({"proposals"}, read)' = round'
             /\ ~Told(told, round, Len(log))'
  <2>1. /\ GateMovedBy(Len(log)) # "findings"
        /\ Last({"proposals"}, read) = round
        /\ ~Told(told, round, Len(log))
    BY <1>4 DEF GateIsHeld
  <2>2. Single(Message(kind, 0))
    BY <1>4, AppendGrows DEF LogIsAChannel, Move, Single
  <2>3. kind # "proposals"
    BY <1>4, <2>1 DEF Move, MoveAllowed
  <2>4. Without({"proposals"}) /\ Without(told)
    BY <1>1, <2>2, <2>3, SingleIsWithout DEF Moves, Message
  <2>5. round' = round /\ ~Told(told, round, Len(log))'
    <3>1. round' = round
      BY <1>1, <2>4, OldNewsStay
    <3>2. \A ref : Told(told, ref, Len(log))' <=> Told(told, ref, Len(log))
      BY <1>1, <2>4, OldNewsStay
    <3>3. ~Told(told, round, Len(log))'
      BY <2>1, <3>1, <3>2 DEF Told
    <3> QED
      BY <3>1, <3>3
  <2>6. Last({"proposals"}, read)' = Last({"proposals"}, read)
    BY <1>1, <1>4, ReadStays
  <2>7. GateMovedBy(Len(log))' # "findings"
    <3>1. CASE kind \in GateMoves
      <4>1. Len(log') = Len(log) + 1 /\ log'[Len(log) + 1].kind = kind /\ kind # "findings"
        BY <2>2 DEF Single, Message, Moves
      <4> QED
        BY <1>1, <3>1, <4>1, GateMoved
    <3>2. CASE kind \notin GateMoves
      <4>1. Without(GateMoves)
        BY <1>1, <2>2, <3>2, SingleIsWithout DEF Message
      <4> QED
        BY <1>1, <2>1, <4>1, GateStays
    <3> QED
      BY <3>1, <3>2
  <2> QED
    BY <2>1, <2>5, <2>6, <2>7
<1> QED
  BY <1>2, <1>3, <1>4, PlacesAreReached

\* Only the timer's firing posts a fallback, and it ends the timer.
LEMMA FallbackIsFired ==
  ASSUME Grows, Adds
  PROVE  Without({"fallback"}) \/ FireFallback
<1>1. CASE log' = log \/ Without(Tracked)
  BY <1>1, FewerKinds DEF Tracked
<1>2. CASE Without(Tracked \ {"needs_human"})
  BY <1>2, FewerKinds DEF Tracked, GateMoves
<1>3. ASSUME NEW kind, kind # "fallback", NEW about, Single(Message(kind, about))
      PROVE  Without({"fallback"})
  BY <1>3, SingleIsWithout DEF Message
<1>4. "fallback" \notin Moves
  BY DEF Moves
<1> QED
  BY <1>1, <1>2, <1>3, <1>4 DEF Adds

\* Where a timer that runs after a step comes from.
LEMMA TimersAreSet ==
  ASSUME [Next]_vars, pending' # 0
  PROVE  \/ pending' = pending
         \/ log' = log /\ pending' = FallbackResumed(Len(log))
         \/ pc \notin {"off", "poll"} /\ pending' = FallbackResumed(read)
         \/ NoticeGate /\ pending' = Last({"proposals"}, read)
BY DEF Next, Polling, Pass, Ends, Start, Poll, PushGate, NoticeGate, NoticeItems,
       PassFaults, PassAbandoned, PassConcludes, PostFindings, PostStatus, Recover, Contain,
       Loop, FireFallback, PassFails, Gone, Die, Break, Repair, Move, vars, process

\* A timer taken over from a journal read as far as the last fallback is owed.
LEMMA ResumedIsOwed ==
  ASSUME NEW n \in Nat, Len(log) \in Nat, n <= Len(log), FallbackResumed(n) # 0,
         \A i \in Seqs({"fallback"}, Len(log)) : i <= n
  PROVE  /\ FallbackResumed(n) \in Seqs({"proposals"}, Len(log))
         /\ ~Told({"fallback"}, FallbackResumed(n), Len(log))
<1>1. /\ FallbackResumed(n) = Last({"proposals"}, n)
      /\ ~Told({"fallback"}, Last({"proposals"}, n), n)
  BY DEF FallbackResumed
<1>2. Last({"proposals"}, n) \in Seqs({"proposals"}, n)
  BY <1>1, LastIsLast
<1>3. Seqs({"proposals"}, n) \subseteq Seqs({"proposals"}, Len(log))
  BY DEF Seqs
<1>4. Seqs({"fallback"}, Len(log)) \subseteq Seqs({"fallback"}, n)
  BY DEF Seqs
<1> QED
  BY <1>1, <1>2, <1>3, <1>4 DEF Told

LEMMA TimerStep ==
  ASSUME LogIsAChannel, GateIsHeld, TimerIsOwed, FallbackIsRead, [Next]_vars
  PROVE  TimerIsOwed'
<1> DEFINE Owed(p) == /\ p \in Seqs({"proposals"}, Len(log))
                      /\ ~Told({"fallback"}, p, Len(log))
<1>1. Grows /\ Adds /\ Len(log) \in Nat /\ read \in 0 .. Len(log)
  BY ChannelGrows DEF LogIsAChannel, Grows
<1> SUFFICES ASSUME pending' # 0
             PROVE  TimerIsOwed'
  BY DEF TimerIsOwed
<1>2. Without({"fallback"})
  <2>1. ~FireFallback
    BY DEF FireFallback
  <2> QED
    BY <1>1, <2>1, FallbackIsFired
<1>3. Owed(pending')
  <2>1. CASE pending' = pending
    BY <2>1 DEF TimerIsOwed
  <2>2. CASE log' = log /\ pending' = FallbackResumed(Len(log))
    <3>1. \A i \in Seqs({"fallback"}, Len(log)) : i <= Len(log)
      BY <1>1 DEF Seqs
    <3> QED
      BY <1>1, <2>2, <3>1, ResumedIsOwed
  <2>3. CASE pc \notin {"off", "poll"} /\ pending' = FallbackResumed(read)
    <3>1. \A i \in Seqs({"fallback"}, Len(log)) : i <= read
      BY <2>3 DEF FallbackIsRead
    <3> QED
      BY <1>1, <2>3, <3>1, ResumedIsOwed
  <2>4. CASE NoticeGate /\ pending' = Last({"proposals"}, read)
    <3>1. /\ pending' = Last({"proposals"}, Len(log))
          /\ ~Told({"gate_ping", "fallback"}, pending', Len(log))
      BY <2>4 DEF NoticeGate, GateIsHeld
    <3>2. pending' \in Seqs({"proposals"}, Len(log))
      BY <1>1, <3>1, LastIsLast
    <3>3. ~Told({"fallback"}, pending', Len(log))
      BY <3>1 DEF Told, Seqs
    <3> QED
      BY <3>2, <3>3
  <2> QED
    BY <2>1, <2>2, <2>3, <2>4, TimersAreSet
<1>4. /\ Seqs({"proposals"}, Len(log)) \subseteq Seqs({"proposals"}, Len(log))'
      /\ \A ref : Told({"fallback"}, ref, Len(log))' <=> Told({"fallback"}, ref, Len(log))
  BY <1>1, <1>2, OldNewsStand, OldNewsStay
<1>5. pending' \in Seqs({"proposals"}, Len(log))'
  BY <1>3, <1>4
<1>6. ~Told({"fallback"}, pending, Len(log))'
  BY <1>3, <1>4 DEF Told
<1> QED
  BY <1>5, <1>6 DEF TimerIsOwed

LEMMA FallbackStep ==
  ASSUME LogIsAChannel, FallbackIsRead, [Next]_vars
  PROVE  FallbackIsRead'
<1>1. Grows /\ Adds /\ Len(log) \in Nat /\ read \in 0 .. Len(log)
  BY ChannelGrows DEF LogIsAChannel, Grows
<1> SUFFICES ASSUME pending' # 0 \/ pc' \notin {"off", "poll"}
             PROVE  \A i \in Seqs({"fallback"}, Len(log))' : i <= read'
  BY DEF FallbackIsRead
<1>2. \/ read' = Len(log) /\ log' = log
      \/ read' = read /\ (pending # 0 \/ pc \notin {"off", "poll"})
  BY DEF Next, Polling, Pass, Ends, Start, Poll, PushGate, NoticeGate, NoticeItems,
       PassFaults, PassAbandoned, PassConcludes, PostFindings, PostStatus, Recover, Contain,
       Loop, FireFallback, PassFails, Gone, Die, Break, Repair, Move, vars, process
<1>3. Without({"fallback"})
  <2>1. ~FireFallback
    BY DEF FireFallback
  <2> QED
    BY <1>1, <2>1, FallbackIsFired
<1>4. Seqs({"fallback"}, Len(log))' = Seqs({"fallback"}, Len(log))
  BY <1>1, <1>3, OldNewsStay
<1>5. \A i \in Seqs({"fallback"}, Len(log)) : i <= Len(log)
  BY <1>1 DEF Seqs
<1> QED
  BY <1>2, <1>4, <1>5 DEF FallbackIsRead

\* A round nobody answered is the newest.
LEMMA UnansweredIsNewest ==
  ASSUME LogIsAChannel, RulingsEndRounds, TimerIsOwed, pending # 0,
         ~Answered(pending, Len(log))
  PROVE  Last({"proposals"}, Len(log)) = pending
<1>1. Len(log) \in Nat /\ DOMAIN log = 1 .. Len(log)
  BY DEF LogIsAChannel
<1>2. pending \in Seqs({"proposals"}, Len(log))
  BY DEF TimerIsOwed
<1>3. ASSUME NEW j \in Seqs({"proposals"}, Len(log)), ~ j <= pending
      PROVE  FALSE
  <2>1. PICK k \in pending + 1 .. j - 1 : log[k].kind = "ruling"
    <3>1. /\ pending \in DOMAIN log /\ j \in DOMAIN log /\ pending < j
          /\ log[pending].kind = "proposals" /\ log[j].kind = "proposals"
      BY <1>1, <1>2, <1>3 DEF Seqs
    <3> QED
      BY <3>1 DEF RulingsEndRounds
  <2>2. k \in Seqs({"directive", "ruling"}, Len(log)) /\ k > pending
    BY <1>1, <1>2, <1>3, <2>1 DEF Seqs
  <2>3. Last({"directive", "ruling"}, Len(log)) > pending
    <3>1. k \in Nat /\ pending \in Nat
      BY <1>1, <1>2, <2>2 DEF Seqs
    <3> QED
      BY <1>1, <2>2, <3>1, LastIsLast
  <2> QED
    BY <2>3 DEF Answered
<1> QED
  BY <1>1, <1>2, <1>3, LastIsTheOne

\* What a step does to the pushes and the faults.
LEMMA PushesAreMade ==
  ASSUME [Next]_vars, faults \in Nat
  PROVE  /\ faults' \in {faults, faults + 1}
         /\ \/ sent' = sent
            \/ PushGate /\ sent' = [sent EXCEPT !.primary = @ + 1]
            \/ FireFallback /\ ~Answered(pending, read) /\ sent' = [sent EXCEPT !.fallback = @ + 1]
            \/ Move("proposals") /\ sent' = NoPush
<1>1. faults' \in {faults, faults + 1}
  BY DEF Next, Polling, Pass, Ends, Start, Poll, PushGate, NoticeGate, NoticeItems,
       PassFaults, PassAbandoned, PassConcludes, PostFindings, PostStatus, Posted, Noticed,
       Recover, Contain, FireFallback, PassFails, Die, Break, Repair, Move, vars, counts
<1>2. \/ sent' = sent
      \/ PushGate /\ sent' = [sent EXCEPT !.primary = @ + 1]
      \/ FireFallback /\ ~Answered(pending, read) /\ sent' = [sent EXCEPT !.fallback = @ + 1]
      \/ Move("proposals") /\ sent' = NoPush
  BY DEF Next, Polling, Pass, Ends, Start, Poll, PushGate, NoticeGate, NoticeItems,
       PassFaults, PassAbandoned, PassConcludes, PostFindings, PostStatus,
       Recover, Contain, FireFallback, PassFails, Die, Break, Repair, Move, vars, history
<1> QED
  BY <1>1, <1>2

\* The proposals change by a move that forgets the pushes, and by nothing else.
LEMMA RoundStays ==
  ASSUME LogIsAChannel, [Next]_vars, ~Move("proposals")
  PROVE  /\ Last({"proposals"}, Len(log))' = Last({"proposals"}, Len(log))
         /\ \A kinds : Told(kinds, Last({"proposals"}, Len(log)), Len(log)) =>
                          Told(kinds, Last({"proposals"}, Len(log)), Len(log))'
<1>1. Grows /\ Adds
  BY ChannelGrows
<1>2. Without({"proposals"})
  <2>1. CASE Without(GateMoves)
    BY <1>1, <2>1, FewerKinds DEF GateMoves
  <2>2. ASSUME NEW kind, kind # "proposals", NEW about, Single(Message(kind, about))
        PROVE  Without({"proposals"})
    BY <1>1, <2>2, SingleIsWithout DEF Message
  <2> QED
    BY <1>1, <2>1, <2>2, GateMovers
<1>3. Last({"proposals"}, Len(log))' = Last({"proposals"}, Len(log))
  BY <1>1, <1>2, OldNewsStay
<1>4. \A kinds, ref : Told(kinds, ref, Len(log)) => Told(kinds, ref, Len(log))'
  BY <1>1, OldNewsStand
<1>5. \A kinds : Told(kinds, Last({"proposals"}, Len(log)), Len(log)) =>
                   Told(kinds, Last({"proposals"}, Len(log)), Len(log))'
  BY <1>3, <1>4 DEF Told
<1> QED
  BY <1>3, <1>5

\* A message put behind the others tells of what it is about.
LEMMA NoticeTells ==
  ASSUME Grows, NEW kind, NEW about, Single(Message(kind, about)), NEW kinds, kind \in kinds,
         about = Last({"proposals"}, Len(log))'
  PROVE  Told(kinds, Last({"proposals"}, Len(log)), Len(log))'
<1>1. /\ Len(log') = Len(log) + 1 /\ log'[Len(log) + 1].kind \in kinds
      /\ log'[Len(log) + 1].about = about
  BY DEF Single, Message
<1>2. \A ref : Told(kinds, ref, Len(log))' <=>
          \/ Told(kinds, ref, Len(log)) \/ log'[Len(log) + 1].about = ref
  BY <1>1, NewsComes
<1> QED
  BY <1>1, <1>2 DEF Told

LEMMA PushesStep ==
  ASSUME LogIsAChannel, NoiseIsCounted, RulingsEndRounds, GateIsHeld, TimerIsOwed,
         PushesAreCounted, [Next]_vars
  PROVE  PushesAreCounted'
<1> DEFINE round    == Last({"proposals"}, Len(log))
           told     == Told({"gate_ping", "fallback"}, round, Len(log))
           fellBack == Told({"fallback"}, round, Len(log))
<1>1. Grows /\ Adds /\ Len(log) \in Nat /\ read \in 0 .. Len(log)
  BY ChannelGrows DEF LogIsAChannel, Grows
<1>2. /\ faults \in Nat /\ faults' \in {faults, faults + 1}
      /\ sent \in [primary : Nat, fallback : Nat]
      /\ \/ sent' = sent
         \/ PushGate /\ sent' = [sent EXCEPT !.primary = @ + 1]
         \/ FireFallback /\ ~Answered(pending, read) /\ sent' = [sent EXCEPT !.fallback = @ + 1]
         \/ Move("proposals") /\ sent' = NoPush
  BY PushesAreMade DEF NoiseIsCounted, PushesAreCounted
<1>3. /\ sent.primary <= faults \/ (sent.primary <= faults + 1 /\ (told \/ pc = "gate_notice"))
      /\ sent.fallback <= faults \/ (sent.fallback <= faults + 1 /\ fellBack)
  BY DEF PushesAreCounted
<1>4. sent' \in [primary : Nat, fallback : Nat]
  BY <1>2 DEF NoPush
<1>5. CASE Move("proposals")
  <2>1. sent' = NoPush
    BY <1>5 DEF Move
  <2> QED
    BY <1>2, <1>4, <2>1 DEF PushesAreCounted, NoPush
<1>6. CASE ~Move("proposals")
  <2>1. /\ round' = round
        /\ told => told'
        /\ fellBack => fellBack'
    BY <1>6, RoundStays
  <2>2. \/ sent'.primary <= faults'
        \/ sent'.primary <= faults' + 1 /\ (told' \/ pc' = "gate_notice")
    <3>1. CASE PushGate
      <4>1. pc = "gate_ping" /\ pc' = "gate_notice" /\ ~told
        BY <3>1 DEF PushGate, GateIsHeld
      <4>2. sent.primary <= faults
        BY <1>3, <4>1
      <4>3. sent'.primary \in {sent.primary, sent.primary + 1}
        BY <1>2, <3>1 DEF PushGate
      <4> QED
        BY <1>2, <4>1, <4>2, <4>3
    <3>2. CASE ~PushGate
      <4>1. sent'.primary = sent.primary /\ sent.primary \in Nat
        BY <1>2, <1>6, <3>2
      <4>2. CASE sent.primary <= faults \/ told
        BY <1>2, <1>3, <2>1, <4>1, <4>2
      <4>3. CASE pc = "gate_notice" /\ sent.primary <= faults + 1
        <5>1. pc' = "gate_notice" \/ faults' = faults + 1 \/ (NoticeGate /\ log' # log)
          <6>1. NoticeGate => faults' = faults + 1 \/ log' # log
            <7>1. ASSUME NoticeGate
                  PROVE  faults' = faults + 1 \/ log' # log
              <8>1. Noticed(<<Message("gate_ping", Last({"proposals"}, read))>>)
                BY <7>1 DEF NoticeGate
              <8>2. \/ faults' = faults + 1
                    \/ Single(Message("gate_ping", Last({"proposals"}, read)))
                BY <8>1, NoticeComes
              <8> QED
                BY <1>1, <8>2 DEF Single
            <7> QED
              BY <7>1
          <6> QED
            BY <1>6, <4>3, <6>1
               DEF Next, Polling, Pass, Ends, Start, Poll, PushGate, NoticeItems, PassFaults,
                   PassAbandoned, PassConcludes, PostFindings, PostStatus, Recover, Contain,
                   FireFallback, PassFails, Die, Break, Repair, Move, vars, process
        <5>2. CASE NoticeGate /\ log' # log
          <6>1. Noticed(<<Message("gate_ping", Last({"proposals"}, read))>>)
            BY <5>2 DEF NoticeGate
          <6>2. Single(Message("gate_ping", Last({"proposals"}, read)))
            BY <5>2, <6>1, NoticeComes
          <6>3. Last({"proposals"}, read) = round'
            BY <2>1, <4>3 DEF GateIsHeld
          <6>4. told'
            BY <1>1, <6>2, <6>3, NoticeTells
          <6> QED
            BY <1>2, <4>1, <4>3, <6>4
        <5> QED
          BY <1>2, <4>1, <4>3, <5>1, <5>2
      <4> QED
        BY <1>3, <4>2, <4>3
    <3> QED
      BY <3>1, <3>2
  <2>3. sent'.fallback <= faults' \/ (sent'.fallback <= faults' + 1 /\ fellBack')
    <3>1. CASE FireFallback /\ ~Answered(pending, read)
      <4>1. pending # 0 /\ read = Len(log) /\ Noticed(<<Message("fallback", pending)>>)
        BY <3>1 DEF FireFallback
      <4>2. round = pending
        BY <3>1, <4>1, UnansweredIsNewest
      <4>3. ~fellBack
        BY <4>1, <4>2 DEF TimerIsOwed
      <4>4. sent.fallback <= faults /\ sent'.fallback <= sent.fallback + 1
        BY <1>2, <1>3, <1>6, <4>3
      <4>5. faults' = faults + 1 \/ Single(Message("fallback", pending))
        BY <4>1, NoticeComes
      <4>6. Single(Message("fallback", pending)) => fellBack'
        BY <1>1, <2>1, <4>2, NoticeTells
      <4>7. sent'.fallback \in Nat /\ sent.fallback \in Nat
        BY <1>2, <1>4
      <4> QED
        BY <1>2, <4>4, <4>5, <4>6, <4>7
    <3>2. CASE ~(FireFallback /\ ~Answered(pending, read))
      <4>1. sent'.fallback = sent.fallback /\ sent.fallback \in Nat
        BY <1>2, <1>6, <3>2
      <4> QED
        BY <1>2, <1>3, <2>1, <4>1
    <3> QED
      BY <3>1, <3>2
  <2> QED
    BY <1>4, <2>2, <2>3 DEF PushesAreCounted
<1> QED
  BY <1>5, <1>6

\* The notices of an attempt.
LEMMA NoticesAreFew ==
  Len(FaultNotices) = (IF stretch.open THEN 0 ELSE 1) +
                      (IF stretch.open /\ stretch.quiet THEN 0 ELSE 1)
<1> DEFINE one   == <<Message("fault", 0)>>
           none  == <<>>
           first == IF stretch.open THEN none ELSE one
           next  == IF stretch.open /\ stretch.quiet THEN none ELSE one
           M     == {Message("fault", 0)}
<1>1. FaultNotices = first \o next
  BY DEF FaultNotices
<1>2. one \in Seq(M) /\ Len(one) = 1 /\ none \in Seq(M) /\ Len(none) = 0
  OBVIOUS
<1> HIDE DEF one, none, M
<1>3. /\ first \in Seq(M) /\ Len(first) = IF stretch.open THEN 0 ELSE 1
      /\ next \in Seq(M) /\ Len(next) = IF stretch.open /\ stretch.quiet THEN 0 ELSE 1
  BY <1>2
<1> HIDE DEF first, next
<1>4. Len(first \o next) = Len(first) + Len(next)
  BY <1>3, ConcatProperties
<1> QED
  BY <1>1, <1>3, <1>4

\* The state of a stretch after an attempt.
LEMMA AttemptsCount ==
  ASSUME stretch \in [open : BOOLEAN, attempts : Nat, quiet : BOOLEAN], Budget \in Nat,
         NEW n \in Nat, n = IF stretch.open THEN stretch.attempts + 1 ELSE 1
  PROVE  /\ FaultStep \in [open : BOOLEAN, attempts : Nat, quiet : BOOLEAN]
         /\ FaultStep.open
         /\ FaultStep.attempts = IF n > Budget THEN Budget ELSE n
         /\ FaultStep.quiet <=> n >= Budget
<1> DEFINE q == n >= Budget
           a == IF n > Budget THEN Budget ELSE n
<1>1. FaultStep = [open |-> TRUE, attempts |-> a, quiet |-> q]
  BY DEF FaultStep
<1>2. a \in Nat /\ q \in BOOLEAN
  OBVIOUS
<1> HIDE DEF q, a
<1>3. /\ FaultStep \in [open : BOOLEAN, attempts : Nat, quiet : BOOLEAN]
      /\ FaultStep.open /\ FaultStep.attempts = a /\ FaultStep.quiet = q
  BY <1>1, <1>2
<1> QED
  BY <1>3 DEF q, a

LEMMA NoiseStep ==
  ASSUME NoiseIsCounted, [Next]_vars
  PROVE  NoiseIsCounted'
<1>1. /\ faults \in Nat /\ faults' \in Nat /\ noise \in Nat
      /\ Budget \in Nat /\ Budget > 0
      /\ stretch \in [open : BOOLEAN, attempts : Nat, quiet : BOOLEAN]
  BY PushesAreMade, WatcherAssumption DEF NoiseIsCounted
<1>2. CASE UNCHANGED <<stretch, noise>>
  BY <1>1, <1>2 DEF NoiseIsCounted
<1>3. CASE stretch' = Closed /\ noise' = 0
  BY <1>1, <1>3 DEF NoiseIsCounted, Closed
<1>4. CASE Contain
  <2>1. stretch' = FaultStep /\ noise' = noise + Len(FaultNotices)
    BY <1>4 DEF Contain
  <2> DEFINE n == IF stretch.open THEN stretch.attempts + 1 ELSE 1
  <2>2. n \in Nat
    BY <1>1
  <2>3. /\ stretch' \in [open : BOOLEAN, attempts : Nat, quiet : BOOLEAN]
        /\ stretch'.open
        /\ stretch'.attempts = IF n > Budget THEN Budget ELSE n
        /\ stretch'.quiet <=> n >= Budget
    <3>1. n = IF stretch.open THEN stretch.attempts + 1 ELSE 1
      OBVIOUS
    <3> HIDE DEF n
    <3> QED
      BY <1>1, <2>1, <2>2, <3>1, AttemptsCount
  <2>4. /\ stretch'.attempts <= Budget
        /\ stretch'.attempts < Budget \/ stretch'.quiet
    <3> HIDE DEF n
    <3> QED
      BY <1>1, <2>2, <2>3
  <2>5. noise' \in Nat /\ noise' <= stretch'.attempts + 1
    <3>1. CASE ~stretch.open
      <4>1. noise' = 2 /\ n = 1
        BY <2>1, <3>1, NoticesAreFew DEF NoiseIsCounted
      <4> QED
        BY <1>1, <2>3, <4>1
    <3>2. CASE stretch.open /\ stretch.quiet
      <4>1. noise' = noise /\ noise <= stretch.attempts + 1 /\ stretch.attempts <= Budget
        BY <1>1, <2>1, <3>2, NoticesAreFew DEF NoiseIsCounted
      <4>2. n = stretch.attempts + 1 /\ stretch.attempts \in Nat
        BY <1>1, <3>2
      <4> QED
        BY <1>1, <2>3, <4>1, <4>2
    <3>3. CASE stretch.open /\ ~stretch.quiet
      <4>1. noise' = noise + 1 /\ stretch.attempts < Budget /\ noise <= stretch.attempts + 1
        BY <1>1, <2>1, <3>3, NoticesAreFew DEF NoiseIsCounted
      <4>2. n = stretch.attempts + 1 /\ stretch.attempts \in Nat
        BY <1>1, <3>3
      <4> QED
        BY <1>1, <2>3, <4>1, <4>2
    <3> QED
      BY <3>1, <3>2, <3>3
  <2> QED
    BY <1>1, <2>3, <2>4, <2>5 DEF NoiseIsCounted
<1>5. \/ UNCHANGED <<stretch, noise>>
      \/ stretch' = Closed /\ noise' = 0
      \/ Contain
  BY DEF Next, Polling, Pass, Ends, Start, Poll, PushGate, NoticeGate, NoticeItems,
       PassFaults, PassAbandoned, PassConcludes, PostFindings, PostStatus, Recover,
       Gone, FireFallback, PassFails, Die, Break, Repair, Move, vars, process, history
<1> QED
  BY <1>2, <1>3, <1>4, <1>5

\* A gate is counted where the channel could not be read, and nowhere else.
LEMMA UnreadStep ==
  ASSUME [Next]_vars, unread \in Nat
  PROVE  /\ unread' \in {unread, unread + 1}
         /\ unread' # unread => PassFails
BY DEF Next, Polling, Pass, Ends, Start, Poll, PushGate, NoticeGate, NoticeItems,
     PassFaults, PassAbandoned, PassConcludes, PostFindings, PostStatus, Recover, Contain,
     FireFallback, PassFails, Die, Break, Repair, Move, vars, history

\* The operator's gate is only put where the channel holds no conclusion of the version,
\* or where it could not be read: a step stacks one gate at most, and that one is counted.
LEMMA ConcludedStep ==
  ASSUME LogIsAChannel, GatesAreCounted, [Next]_vars
  PROVE  GatesAreCounted'
<1>1. Grows /\ Adds /\ DOMAIN log = 1 .. Len(log)
  BY ChannelGrows DEF LogIsAChannel
<1>2. unread \in Nat /\ unread' \in {unread, unread + 1}
  BY UnreadStep DEF GatesAreCounted
<1>3. IsFiniteSet(Stacked) /\ Cardinality(Stacked) \in Nat /\ Cardinality(Stacked) <= unread
  <2>1. IsFiniteSet(1 .. Len(log))
    BY <1>1, FS_Interval DEF Grows
  <2>2. Stacked \subseteq 1 .. Len(log)
    BY <1>1 DEF Stacked
  <2>3. IsFiniteSet(Stacked)
    BY <2>1, <2>2, FS_Subset
  <2> QED
    BY <2>3, FS_CardinalityType DEF GatesAreCounted, ConcludedStands
<1>4. ASSUME NEW j \in Stacked', j \notin Stacked
      PROVE  j = Len(log') /\ unread' = unread + 1
  <2>1. PICK i \in 1 .. Len(log') :
          /\ i < j /\ log'[i].about = log'[j].about
          /\ log'[i].kind \in {"status", "needs_human"}
    BY <1>1, <1>4 DEF Stacked, Grows
  <2>2. j \in 1 .. Len(log') /\ log'[j].kind = "needs_human"
    BY <1>1, <1>4 DEF Stacked, Grows
  <2>3. j \in Fresh
    <3>1. CASE j <= Len(log)
      <4>1. /\ i \in DOMAIN log /\ j \in DOMAIN log
            /\ log'[i] = log[i] /\ log'[j] = log[j]
        BY <1>1, <2>1, <2>2, <3>1 DEF Grows
      <4> QED
        BY <1>4, <2>1, <2>2, <4>1 DEF Stacked
    <3>2. CASE j > Len(log)
      BY <1>1, <2>2, <3>2 DEF Fresh, Grows
    <3> QED
      BY <1>1, <2>2, <3>1, <3>2 DEF Grows
  <2>4. /\ Without(Tracked \ {"needs_human"})
        /\ \A k \in Fresh : log'[k].kind = "needs_human" =>
              /\ log'[k].about = version /\ k = Len(log')
              /\ ~Concluded \/ unread' = unread + 1
    <3>1. ASSUME NEW m, Single(m)
          PROVE  m.kind = "needs_human"
      BY <1>1, <2>2, <2>3, <3>1 DEF Single, Grows, Fresh
    <3>2. ~Without(Tracked) /\ log' # log
      BY <1>1, <2>2, <2>3 DEF Without, Tracked, Grows, Fresh
    <3>3. \A kind, about : Message(kind, about).kind = kind
      BY DEF Message
    <3>4. "needs_human" \notin Moves
      BY DEF Moves
    <3>5. /\ ~ \E kind \in Moves : Single(Message(kind, 0))
          /\ ~ \E kind \in {"gate_ping", "fallback", "findings", "clean", "status"} :
                 \E about : Single(Message(kind, about))
      BY <3>1, <3>3, <3>4
    <3> DEFINE Gate ==
          /\ Without(Tracked \ {"needs_human"})
          /\ \A k \in Fresh : log'[k].kind = "needs_human" =>
                /\ log'[k].about = version /\ k = Len(log')
                /\ ~Concluded \/ unread' = unread + 1
    <3>6. PassFails /\ Gate
      BY <1>1, <3>2, <3>5 DEF Adds
    <3> QED
      BY <3>6
  <2>5. j = Len(log') /\ log'[j].about = version
    BY <2>2, <2>3, <2>4
  <2>6. i \notin Fresh
    <3>1. CASE log'[i].kind = "status"
      BY <2>4, <3>1 DEF Without, Tracked
    <3>2. CASE log'[i].kind = "needs_human"
      BY <1>1, <2>1, <2>4, <2>5, <3>2 DEF Grows
    <3> QED
      BY <2>1, <3>1, <3>2
  <2>7. i \in 1 .. Len(log) /\ log'[i] = log[i]
    BY <1>1, <2>1, <2>6 DEF Fresh, Grows
  <2>8. Concluded
    BY <2>1, <2>5, <2>7 DEF Concluded, Told, Seqs
  <2> QED
    BY <2>2, <2>3, <2>4, <2>5, <2>8
<1>5. CASE Stacked' \subseteq Stacked
  <2>1. Cardinality(Stacked') \in Nat /\ Cardinality(Stacked') <= Cardinality(Stacked)
    BY <1>3, <1>5, FS_Subset, FS_CardinalityType
  <2> QED
    BY <1>2, <1>3, <2>1 DEF GatesAreCounted, ConcludedStands
<1>6. ASSUME NEW j \in Stacked', j \notin Stacked
      PROVE  GatesAreCounted'
  <2>1. Stacked' \subseteq Stacked \cup {j} /\ unread' = unread + 1
    BY <1>4, <1>6
  <2>2. /\ IsFiniteSet(Stacked \cup {j})
        /\ Cardinality(Stacked \cup {j}) = Cardinality(Stacked) + 1
    BY <1>3, <1>6, FS_AddElement
  <2>3. /\ Cardinality(Stacked') \in Nat
        /\ Cardinality(Stacked') <= Cardinality(Stacked \cup {j})
    BY <2>1, <2>2, FS_Subset, FS_CardinalityType
  <2> QED
    BY <1>2, <1>3, <2>1, <2>2, <2>3 DEF GatesAreCounted, ConcludedStands
<1> QED
  BY <1>5, <1>6

------------------------------------------------------------------------------
(* The theorems. *)

LEMMA Starts == Init => IInv
<1> SUFFICES ASSUME Init PROVE IInv
  OBVIOUS
<1>1. /\ log = <<>> /\ pc = "off" /\ read = 0 /\ pending = 0 /\ stretch = Closed
      /\ sent = NoPush /\ noise = 0 /\ faults = 0 /\ unread = 0
  BY DEF Init
<1>2. LogIsAChannel /\ DOMAIN log = {} /\ Len(log) = 0
  BY <1>1 DEF LogIsAChannel
<1>3. NoiseIsCounted
  BY <1>1 DEF NoiseIsCounted, Closed
<1>4. PushesAreCounted
  BY <1>1 DEF PushesAreCounted, NoPush
<1>5. GatesAreCounted
  <2>1. Stacked = {}
    BY <1>2 DEF Stacked
  <2> QED
    BY <1>1, <2>1, FS_EmptySet DEF GatesAreCounted, ConcludedStands
<1> QED
  BY <1>1, <1>2, <1>3, <1>4, <1>5
     DEF IInv, PassHasItsTurn, RulingsEndRounds, GateIsHeld, TimerIsOwed, FallbackIsRead,
         Seqs

LEMMA Continues ==
  ASSUME IInv, [Next]_vars
  PROVE  IInv'
<1>1. LogIsAChannel'
  BY ChannelGrows DEF IInv
<1> QED
  BY <1>1, NoiseStep, PassStep, RulingsStep, GateStep, TimerStep, FallbackStep, PushesStep,
     ConcludedStep
     DEF IInv

\* The inductive invariant: who may move the gate while the process pings, reviews or
\* waits for its timer, and what each push, notice and status answers for.
THEOREM Invariance == Spec => []IInv
<1>1. Init => IInv
  BY Starts
<1>2. IInv /\ [Next]_vars => IInv'
  BY Continues
<1> QED BY <1>1, <1>2, PTL DEF Spec

\* A stretch of faults never costs more notices than its budget and one, whatever the
\* budget is and however long it lasts (contain_environmental_fault).
THEOREM StretchesAreQuiet == Spec => []QuietStretch
<1>1. IInv => QuietStretch
  BY WatcherAssumption DEF IInv, NoiseIsCounted, QuietStretch
<1> QED BY <1>1, Invariance, PTL

\* An opened gate is pushed once through each channel, and once more for each fault at
\* most: a lost notice or a process that died after the push (gate_ping, on_idle).
THEOREM PushesAreFew == Spec => []GatePingedOnce
<1>1. IInv => GatePingedOnce
  BY DEF IInv, NoiseIsCounted, PushesAreCounted, GatePingedOnce
<1> QED BY <1>1, Invariance, PTL

\* For any bounds, whatever lands, is lost or dies, however often a version is passed
\* again: a gate of the operator's on top of a conclusion answers for one check that could
\* not read the channel, and no two for the same one (_pass_concluded, run_pass).
THEOREM StatusesStand == Spec => []ConcludedStands
<1>1. IInv => ConcludedStands
  BY DEF IInv, GatesAreCounted
<1> QED BY <1>1, Invariance, PTL
=============================================================================
