-------------------------- MODULE SinkRoutingProofs --------------------------
(***************************************************************************)
(* Proofs about SinkRouting and Rendering, for every set of levels and     *)
(* channels that a sink may be configured with, and every set of calls.    *)
(***************************************************************************)
EXTENDS SinkRouting, OperatorLemmas

-----------------------------------------------------------------------------
(* The inductive invariant: the sinks and the level are those of the       *)
(* configuration in force, and the output is that of the last call.        *)

InForce ==
    \/ configuration = <<>> /\ sinks = <<>> /\ level = kOff
    \/ /\ configuration \in Configuration
       /\ configuration.file.enabled \/ configuration.console.enabled
       /\ sinks = ConfiguredSinks(configuration)
       /\ level = ComputeEffectiveLevel(configuration)

IInv ==
    /\ InForce
    /\ \/ call = <<>> /\ output = NoOutput
       \/ \E c \in Calls : call = c /\ output = Output(c)

\* What a call writes depends on the configuration, the sinks and the level only.
LEMMA OutputStays ==
    ASSUME NEW c, UNCHANGED <<configuration, sinks, level>>
    PROVE  Output(c)' = Output(c)
<1>1. Rendered(c)' = Rendered(c)
  BY DEF Rendered
<1>2. Payload(c)' = Payload(c)
  BY <1>1 DEF Payload
<1>3. \A s : Writers(c, s)' = Writers(c, s)
  BY <1>2 DEF Writers
<1>4. \A s : Written(c, s)' = Written(c, s)
  BY <1>2, <1>3 DEF Written
<1> QED
  BY <1>4 DEF Output

\* It is invariant.
LEMMA Inductive == Spec => []IInv
<1>1. Init => IInv
  BY DEF Init, IInv, InForce
<1>2. IInv /\ [Next]_vars => IInv'
  <2> SUFFICES ASSUME IInv, [Next]_vars PROVE IInv'
    OBVIOUS
  <2>1. ASSUME NEW c \in Configuration, Configure(c) PROVE IInv'
    <3>1. InForce'
      BY <2>1 DEF Configure, InForce
    <3> QED
      BY <2>1, <3>1 DEF Configure, IInv, NoOutput
  <2>2. ASSUME NEW c \in Calls, Log(c) PROVE IInv'
    <3>1. InForce'
      BY <2>2 DEF Log, IInv, InForce
    <3>2. Output(c)' = Output(c)
      BY <2>2, OutputStays DEF Log
    <3> QED
      BY <2>2, <3>1, <3>2 DEF Log, IInv
  <2>3. CASE Shutdown
    BY <2>3 DEF Shutdown, IInv, InForce, NoOutput
  <2>4. CASE UNCHANGED vars
    <3>1. InForce'
      BY <2>4 DEF vars, IInv, InForce
    <3>2. \A c : Output(c)' = Output(c)
      BY <2>4, OutputStays DEF vars
    <3> QED
      BY <2>4, <3>1, <3>2 DEF vars, IInv, NoOutput
  <2> QED
    BY <2>1, <2>2, <2>3, <2>4 DEF Next
<1> QED
  BY <1>1, <1>2, PTL DEF Spec

-----------------------------------------------------------------------------
(* The sinks of a configuration.                                           *)

\* Each enabled sink stands at one position, built from its own configuration and with
\* its own pattern; a disabled one stands nowhere.
LEMMA SinksOfConfiguration ==
    ASSUME NEW c \in Configuration, NEW s \in SinkName, NEW all, all = ConfiguredSinks(c)
    PROVE  /\ c[s].enabled =>
                \E p \in DOMAIN all :
                    /\ all[p].sink = MakeConfiguredSink(s, c)
                    /\ all[p].sink.inner = s
                    /\ all[p].formatter = IF c.output_format = "json" THEN "%v" ELSE s
                    /\ \A i \in DOMAIN all : all[i].sink.inner = s => i = p
           /\ ~c[s].enabled => \A i \in DOMAIN all : all[i].sink.inner # s
           /\ \A i \in DOMAIN all :
                all[i].sink.inner \in SinkName /\ all[i].formatter \in SinkName \cup {"%v"}
<1> DEFINE Is(p, n) ==
               /\ all[p].sink = MakeConfiguredSink(n, c)
               /\ all[p].sink.inner = n
               /\ all[p].formatter = IF c.output_format = "json" THEN "%v" ELSE n
<1>1. CASE c.file.enabled /\ c.console.enabled
  <2>1. EnabledSinks(c) = <<"file">> \o <<"console">>
    BY <1>1 DEF EnabledSinks
  <2>2. EnabledSinks(c) = <<"file", "console">>
    BY <2>1, ConcatSingletons, Zenon
  <2>3. DOMAIN all = {1, 2} /\ Is(1, "file") /\ Is(2, "console")
    BY <1>1, <2>2 DEF ConfiguredSinks, ConfigureSinkFormatters, MakeConfiguredSink
  <2> QED
    BY <1>1, <2>3 DEF SinkName
<1>2. CASE c.file.enabled /\ ~c.console.enabled
  <2>1. EnabledSinks(c) = <<"file">>
    BY <1>2 DEF EnabledSinks
  <2>2. DOMAIN all = {1} /\ Is(1, "file")
    BY <1>2, <2>1 DEF ConfiguredSinks, ConfigureSinkFormatters, MakeConfiguredSink
  <2> QED
    BY <1>2, <2>2 DEF SinkName
<1>3. CASE ~c.file.enabled /\ c.console.enabled
  <2>1. EnabledSinks(c) = <<"console">>
    BY <1>3 DEF EnabledSinks
  <2>2. DOMAIN all = {1} /\ Is(1, "console")
    BY <1>3, <2>1 DEF ConfiguredSinks, ConfigureSinkFormatters, MakeConfiguredSink
  <2> QED
    BY <1>3, <2>2 DEF SinkName
<1>4. CASE ~c.file.enabled /\ ~c.console.enabled
  <2>1. EnabledSinks(c) = <<>>
    BY <1>4 DEF EnabledSinks
  <2>2. DOMAIN all = {}
    BY <2>1 DEF ConfiguredSinks
  <2> QED
    BY <1>4, <2>2 DEF SinkName
<1> QED
  BY <1>1, <1>2, <1>3, <1>4

\* The level of the whole logger is a level, and no sink in use is more verbose.
LEMMA EffectiveLevel ==
    ASSUME NEW c \in Configuration
    PROVE  /\ ComputeEffectiveLevel(c) \in 0 .. kOff
           /\ \A s \in SinkName :
                /\ c[s].level \in 0 .. kOff
                /\ c[s].enabled => ComputeEffectiveLevel(c) <= c[s].level
<1> DEFINE f == c.file
           g == c.console
<1>1. f.level \in 0 .. kOff /\ g.level \in 0 .. kOff /\ kOff \in Nat
  BY RoutingAssumption DEF Configuration, SinkConfig, kOff
<1>2. c["file"] = f /\ c["console"] = g
  BY DEF Configuration
<1> DEFINE e == ComputeEffectiveLevel(c)
<1>3. e \in 0 .. kOff /\ (f.enabled => e <= f.level) /\ (g.enabled => e <= g.level)
  <2>1. CASE f.enabled /\ g.enabled
    <3>1. e = MostVerboseLevel(f.level, g.level)
      BY <2>1 DEF ComputeEffectiveLevel
    <3> HIDE DEF e, f, g
    <3> QED
      BY <1>1, <3>1 DEF MostVerboseLevel
  <2>2. CASE f.enabled /\ ~g.enabled
    <3>1. e = f.level
      BY <2>2 DEF ComputeEffectiveLevel
    <3> HIDE DEF e, f, g
    <3> QED
      BY <1>1, <2>2, <3>1
  <2>3. CASE ~f.enabled /\ g.enabled
    <3>1. e = g.level
      BY <2>3 DEF ComputeEffectiveLevel
    <3> HIDE DEF e, f, g
    <3> QED
      BY <1>1, <2>3, <3>1
  <2>4. CASE ~f.enabled /\ ~g.enabled
    <3>1. e = kOff
      BY <2>4 DEF ComputeEffectiveLevel
    <3> HIDE DEF e, f, g
    <3> QED
      BY <1>1, <2>4, <3>1
  <2> QED
    BY <2>1, <2>2, <2>3, <2>4
<1>4. ASSUME NEW s \in SinkName
      PROVE  c[s].level \in 0 .. kOff /\ (c[s].enabled => e <= c[s].level)
  <2>1. s = "file" \/ s = "console"
    BY DEF SinkName
  <2> HIDE DEF e, f, g
  <2>2. CASE s = "file"
    BY <1>1, <1>2, <1>3, <2>2
  <2>3. CASE s = "console"
    BY <1>1, <1>2, <1>3, <2>3
  <2> QED
    BY <2>1, <2>2, <2>3
<1> QED
  BY <1>3, <1>4

-----------------------------------------------------------------------------
(* The envelope of a channel.                                              *)

\* A text is a sequence.
LEMMA TextIsSeq ==
    ASSUME NEW x, IsText(x)
    PROVE  IsSeq(x)
BY DEF IsText, IsSeq

\* The part of a sequence where another one stands.
LEMMA SubSeqIs ==
    ASSUME NEW t, NEW u, IsSeq(t), IsSeq(u), NEW k \in Nat, k + Len(u) <= Len(t),
           \A i \in 1 .. Len(u) : t[k + i] = u[i]
    PROVE  SubSeq(t, k + 1, k + Len(u)) = u
<1> DEFINE m == Len(u)
           r == SubSeq(t, k + 1, k + m)
<1>1. PICK S : t \in Seq(S) /\ u \in Seq(S) /\ <<>> \in Seq(S)
  <2>1. IsSeq(<<>>)
    BY TuplesAreSeqs
  <2> QED
    BY <2>1, CommonElements
<1>2. m \in Nat /\ Len(t) \in Nat
  BY SeqShape
<1>3. k + 1 \in Int /\ k + m \in Int /\ (k + m) - (k + 1) + 1 = m
  BY <1>2
<1>4. \A i \in k + 1 .. k + m : t[i] \in S
  <2> TAKE i \in k + 1 .. k + m
  <2>1. i \in 1 .. Len(t)
    BY <1>2
  <2> QED
    BY <1>1, <2>1
<1>5. /\ r \in Seq(S)
      /\ Len(r) = IF k + 1 <= k + m THEN (k + m) - (k + 1) + 1 ELSE 0
      /\ \A i \in 1 .. (k + m) - (k + 1) + 1 : r[i] = t[(k + 1) + i - 1]
  BY <1>3, <1>4, SubSeqProperties
<1> HIDE DEF r, m
<1>6. Len(r) = m
  BY <1>2, <1>3, <1>5
<1>7. \A i \in 1 .. m : r[i] = u[i]
  <2> TAKE i \in 1 .. m
  <2>1. r[i] = t[(k + 1) + i - 1] /\ (k + 1) + i - 1 = k + i
    BY <1>2, <1>3, <1>5
  <2>2. t[k + i] = u[i]
    BY DEF m
  <2> QED
    BY <2>1, <2>2
<1>8. r = u
  BY <1>1, <1>5, <1>6, <1>7, SeqEqual DEF m
<1> QED
  BY <1>8 DEF r, m

\* What follows a position of a sequence.
LEMMA SubSeqShape ==
    ASSUME NEW t, IsSeq(t), NEW k \in 1 .. Len(t)
    PROVE  /\ IsSeq(SubSeq(t, k + 1, Len(t))) /\ Len(SubSeq(t, k + 1, Len(t))) = Len(t) - k
           /\ \A i \in 1 .. Len(t) - k : SubSeq(t, k + 1, Len(t))[i] = t[k + i]
<1> DEFINE r == SubSeq(t, k + 1, Len(t))
<1>1. PICK S : t \in Seq(S)
  BY DEF IsSeq
<1>2. Len(t) \in Nat /\ k + 1 \in Int /\ Len(t) - (k + 1) + 1 = Len(t) - k
  BY SeqShape
<1>3. \A i \in k + 1 .. Len(t) : t[i] \in S
  <2> TAKE i \in k + 1 .. Len(t)
  <2>1. i \in 1 .. Len(t)
    BY <1>2
  <2> QED
    BY <1>1, <2>1
<1>4. /\ r \in Seq(S)
      /\ Len(r) = IF k + 1 <= Len(t) THEN Len(t) - (k + 1) + 1 ELSE 0
      /\ \A i \in 1 .. Len(t) - (k + 1) + 1 : r[i] = t[(k + 1) + i - 1]
  BY <1>2, <1>3, SubSeqProperties
<1> HIDE DEF r
<1>5. k \in Nat /\ k <= Len(t)
  BY <1>2
<1> DEFINE n == Len(t)
<1>6. Len(r) = n - k
  <2>1. /\ Len(r) = IF k + 1 <= n THEN n - (k + 1) + 1 ELSE 0
        /\ n \in Nat /\ k \in Nat /\ k <= n
    BY <1>2, <1>4, <1>5
  <2> HIDE DEF n
  <2> QED
    BY <2>1
<1>7. \A i \in 1 .. n - k : r[i] = t[k + i]
  <2> TAKE i \in 1 .. n - k
  <2>1. i \in 1 .. n - (k + 1) + 1 /\ (k + 1) + i - 1 = k + i
    <3>1. n \in Nat /\ k \in Nat
      BY <1>2, <1>5
    <3> HIDE DEF n
    <3> QED
      BY <3>1
  <2>2. r[i] = t[(k + 1) + i - 1]
    BY <1>4, <2>1
  <2> QED
    BY <2>1, <2>2
<1> QED
  BY <1>4, <1>6, <1>7 DEF r, n, IsSeq

\* An envelope: the prefix, n parts of the channel, the separator and the payload.
IsEnvelope(all, n, channel, payload) ==
    /\ n \in Nat /\ n # 0 /\ Len(payload) \in Nat
    /\ IsSeq(all) /\ Len(all) = n + 2 + Len(payload)
    /\ all # <<>> /\ Head(all) = Prefix /\ all[1] = Prefix
    /\ \A i \in 1 .. n : all[1 + i] = channel[i]
    /\ all[n + 2] = Separator
    /\ \A i \in 1 .. Len(payload) : all[n + 2 + i] = payload[i]

LEMMA EnvelopeShape ==
    ASSUME NEW channel, NEW payload, IsSeq(channel), IsSeq(payload), channel # <<>>,
           NEW all, all = EncodeChannelPayload(channel, payload),
           NEW n, n = Len(channel)
    PROVE  IsEnvelope(all, n, channel, payload)
<1> DEFINE first == <<Prefix>>
           mark == <<Separator>>
           open == first \o channel
           head == open \o mark
<1>1. /\ IsSeq(first) /\ Len(first) = 1 /\ first[1] = Prefix
      /\ IsSeq(mark) /\ Len(mark) = 1 /\ mark[1] = Separator
  BY TuplesAreSeqs
<1>2. NormalizeChannel(channel) = channel
  BY DEF NormalizeChannel
<1>3. all = head \o payload
  BY <1>2 DEF EncodeChannelPayload
<1>4. n \in Nat /\ n # 0 /\ Len(payload) \in Nat
  <2>1. Len(channel) \in Nat /\ Len(payload) \in Nat
    BY SeqShape
  <2>2. Len(channel) # 0
    BY <2>1 DEF IsSeq
  <2> QED
    BY <2>1, <2>2
<1>0. open = first \o channel /\ head = open \o mark /\ all = head \o payload
  BY <1>3
<1> HIDE DEF first, mark, open, head
<1>5. /\ IsSeq(open) /\ Len(open) = n + 1
      /\ open[1] = Prefix /\ \A i \in 1 .. n : open[1 + i] = channel[i]
  <2>1. /\ IsSeq(open) /\ Len(open) = Len(first) + Len(channel)
        /\ \A i \in 1 .. Len(first) : open[i] = first[i]
        /\ \A i \in 1 .. Len(channel) : open[Len(first) + i] = channel[i]
    <3>1. IsSeq(first)
      BY <1>1
    <3>2. /\ IsSeq(first \o channel) /\ Len(first \o channel) = Len(first) + Len(channel)
          /\ \A i \in 1 .. Len(first) : (first \o channel)[i] = first[i]
          /\ \A i \in 1 .. Len(channel) : (first \o channel)[Len(first) + i] = channel[i]
      BY <3>1, Concat
    <3>3. open = first \o channel
      BY <1>0
    <3> QED
      BY <3>2, <3>3, Zenon
  <2> QED
    BY <1>1, <1>4, <2>1
<1>6. /\ IsSeq(head) /\ Len(head) = n + 2 /\ head[n + 2] = Separator
      /\ \A i \in 1 .. n + 1 : head[i] = open[i]
  <2>1. /\ IsSeq(head) /\ Len(head) = Len(open) + Len(mark)
        /\ \A i \in 1 .. Len(open) : head[i] = open[i]
        /\ \A i \in 1 .. Len(mark) : head[Len(open) + i] = mark[i]
    <3>1. IsSeq(open) /\ IsSeq(mark)
      BY <1>1, <1>5
    <3>2. /\ IsSeq(open \o mark) /\ Len(open \o mark) = Len(open) + Len(mark)
          /\ \A i \in 1 .. Len(open) : (open \o mark)[i] = open[i]
          /\ \A i \in 1 .. Len(mark) : (open \o mark)[Len(open) + i] = mark[i]
      BY <3>1, Concat
    <3>3. head = open \o mark
      BY <1>0
    <3> QED
      BY <3>2, <3>3, Zenon
  <2> QED
    BY <1>1, <1>4, <1>5, <2>1
<1>7. /\ IsSeq(all) /\ Len(all) = n + 2 + Len(payload)
      /\ \A i \in 1 .. n + 2 : all[i] = head[i]
      /\ \A i \in 1 .. Len(payload) : all[n + 2 + i] = payload[i]
  <2>1. /\ IsSeq(all) /\ Len(all) = Len(head) + Len(payload)
        /\ \A i \in 1 .. Len(head) : all[i] = head[i]
        /\ \A i \in 1 .. Len(payload) : all[Len(head) + i] = payload[i]
    <3>1. IsSeq(head)
      BY <1>6
    <3>2. /\ IsSeq(head \o payload) /\ Len(head \o payload) = Len(head) + Len(payload)
          /\ \A i \in 1 .. Len(head) : (head \o payload)[i] = head[i]
          /\ \A i \in 1 .. Len(payload) : (head \o payload)[Len(head) + i] = payload[i]
      BY <3>1, Concat
    <3>3. all = head \o payload
      BY <1>0
    <3> QED
      BY <3>2, <3>3, Zenon
  <2> QED
    BY <1>4, <1>6, <2>1
<1>8. all # <<>> /\ all[1] = Prefix /\ Head(all) = all[1]
  <2>1. all # <<>>
    BY <1>4, <1>7, TuplesAreSeqs
  <2>2. all[1] = Prefix
    BY <1>4, <1>5, <1>6, <1>7
  <2>3. Head(all) = all[1]
    BY <1>7, <2>1 DEF IsSeq
  <2> QED
    BY <2>1, <2>2, <2>3
<1>9. \A i \in 1 .. n : all[1 + i] = channel[i]
  <2> TAKE i \in 1 .. n
  <2>1. 1 + i \in 1 .. n + 1 /\ 1 + i \in 1 .. n + 2
    BY <1>4
  <2> QED
    BY <1>5, <1>6, <1>7, <2>1
<1>10. all[n + 2] = Separator
  <2>1. n + 2 \in 1 .. n + 2
    BY <1>4
  <2> QED
    BY <1>6, <1>7, <2>1
<1> QED
  BY <1>4, <1>7, <1>8, <1>9, <1>10 DEF IsEnvelope

\* The first separator of a sequence that holds one.
LEMMA FirstSeparator ==
    ASSUME NEW t, IsSeq(t), Contains(t, Separator),
           NEW f, f = SelectInSeq(t, LAMBDA x : x = Separator)
    PROVE  /\ f \in 1 .. Len(t) /\ t[f] = Separator
           /\ \A i \in 1 .. Len(t) : t[i] = Separator => f <= i
<1> DEFINE Marks == {i \in 1 .. Len(t) : t[i] = Separator}
<1>1. Marks # {} /\ Marks \subseteq Nat
  BY DEF Contains
<1>2. f = Min(Marks)
  BY <1>1 DEF SelectInSeq
<1>3. Min(Marks) \in Marks /\ \A i \in Marks : Min(Marks) <= i
  <2> HIDE DEF Marks
  <2> QED
    BY <1>1, MinIsLeast
<1>4. f \in Marks /\ \A i \in Marks : f <= i
  BY <1>2, <1>3
<1> QED
  BY <1>4

\* An envelope opens to the channel and the payload that it was made of, whatever the
\* payload holds, when the channel does not hold the separator.
LEMMA EnvelopeOpens ==
    ASSUME NEW channel, NEW payload, IsSeq(channel), IsSeq(payload),
           channel # <<>>, ~Contains(channel, Separator)
    PROVE  DecodeChannelPayload(EncodeChannelPayload(channel, payload)) =
               [channel |-> channel, message |-> payload]
<1> SUFFICES ASSUME NEW all, all = EncodeChannelPayload(channel, payload),
                    NEW n, n = Len(channel)
             PROVE  DecodeChannelPayload(all) = [channel |-> channel, message |-> payload]
  OBVIOUS
<1> DEFINE f == SelectInSeq(all, LAMBDA x : x = Separator)
<1>1. /\ n \in Nat /\ n # 0 /\ Len(payload) \in Nat
      /\ IsSeq(all) /\ Len(all) = n + 2 + Len(payload)
      /\ all # <<>> /\ Head(all) = Prefix /\ all[1] = Prefix
      /\ \A i \in 1 .. n : all[1 + i] = channel[i]
      /\ all[n + 2] = Separator
      /\ \A i \in 1 .. Len(payload) : all[n + 2 + i] = payload[i]
  <2>1. IsEnvelope(all, n, channel, payload)
    BY EnvelopeShape, Zenon
  <2> QED
    BY <2>1 DEF IsEnvelope
<1>2. n + 2 \in 1 .. Len(all)
  BY <1>1
<1>3. Contains(all, Separator)
  BY <1>1, <1>2 DEF Contains
<1>4. /\ f \in 1 .. Len(all) /\ all[f] = Separator
      /\ \A i \in 1 .. Len(all) : all[i] = Separator => f <= i
  <2>1. IsSeq(all)
    BY <1>1
  <2> QED
    BY <2>1, <1>3, FirstSeparator, Zenon
<1> HIDE DEF f
<1>5. f = n + 2
  <2>1. f <= n + 2
    BY <1>1, <1>2, <1>4
  <2> SUFFICES ASSUME f < n + 2 PROVE FALSE
    BY <1>1, <1>4, <2>1
  <2>2. f # 1
    BY <1>1, <1>4 DEF Prefix, Separator
  <2>3. f - 1 \in 1 .. n /\ 1 + (f - 1) = f
    BY <1>1, <1>4, <2>2
  <2>4. channel[f - 1] = Separator
    BY <1>1, <1>4, <2>3
  <2> QED
    BY <2>3, <2>4 DEF Contains
<1>6. SubSeq(all, 2, f - 1) = channel
  <2>1. 1 \in Nat /\ 1 + n <= Len(all) /\ 1 + 1 = 2 /\ 1 + n = f - 1
    BY <1>1, <1>5
  <2>2. SubSeq(all, 1 + 1, 1 + Len(channel)) = channel
    BY <1>1, <2>1, SubSeqIs
  <2> QED
    BY <2>1, <2>2
<1>7. SubSeq(all, f + 1, Len(all)) = payload
  <2>1. /\ n + 2 \in Nat /\ (n + 2) + Len(payload) <= Len(all)
        /\ (n + 2) + Len(payload) = Len(all)
    BY <1>1
  <2>2. SubSeq(all, (n + 2) + 1, (n + 2) + Len(payload)) = payload
    BY <1>1, <2>1, SubSeqIs
  <2> QED
    BY <1>5, <2>1, <2>2
<1>8. LooksLikeEnvelope(all)
  BY <1>1, <1>3 DEF LooksLikeEnvelope
<1>9. DecodeChannelPayload(all) =
          [channel |-> NormalizeChannel(channel), message |-> payload]
  BY <1>6, <1>7, <1>8 DEF DecodeChannelPayload, f
<1> QED
  BY <1>9 DEF NormalizeChannel

\* When the channel holds the separator, the payload is the end of what is read.
LEMMA EnvelopeMisread ==
    ASSUME NEW channel, NEW payload, IsSeq(channel), IsSeq(payload),
           Contains(channel, Separator)
    PROVE  EndsWith(DecodeChannelPayload(EncodeChannelPayload(channel, payload)).message, payload)
<1> SUFFICES ASSUME NEW all, all = EncodeChannelPayload(channel, payload),
                    NEW n, n = Len(channel)
             PROVE  EndsWith(DecodeChannelPayload(all).message, payload)
  OBVIOUS
<1> DEFINE f == SelectInSeq(all, LAMBDA x : x = Separator)
           r == SubSeq(all, f + 1, Len(all))
<1>0. PICK k \in 1 .. n : channel[k] = Separator
  BY DEF Contains
<1>1. /\ n \in Nat /\ n # 0 /\ Len(payload) \in Nat
      /\ IsSeq(all) /\ Len(all) = n + 2 + Len(payload)
      /\ all # <<>> /\ Head(all) = Prefix /\ all[1] = Prefix
      /\ \A i \in 1 .. n : all[1 + i] = channel[i]
      /\ all[n + 2] = Separator
      /\ \A i \in 1 .. Len(payload) : all[n + 2 + i] = payload[i]
  <2>1. channel # <<>>
    BY <1>0, TuplesAreSeqs
  <2>2. IsEnvelope(all, n, channel, payload)
    BY <2>1, EnvelopeShape, Zenon
  <2> QED
    BY <2>2 DEF IsEnvelope
<1>2. 1 + k \in 1 .. Len(all) /\ all[1 + k] = Separator
  BY <1>0, <1>1
<1>3. Contains(all, Separator)
  BY <1>2 DEF Contains
<1>4. f \in 1 .. Len(all) /\ f <= 1 + k
  <2>1. IsSeq(all)
    BY <1>1
  <2>2. /\ f \in 1 .. Len(all)
        /\ \A i \in 1 .. Len(all) : all[i] = Separator => f <= i
    BY <2>1, <1>3, FirstSeparator, Zenon
  <2> QED
    BY <2>2, <1>2
<1> HIDE DEF f
<1>5. f \in 1 .. n + 1
  BY <1>0, <1>1, <1>4
<1>6. IsSeq(r) /\ Len(r) = Len(all) - f /\ \A i \in 1 .. Len(all) - f : r[i] = all[f + i]
  <2>1. IsSeq(all) /\ f \in 1 .. Len(all)
    BY <1>1, <1>4
  <2> QED
    BY <2>1, SubSeqShape, Zenon
<1> HIDE DEF r
<1> DEFINE m == (n + 2) - f
<1>7. /\ m \in Nat /\ m + Len(payload) = Len(r) /\ m \in 0 .. Len(r)
      /\ m + Len(payload) <= Len(r)
  BY <1>1, <1>5, <1>6
<1>8. \A i \in 1 .. Len(payload) : r[m + i] = payload[i]
  <2> TAKE i \in 1 .. Len(payload)
  <2>1. m + i \in 1 .. Len(all) - f /\ f + (m + i) = n + 2 + i
    BY <1>1, <1>5
  <2>2. r[m + i] = all[f + (m + i)]
    BY <1>6, <2>1
  <2> QED
    BY <1>1, <2>1, <2>2
<1>9. SubSeq(r, m + 1, Len(r)) = payload
  <2> HIDE DEF m
  <2>1. SubSeq(r, m + 1, m + Len(payload)) = payload
    BY <1>6, <1>7, <1>8, SubSeqIs
  <2> QED
    BY <1>7, <2>1
<1>10. EndsWith(r, payload)
  BY <1>7, <1>9 DEF EndsWith
<1>11. DecodeChannelPayload(all).message = r
  BY <1>1, <1>3 DEF DecodeChannelPayload, LooksLikeEnvelope, f, r
<1> QED
  BY <1>10, <1>11

\* What is read of a text that looks like an envelope is its end.
LEMMA LookAlikeIsRead ==
    ASSUME NEW text, IsSeq(text), LooksLikeEnvelope(text)
    PROVE  EndsWith(text, DecodeChannelPayload(text).message)
<1> DEFINE f == SelectInSeq(text, LAMBDA x : x = Separator)
<1>1. f \in 1 .. Len(text)
  BY FirstSeparator DEF LooksLikeEnvelope
<1>2. DecodeChannelPayload(text).message = SubSeq(text, f + 1, Len(text))
  BY DEF DecodeChannelPayload
<1> HIDE DEF f
<1>3. f \in 0 .. Len(text)
  BY <1>1
<1> QED
  BY <1>2, <1>3 DEF EndsWith

-----------------------------------------------------------------------------
(* Arguments, fields and holes.                                            *)

\* The fields of a call are the arguments after the first kFormatArgCount ones.
LEMMA FieldsAreLast ==
    ASSUME NEW args, IsSeq(args), FieldsAreTrailing(args), NEW k, k = kFormatArgCount(args)
    PROVE  /\ k \in 0 .. Len(args)
           /\ CountTrailingFieldArgs(args) = Len(args) - k
           /\ \A i \in 1 .. Len(args) : kIsFieldArg(args[i]) <=> i > k
<1> DEFINE n == Len(args)
           Trailing == {i \in 1 .. n : kIsFieldArg(args[i])}
<1>1. n \in Nat /\ DOMAIN args = 1 .. n
  BY SeqShape
<1>2. Trailing = {i \in DOMAIN args : \A j \in i .. Len(args) : kIsFieldArg(args[j])}
  <2>1. \A i, j \in 1 .. n : i < j /\ kIsFieldArg(args[i]) => kIsFieldArg(args[j])
    BY <1>1 DEF FieldsAreTrailing
  <2>2. \A i \in 1 .. n : kIsFieldArg(args[i]) => \A j \in i .. n : kIsFieldArg(args[j])
    <3> SUFFICES ASSUME NEW i \in 1 .. n, kIsFieldArg(args[i]), NEW j \in i .. n
                 PROVE  kIsFieldArg(args[j])
      OBVIOUS
    <3>1. j \in 1 .. n /\ (i < j \/ i = j)
      BY <1>1
    <3> QED
      BY <2>1, <3>1
  <2>3. \A i \in 1 .. n : i \in i .. n
    BY <1>1
  <2> QED
    BY <1>1, <2>2, <2>3
<1>3. k = n - Cardinality(Trailing) /\ CountTrailingFieldArgs(args) = Cardinality(Trailing)
  BY <1>2 DEF kFormatArgCount, CountTrailingFieldArgs
<1>4. CASE Trailing = {}
  <2>1. Cardinality(Trailing) = 0
    BY <1>4, FS_EmptySet
  <2>2. k = n /\ CountTrailingFieldArgs(args) = 0
    BY <1>1, <1>3, <2>1
  <2>3. \A i \in 1 .. n : ~kIsFieldArg(args[i]) /\ ~(i > n)
    BY <1>1, <1>4
  <2> QED
    BY <1>1, <2>2, <2>3
<1>5. CASE Trailing # {}
  <2> DEFINE m == Min(Trailing)
  <2>1. m \in Trailing /\ \A i \in Trailing : m <= i
    <3>1. Trailing \subseteq Nat
      OBVIOUS
    <3> HIDE DEF Trailing
    <3> QED
      BY <1>5, <3>1, MinIsLeast
  <2> HIDE DEF m
  <2>2. m \in 1 .. n
    BY <2>1
  <2>3. Trailing = m .. n
    <3>1. \A i \in 1 .. n : i < m => ~kIsFieldArg(args[i])
      BY <2>1, <2>2
    <3>2. \A i \in m .. n : kIsFieldArg(args[i])
      BY <1>1, <1>2, <2>1
    <3> QED
      BY <1>1, <2>1, <2>2, <3>2
  <2>4. Cardinality(Trailing) = n - m + 1
    <3>1. m \in Int /\ n \in Int /\ ~(m > n)
      BY <1>1, <2>2
    <3>2. Cardinality(m .. n) = n - m + 1
      BY <3>1, FS_Interval
    <3> QED
      BY <2>3, <3>2, Zenon
  <2>5. k = m - 1
    BY <1>1, <1>3, <2>2, <2>4
  <2>6. \A i \in 1 .. n : i \in Trailing <=> i > k
    BY <1>1, <2>2, <2>3, <2>5
  <2> QED
    BY <1>1, <1>3, <2>2, <2>4, <2>5, <2>6
<1> QED
  BY <1>4, <1>5

\* The hole at a position has a number, and no more holes than the whole format has.
LEMMA HoleNumber ==
    ASSUME NEW format, IsSeq(format), NEW i \in 1 .. Len(format), format[i] = Hole
    PROVE  /\ HolesUpTo(format, Len(format)) \in Nat
           /\ HolesUpTo(format, i) \in 1 .. HolesUpTo(format, Len(format))
<1> DEFINE n == Len(format)
           Holes(m) == {j \in 1 .. m : format[j] = Hole}
<1>1. n \in Nat
  BY SeqShape
<1>2. IsFiniteSet(1 .. n)
  BY <1>1, FS_Interval
<1>3. /\ Holes(i) \subseteq Holes(n) /\ Holes(n) \subseteq 1 .. n /\ i \in Holes(i)
  BY <1>1
<1> HIDE DEF Holes
<1>4. IsFiniteSet(Holes(n))
  BY <1>2, <1>3, FS_Subset
<1>5. IsFiniteSet(Holes(i)) /\ Cardinality(Holes(i)) <= Cardinality(Holes(n))
  BY <1>3, <1>4, FS_Subset
<1>6. Cardinality(Holes(i)) \in Nat /\ Cardinality(Holes(n)) \in Nat
  BY <1>4, <1>5, FS_CardinalityType
<1>7. Cardinality(Holes(i)) # 0
  BY <1>3, <1>5, FS_EmptySet
<1>8. Cardinality(Holes(i)) \in 1 .. Cardinality(Holes(n))
  BY <1>5, <1>6, <1>7
<1> QED
  BY <1>6, <1>8 DEF HolesUpTo, Holes

\* What the assumption says of a call.
LEMMA CallFacts ==
    ASSUME NEW c \in Calls
    PROVE  /\ c.level \in 0 .. kOff - 1
           /\ IsSeq(c.channel) /\ IsSeq(c.format) /\ IsSeq(c.file) /\ IsSeq(c.args)
           /\ FieldsAreTrailing(c.args)
           /\ \A i \in 1 .. Len(c.args) : kIsFieldArg(c.args[i]) => IsFieldValue(c.args[i].value)
           /\ \A i \in 1 .. Len(c.args) : ~kIsFieldArg(c.args[i]) => IsSeq(c.args[i].text)
           /\ kFormatArgCount(c.args) # 0 =>
                HolesUpTo(c.format, Len(c.format)) <= kFormatArgCount(c.args)
<1>1. IsSeq(c.channel) /\ IsSeq(c.format) /\ IsSeq(c.file) /\ IsSeq(c.args)
  BY RoutingAssumption, TextIsSeq
<1>2. DOMAIN c.args = 1 .. Len(c.args)
  BY <1>1, SeqShape
<1>3. \A i \in DOMAIN c.args : ~kIsFieldArg(c.args[i]) => IsSeq(c.args[i].text)
  BY RoutingAssumption, TextIsSeq
<1> QED
  BY <1>1, <1>2, <1>3, RoutingAssumption

-----------------------------------------------------------------------------
(* The message and the payload are sequences and hold their parts.         *)

\* A JSON string is a sequence when its text is one.
LEMMA QuoteIsSeq ==
    ASSUME NEW t, IsSeq(t)
    PROVE  IsSeq(Quote(t))
<1> DEFINE m == [i \in DOMAIN t |-> IF t[i] \in {Prefix, Separator} THEN "escaped" ELSE t[i]]
           V == {m[i] : i \in 1 .. Len(t)}
<1>1. Len(t) \in Nat /\ DOMAIN t = 1 .. Len(t)
  BY SeqShape
<1>2. m \in [1 .. Len(t) -> V]
  BY <1>1
<1> HIDE DEF m, V
<1>3. IsSeq(m)
  BY <1>1, <1>2, FunctionIsSeq
<1>4. IsSeq(<<"quote">>)
  BY TuplesAreSeqs
<1>5. IsSeq(<<"quote">> \o m)
  BY <1>3, <1>4, Concat
<1>6. IsSeq((<<"quote">> \o m) \o <<"quote">>)
  BY <1>4, <1>5, Concat
<1> QED
  BY <1>6 DEF Quote, m

\* A value is a sequence in both formats, and the same one when it comes from kv.
LEMMA ValueIsSeq ==
    ASSUME NEW value, IsFieldValue(value)
    PROVE  IsSeq(Dump(value)) /\ FieldValueToText(value) = Dump(value)
<1>1. IsSeq(value.text) /\ IsSeq(<<"null">>) /\ (value.type = "null" => value.text = <<"null">>)
  BY TextIsSeq, TuplesAreSeqs DEF IsFieldValue
<1>2. IsSeq(Quote(value.text))
  BY <1>1, QuoteIsSeq
<1>3. IsSeq(Dump(value))
  BY <1>1, <1>2 DEF Dump
<1>4. FieldValueToText(value) = Dump(value)
  <2>1. CASE value.type = "null"
    BY <1>1, <2>1 DEF FieldValueToText, Dump
  <2>2. CASE value.type = "bool"
    BY <2>2 DEF FieldValueToText, Dump
  <2>3. CASE value.type # "null" /\ value.type # "bool"
    BY <2>3 DEF FieldValueToText
  <2> QED
    BY <2>1, <2>2, <2>3
<1> QED
  BY <1>3, <1>4

\* So is what is written for a field.
LEMMA PartsAreSeqs ==
    ASSUME NEW key, NEW value, IsFieldValue(value)
    PROVE  IsSeq(<<key, "=">> \o FieldValueToText(value)) /\ IsSeq(JsonPart(key, value))
<1>1. IsSeq(Dump(value)) /\ FieldValueToText(value) = Dump(value)
  BY ValueIsSeq
<1>2. IsSeq(<<key, "=">>) /\ IsSeq(<<key>>) /\ IsSeq(<<":">>)
  BY TuplesAreSeqs
<1>3. IsSeq(<<key, "=">> \o Dump(value))
  BY <1>1, <1>2, Concat
<1>4. IsSeq(Quote(<<key>>))
  BY <1>2, QuoteIsSeq
<1>5. IsSeq(Quote(<<key>>) \o <<":">>)
  BY <1>2, <1>4, Concat
<1>6. IsSeq((Quote(<<key>>) \o <<":">>) \o Dump(value))
  BY <1>1, <1>5, Concat
<1> QED
  BY <1>1, <1>3, <1>6 DEF JsonPart

\* Every hole of a format has an argument that is a sequence, so the message is one.
LEMMA MessageIsSeq ==
    ASSUME NEW c \in Calls
    PROVE  IsSeq(FormattedMessage(c.format, c.args))
<1> DEFINE k == kFormatArgCount(c.args)
           n == Len(c.format)
<1>1. IsSeq(c.format) /\ IsSeq(c.args) /\ n \in Nat /\ DOMAIN c.format = 1 .. n
  BY CallFacts, SeqShape
<1>2. CASE k = 0
  BY <1>1, <1>2 DEF FormattedMessage
<1>3. CASE k # 0
  <2> DEFINE parts == [i \in DOMAIN c.format |-> FormattedPart(c.format, c.args, i)]
             V == {parts[i] : i \in 1 .. n}
  <2>1. \A i \in 1 .. n : parts[i] = FormattedPart(c.format, c.args, i)
    BY <1>1
  <2>2. parts \in [1 .. n -> V]
    BY <1>1
  <2>3. FormattedMessage(c.format, c.args) = FlattenSeq(parts)
    BY <1>3 DEF FormattedMessage, FormatTupleArgs
  <2> HIDE DEF parts, V
  <2>4. IsSeq(parts) /\ Len(parts) = n
    BY <1>1, <2>2, FunctionIsSeq
  <2>5. ASSUME NEW i \in 1 .. n PROVE IsSeq(parts[i])
    <3>1. CASE c.format[i] = Hole
      <4> DEFINE h == HolesUpTo(c.format, i)
      <4>1. HolesUpTo(c.format, n) \in Nat /\ h \in 1 .. HolesUpTo(c.format, n)
        BY <1>1, <3>1, HoleNumber
      <4>2. k \in 0 .. Len(c.args) /\ \A j \in 1 .. Len(c.args) : kIsFieldArg(c.args[j]) <=> j > k
        BY CallFacts, FieldsAreLast
      <4>3. HolesUpTo(c.format, n) <= k
        BY <1>3, CallFacts
      <4>4. Len(c.args) \in Nat
        BY <1>1, SeqShape
      <4> HIDE DEF h, k
      <4>5. h \in 1 .. Len(c.args) /\ ~(h > k)
        BY <4>1, <4>2, <4>3, <4>4
      <4>6. IsSeq(c.args[h].text)
        BY <4>2, <4>5, CallFacts
      <4>7. FormattedPart(c.format, c.args, i) = c.args[h].text
        BY <3>1 DEF FormattedPart, Hole, EscapedBrace, h
      <4> QED
        BY <2>1, <4>6, <4>7, Zenon
    <3>2. CASE c.format[i] # Hole
      <4>1. \A x : IsSeq(<<x>>)
        BY TuplesAreSeqs
      <4> QED
        BY <2>1, <3>2, <4>1 DEF FormattedPart
    <3> QED
      BY <3>1, <3>2
  <2>6. IsSeq(FlattenSeq(parts))
    BY <2>4, <2>5, FlattenSeqHolds
  <2> QED
    BY <2>3, <2>6
<1> QED
  BY <1>2, <1>3

\* The fields of a call are its field arguments, in their order.
LEMMA FieldsOfCall ==
    ASSUME NEW c \in Calls, NEW k, k = kFormatArgCount(c.args),
           NEW fields, fields = BuildFields(c.args)
    PROVE  /\ k \in 0 .. Len(c.args)
           /\ \A i \in 1 .. Len(c.args) : kIsFieldArg(c.args[i]) <=> i > k
           /\ IsSeq(fields) /\ Len(fields) = Len(c.args) - k
           /\ \A i \in 1 .. Len(fields) :
                /\ fields[i].key = c.args[k + i].key
                /\ fields[i].value = c.args[k + i].value
                /\ IsFieldValue(fields[i].value)
<1> DEFINE n == Len(c.args)
           count == CountTrailingFieldArgs(c.args)
           V == {fields[i] : i \in 1 .. count}
<1>1. /\ k \in 0 .. n /\ count = n - k
      /\ \A i \in 1 .. n : kIsFieldArg(c.args[i]) <=> i > k
  BY CallFacts, FieldsAreLast
<1>2. n \in Nat
  BY CallFacts, SeqShape
<1> HIDE DEF n, count
<1>3. count \in Nat
  BY <1>1, <1>2
<1>4. fields = [i \in 1 .. count |-> [key |-> c.args[k + i].key, value |-> c.args[k + i].value]]
  BY DEF BuildFields, count
<1>5. fields \in [1 .. count -> V]
  BY <1>4
<1> HIDE DEF V
<1>6. IsSeq(fields) /\ Len(fields) = count
  BY <1>3, <1>5, FunctionIsSeq
<1>7. ASSUME NEW i \in 1 .. count
      PROVE  /\ fields[i].key = c.args[k + i].key
             /\ fields[i].value = c.args[k + i].value
             /\ IsFieldValue(fields[i].value)
  <2>1. fields[i] = [key |-> c.args[k + i].key, value |-> c.args[k + i].value]
    BY <1>4
  <2>2. fields[i].key = c.args[k + i].key /\ fields[i].value = c.args[k + i].value
    BY <2>1
  <2>3. k + i \in 1 .. n /\ k + i > k
    BY <1>1, <1>2, <1>3
  <2>4. IsFieldValue(c.args[k + i].value)
    BY <1>1, <2>3, CallFacts DEF n
  <2> QED
    BY <2>2, <2>4
<1> QED
  BY <1>1, <1>6, <1>7 DEF n

\* What a text begins with is a prefix of it.
LEMMA FrontIsPrefix ==
    ASSUME NEW m, NEW q, IsSeq(m), IsSeq(q)
    PROVE  IsPrefix(m, m \o q)
<1>1. IsSeq(<<>>) /\ Len(<<>>) = 0 /\ Len(m) \in Nat /\ Len(q) \in Nat
  BY TuplesAreSeqs, SeqShape
<1>2. <<>> \o m = m /\ m \o <<>> = m /\ Len(m \o q) = Len(m) + Len(q)
  BY Concat
<1>3. SubSeq((<<>> \o m) \o q, Len(<<>>) + 1, Len(<<>>) + Len(m)) = m
  BY <1>1, SubSeqOfConcat
<1>4. SubSeq((<<>> \o m) \o <<>>, Len(<<>>) + 1, Len(<<>>) + Len(m)) = m
  BY <1>1, SubSeqOfConcat
<1>5. Len(<<>>) + 1 = 1 /\ Len(<<>>) + Len(m) = Len(m)
  BY <1>1
<1>6. SubSeq(m \o q, 1, Len(m)) = m /\ SubSeq(m, 1, Len(m)) = m
  BY <1>2, <1>3, <1>4, <1>5, Zenon
<1>7. Len(m) <= Len(m \o q)
  BY <1>1, <1>2
<1> QED
  BY <1>6, <1>7 DEF IsPrefix

\* The text of a record begins with the message and holds every field.
LEMMA TextHolds ==
    ASSUME NEW m, IsSeq(m), NEW fields, IsSeq(fields),
           \A i \in 1 .. Len(fields) : IsFieldValue(fields[i].value),
           NEW t, t = BuildTextMessage(m, fields)
    PROVE  /\ IsSeq(t)
           /\ IsPrefix(m, t)
           /\ \A i \in 1 .. Len(fields) : PartOf(TextPart(fields[i]), t)
<1>1. IsSeq(<<>>) /\ IsSeq(<<"|">>) /\ m \o <<>> = m /\ Len(<<>>) = 0
  BY TuplesAreSeqs, Concat
<1>2. CASE fields = <<>>
  <2>1. t = m
    BY <1>2 DEF BuildTextMessage
  <2>2. \A i \in 1 .. Len(fields) : FALSE
    BY <1>1, <1>2
  <2>3. IsPrefix(m, t)
    <3>1. IsPrefix(m, m \o <<>>)
      BY <1>1, FrontIsPrefix
    <3> QED
      BY <1>1, <2>1, <3>1, Zenon
  <2> QED
    BY <1>1, <2>1, <2>2, <2>3
<1>3. CASE fields # <<>>
  <2> DEFINE parts == [i \in DOMAIN fields |-> TextPart(fields[i])]
             V == {parts[i] : i \in 1 .. Len(fields)}
             all == FlattenSeq(parts)
             tail == <<"|">> \o all
  <2>1. Len(fields) \in Nat /\ DOMAIN fields = 1 .. Len(fields)
    BY SeqShape
  <2>2. \A i \in 1 .. Len(fields) : parts[i] = TextPart(fields[i])
    BY <2>1
  <2>3. parts \in [1 .. Len(fields) -> V]
    BY <2>1
  <2>4. t = (m \o <<"|">>) \o all
    BY <1>3 DEF BuildTextMessage
  <2> HIDE DEF parts, V
  <2>5. IsSeq(parts) /\ Len(parts) = Len(fields)
    BY <2>1, <2>3, FunctionIsSeq
  <2>6. \A i \in 1 .. Len(fields) : IsSeq(parts[i])
    BY <2>2, PartsAreSeqs DEF TextPart
  <2>7. IsSeq(all) /\ \A i \in 1 .. Len(fields) : PartOf(parts[i], all)
    BY <2>5, <2>6, FlattenSeqHolds
  <2> HIDE DEF all
  <2>8. IsSeq(all)
    BY <2>7
  <2>9. IsSeq(tail)
    BY <1>1, <2>8, Concat
  <2>10. (m \o <<"|">>) \o all = m \o tail
    BY <1>1, <2>8, ConcatAssoc
  <2> HIDE DEF tail
  <2>11. t = m \o tail
    BY <2>4, <2>10
  <2>12. IsSeq(m \o tail) /\ IsSeq(m \o <<"|">>)
    BY <1>1, <2>9, Concat
  <2>13. ASSUME NEW i \in 1 .. Len(fields) PROVE PartOf(TextPart(fields[i]), t)
    <3> DEFINE a == parts[i]
               front == m \o <<"|">>
    <3>1. IsSeq(a) /\ PartOf(a, all) /\ IsSeq(front)
      BY <2>6, <2>7, <2>12
    <3>2. a = TextPart(fields[i]) /\ t = front \o all
      BY <2>2, <2>4
    <3> HIDE DEF a, front
    <3>3. PartOf(a, front \o all)
      BY <2>8, <3>1, PartOfLonger
    <3> QED
      BY <3>2, <3>3, Zenon
  <2>14. IsPrefix(m, t)
    <3>1. IsPrefix(m, m \o tail)
      BY <2>9, FrontIsPrefix
    <3> QED
      BY <2>11, <3>1, Zenon
  <2> QED
    BY <2>11, <2>12, <2>13, <2>14
<1> QED
  BY <1>2, <1>3

\* The position of the last separator of a path, 0 when there is none.
LEMMA LastSeparator ==
    ASSUME NEW path, IsSeq(path),
           NEW last, last = SelectLastInSeq(path, LAMBDA x : x \in {"/", "\\"})
    PROVE  /\ last \in 0 .. Len(path)
           /\ last # 0 => path[last] \in {"/", "\\"}
           /\ \A i \in last + 1 .. Len(path) : path[i] \notin {"/", "\\"}
<1> DEFINE n == Len(path)
           Marks == {i \in 1 .. n : path[i] \in {"/", "\\"}}
<1>1. n \in Nat
  BY SeqShape
<1>2. last = IF Marks # {} THEN Max(Marks) ELSE 0
  BY DEF SelectLastInSeq
<1>3. CASE Marks = {}
  <2>1. last = 0
    BY <1>2, <1>3
  <2> QED
    BY <1>1, <1>3, <2>1
<1>4. CASE Marks # {}
  <2>1. Marks \subseteq Nat /\ \A i \in Marks : i <= n
    BY <1>1
  <2> HIDE DEF Marks
  <2>2. Max(Marks) \in Marks /\ \A i \in Marks : i <= Max(Marks)
    BY <1>1, <1>4, <2>1, MaxIsGreatest
  <2>3. last \in Marks /\ \A i \in Marks : i <= last
    BY <1>2, <1>4, <2>2
  <2> USE DEF Marks
  <2>4. last \in 1 .. n /\ path[last] \in {"/", "\\"}
    BY <2>3
  <2>5. ASSUME NEW i \in last + 1 .. n PROVE path[i] \notin {"/", "\\"}
    <3>1. i \in 1 .. n /\ ~(i <= last)
      BY <1>1, <2>4
    <3> QED
      BY <2>3, <3>1
  <2> QED
    BY <1>1, <2>4, <2>5
<1> QED
  BY <1>3, <1>4

\* The name of a file is what follows the last separator of its path.
LEMMA NameFollows ==
    ASSUME NEW path, IsSeq(path), NEW last,
           last = SelectLastInSeq(path, LAMBDA x : x \in {"/", "\\"})
    PROVE  /\ Basename(path) = SubSeq(path, last + 1, Len(path))
           /\ IsSeq(Basename(path)) /\ Len(Basename(path)) = Len(path) - last
           /\ \A i \in 1 .. Len(Basename(path)) : Basename(path)[i] = path[last + i]
<1> DEFINE n == Len(path)
           low == last + 1
           name == SubSeq(path, low, n)
           V == {path[i] : i \in low .. n}
<1>1. n \in Nat
  BY SeqShape
<1>2. last \in 0 .. n
  BY LastSeparator
<1>3. Basename(path) = name
  BY DEF Basename
<1>4. \A i \in low .. n : path[i] \in V
  OBVIOUS
<1>5. low \in Int /\ n \in Int /\ n - low + 1 = n - last /\ (low <= n <=> n - last # 0)
  BY <1>1, <1>2
<1>6. \A i \in 1 .. n - last : low + i - 1 = last + i
  BY <1>1, <1>2
<1> HIDE DEF low, n, V
<1>7. /\ name \in Seq(V)
      /\ Len(name) = IF low <= n THEN n - low + 1 ELSE 0
      /\ \A i \in 1 .. n - low + 1 : name[i] = path[low + i - 1]
  BY <1>4, <1>5, SubSeqProperties
<1> HIDE DEF name
<1>8. IsSeq(name) /\ Len(name) = n - last /\ \A i \in 1 .. Len(name) : name[i] = path[last + i]
  BY <1>5, <1>6, <1>7 DEF IsSeq
<1> QED
  BY <1>3, <1>8 DEF name, low, n

\* The object of the fields keeps the last value of each key.
LEMMA LastValueStays ==
    ASSUME NEW fields, IsSeq(fields), NEW key \in Keys(fields)
    PROVE  \E j \in 1 .. Len(fields) :
              /\ fields[j].key = key /\ FieldObject(fields)[key] = fields[j].value
              /\ \A i \in 1 .. Len(fields) : fields[i].key = key => i <= j
<1> DEFINE n == Len(fields)
           own == ByKey(fields, key)
           j == Max(own)
<1>1. n \in Nat /\ DOMAIN fields = 1 .. n
  BY SeqShape
<1>2. /\ own \subseteq Nat /\ own # {} /\ \A i \in own : i <= n
      /\ own = {i \in 1 .. n : fields[i].key = key}
  BY <1>1 DEF ByKey, Keys
<1>3. FieldObject(fields)[key] = fields[j].value
  BY DEF FieldObject, FieldValueToJson
<1> HIDE DEF own
<1>4. j \in own /\ \A i \in own : i <= j
  BY <1>1, <1>2, MaxIsGreatest
<1> HIDE DEF j
<1> QED
  BY <1>2, <1>3, <1>4

\* The JSON object of a record begins with a brace and holds the message and every key
\* with the value that stays.
LEMMA JsonHolds ==
    ASSUME NEW lvl, NEW channel, IsSeq(channel), NEW m, IsSeq(m), NEW file, IsSeq(file),
           NEW fields, IsSeq(fields),
           \A i \in 1 .. Len(fields) : IsFieldValue(fields[i].value),
           NEW t, t = BuildJsonMessage(lvl, channel, m, fields, file)
    PROVE  /\ StartsWith(t, "{")
           /\ PartOf(Quote(m), t)
           /\ \A key \in Keys(fields) : PartOf(JsonPart(key, FieldObject(fields)[key]), t)
<1> DEFINE object == FieldObject(fields)
           keys == SetToSeq(DOMAIN object)
           entries == [i \in DOMAIN keys |-> JsonPart(keys[i], object[keys[i]])]
           all == FlattenSeq(entries)
           a == <<"{", LevelName(lvl)>>
           b == Quote(NormalizeChannel(channel))
           d == Quote(m)
           e == Quote(Basename(file))
           f == <<"{">>
           g == <<"}", "}">>
<1>1. t = (((((a \o b) \o d) \o e) \o f) \o all) \o g
  BY DEF BuildJsonMessage
<1>2. DOMAIN object = Keys(fields) /\ IsFiniteSet(Keys(fields))
  <2>1. DOMAIN object = Keys(fields)
    BY DEF FieldObject
  <2> DEFINE h == [i \in 1 .. Len(fields) |-> fields[i].key]
  <2>2. Len(fields) \in Nat /\ DOMAIN fields = 1 .. Len(fields)
    BY SeqShape
  <2>3. h \in Surjection(1 .. Len(fields), Keys(fields))
    BY <2>2 DEF Surjection, Keys
  <2>4. IsFiniteSet(1 .. Len(fields))
    BY <2>2, FS_Interval
  <2> HIDE DEF h
  <2>5. IsFiniteSet(Keys(fields))
    BY <2>3, <2>4, FS_Surjection
  <2> QED
    BY <2>1, <2>5
<1>3. ASSUME NEW key \in Keys(fields) PROVE IsSeq(JsonPart(key, object[key]))
  <2>1. IsFieldValue(object[key])
    BY <1>3, LastValueStays
  <2> HIDE DEF object
  <2> QED
    BY <2>1, PartsAreSeqs
<1>4. /\ IsSeq(keys)
      /\ \A i \in 1 .. Len(keys) : keys[i] \in Keys(fields)
      /\ \A x \in Keys(fields) : \E i \in 1 .. Len(keys) : keys[i] = x
  <2> HIDE DEF object
  <2> QED
    BY <1>2, SetToSeqLists
<1> HIDE DEF object, keys
<1>5. Len(keys) \in Nat /\ DOMAIN keys = 1 .. Len(keys)
  BY <1>4, SeqShape
<1>6. IsSeq(entries) /\ Len(entries) = Len(keys)
  <2> DEFINE V == {entries[i] : i \in 1 .. Len(keys)}
  <2>1. entries \in [1 .. Len(keys) -> V]
    BY <1>5
  <2> HIDE DEF V, entries
  <2> QED
    BY <1>5, <2>1, FunctionIsSeq
<1>7. \A i \in 1 .. Len(keys) : entries[i] = JsonPart(keys[i], object[keys[i]])
  BY <1>5
<1> HIDE DEF entries
<1>8. \A i \in 1 .. Len(entries) : IsSeq(entries[i])
  BY <1>3, <1>4, <1>6, <1>7
<1>9. IsSeq(all) /\ \A i \in 1 .. Len(entries) : PartOf(entries[i], all)
  BY <1>6, <1>8, FlattenSeqHolds
<1> HIDE DEF all
<1>10. IsSeq(b) /\ IsSeq(d) /\ IsSeq(e)
  <2>1. IsSeq(NormalizeChannel(channel))
    BY TuplesAreSeqs DEF NormalizeChannel, kDefaultChannel
  <2>2. IsSeq(Basename(file))
    BY NameFollows
  <2> QED
    BY <2>1, <2>2, QuoteIsSeq
<1>11. StartsWith(a, "{") /\ IsSeq(f) /\ IsSeq(g)
  BY StartOfPair, TuplesAreSeqs
<1> HIDE DEF a, b, d, e, f, g
<1> DEFINE p1 == a \o b
           p2 == p1 \o d
           p3 == p2 \o e
           p4 == p3 \o f
           p5 == p4 \o all
<1>12. StartsWith(p1, "{")
  BY <1>10, <1>11, StartOfConcat
<1> HIDE DEF p1
<1>13. StartsWith(p2, "{") /\ PartOf(d, p2)
  BY <1>10, <1>12, StartOfConcat
<1> HIDE DEF p2
<1>14. StartsWith(p3, "{") /\ PartOf(d, p3)
  BY <1>10, <1>13, StartOfConcat
<1> HIDE DEF p3
<1>15. StartsWith(p4, "{") /\ PartOf(d, p4)
  BY <1>10, <1>11, <1>14, StartOfConcat
<1> HIDE DEF p4
<1>16. StartsWith(p5, "{") /\ PartOf(d, p5) /\ \A x : IsSeq(x) /\ PartOf(x, all) => PartOf(x, p5)
  <2>1. IsSeq(all) /\ StartsWith(p4, "{") /\ IsSeq(p4)
    BY <1>9, <1>15 DEF StartsWith
  <2>2. StartsWith(p5, "{") /\ PartOf(d, p5)
    BY <1>10, <1>15, <2>1, StartOfConcat
  <2>3. \A x : IsSeq(x) /\ PartOf(x, all) => PartOf(x, p5)
    BY <2>1, PartOfLonger
  <2> QED
    BY <2>2, <2>3
<1> HIDE DEF p5
<1>17. /\ StartsWith(p5 \o g, "{") /\ PartOf(d, p5 \o g)
       /\ \A x : IsSeq(x) /\ PartOf(x, p5) => PartOf(x, p5 \o g)
  BY <1>10, <1>11, <1>16, StartOfConcat
<1>18. t = p5 \o g
  BY <1>1 DEF p1, p2, p3, p4, p5
<1>19. ASSUME NEW key \in Keys(fields) PROVE PartOf(JsonPart(key, object[key]), t)
  <2>1. PICK i \in 1 .. Len(keys) : keys[i] = key
    BY <1>4
  <2>2. entries[i] = JsonPart(key, object[key]) /\ IsSeq(entries[i]) /\ PartOf(entries[i], all)
    BY <1>6, <1>7, <1>8, <1>9, <2>1
  <2> QED
    BY <1>16, <1>17, <1>18, <2>2
<1> QED
  BY <1>17, <1>18, <1>19 DEF d, object

-----------------------------------------------------------------------------
(* The arguments of a call in what is rendered of it.                      *)

\* A part of a text is found in it.
LEMMA PartIsFound ==
    ASSUME NEW a, NEW x, IsSeq(a), PartOf(a, x)
    PROVE  HasPart(x, a)
<1>1. PICK p, q : IsSeq(p) /\ IsSeq(q) /\ x = (p \o a) \o q
  BY DEF PartOf
<1>2. SubSeq((p \o a) \o q, Len(p) + 1, Len(p) + Len(a)) = a
  BY <1>1, SubSeqOfConcat
<1>3. SubSeq(x, Len(p) + 1, Len(p) + Len(a)) = a
  BY <1>1, <1>2, Zenon
<1>4. IsSeq(p \o a) /\ Len(p \o a) = Len(p) + Len(a)
  BY <1>1, Concat
<1>5. Len((p \o a) \o q) = Len(p \o a) + Len(q)
  BY <1>1, <1>4, Concat
<1>6. Len(x) = (Len(p) + Len(a)) + Len(q)
  BY <1>1, <1>4, <1>5, Zenon
<1>7. Len(p) \in Nat /\ Len(a) \in Nat /\ Len(q) \in Nat
  BY <1>1, SeqShape
<1>8. Len(p) \in 0 .. Len(x) - Len(a)
  BY <1>6, <1>7
<1> QED
  BY <1>3, <1>8 DEF HasPart

\* The message that a call gives is the one that is formatted: the format as it stands
\* when every argument is a field.
LEMMA GivenIsFormatted ==
    ASSUME NEW c \in Calls
    PROVE  GivenMessage(c) = FormattedMessage(c.format, c.args)
<1> DEFINE k == kFormatArgCount(c.args)
           n == Len(c.args)
<1>1. k \in 0 .. n /\ \A i \in 1 .. n : kIsFieldArg(c.args[i]) <=> i > k
  BY CallFacts, FieldsAreLast
<1>2. n \in Nat /\ DOMAIN c.args = 1 .. n
  BY CallFacts, SeqShape
<1> HIDE DEF k, n
<1>3. (\A i \in 1 .. n : kIsFieldArg(c.args[i])) <=> k = 0
  <2>1. CASE k = 0
    BY <1>1, <1>2, <2>1
  <2>2. CASE k # 0
    <3>1. k \in 1 .. n /\ ~(k > k)
      BY <1>1, <1>2, <2>2
    <3> QED
      BY <1>1, <2>2, <3>1
  <2> QED
    BY <2>1, <2>2
<1> QED
  BY <1>2, <1>3 DEF GivenMessage, FormattedMessage, k

\* A field argument is one of the fields.
LEMMA FieldIsBuilt ==
    ASSUME NEW c \in Calls, NEW n \in 1 .. Len(c.args), kIsFieldArg(c.args[n]),
           NEW fields, fields = BuildFields(c.args)
    PROVE  \E i \in 1 .. Len(fields) :
              /\ fields[i].key = c.args[n].key /\ fields[i].value = c.args[n].value
              /\ n = kFormatArgCount(c.args) + i
<1> DEFINE k == kFormatArgCount(c.args)
<1>1. /\ k \in 0 .. Len(c.args) /\ n > k
      /\ Len(fields) = Len(c.args) - k
      /\ \A i \in 1 .. Len(fields) :
            fields[i].key = c.args[k + i].key /\ fields[i].value = c.args[k + i].value
  <2>1. /\ k \in 0 .. Len(c.args)
        /\ \A i \in 1 .. Len(c.args) : kIsFieldArg(c.args[i]) <=> i > k
        /\ Len(fields) = Len(c.args) - k
    BY FieldsOfCall
  <2>2. \A i \in 1 .. Len(fields) :
            fields[i].key = c.args[k + i].key /\ fields[i].value = c.args[k + i].value
    BY FieldsOfCall, SMTT(30)
  <2> HIDE DEF k
  <2>3. n > k
    BY <2>1
  <2> QED
    BY <2>1, <2>2, <2>3
<1>2. Len(c.args) \in Nat
  BY CallFacts, SeqShape
<1> HIDE DEF k
<1>3. n - k \in 1 .. Len(fields) /\ n = k + (n - k)
  BY <1>1, <1>2
<1> QED
  BY <1>1, <1>3 DEF k

\* The text of a call begins with its message and holds every field.
LEMMA TextOfCall ==
    ASSUME NEW c \in Calls
    PROVE  /\ IsPrefix(GivenMessage(c), TextPayload(c))
           /\ \A n \in 1 .. Len(c.args) : kIsFieldArg(c.args[n]) =>
                HasPart(TextPayload(c), <<c.args[n].key, "=">> \o Dump(c.args[n].value))
<1> DEFINE m == FormattedMessage(c.format, c.args)
           fields == BuildFields(c.args)
           t == TextPayload(c)
<1>1. IsSeq(m) /\ m = GivenMessage(c)
  BY MessageIsSeq, GivenIsFormatted
<1>2. IsSeq(fields) /\ \A i \in 1 .. Len(fields) : IsFieldValue(fields[i].value)
  BY FieldsOfCall
<1>3. t = BuildTextMessage(m, fields)
  BY DEF TextPayload
<1> HIDE DEF m, t
<1>4. /\ IsPrefix(m, t)
      /\ \A i \in 1 .. Len(fields) : PartOf(TextPart(fields[i]), t)
  <2> DEFINE u == BuildTextMessage(m, fields)
  <2> HIDE DEF fields
  <2>1. IsSeq(m)
    BY <1>1
  <2>2. /\ IsPrefix(m, u)
        /\ \A i \in 1 .. Len(fields) : PartOf(TextPart(fields[i]), u)
    <3>1. IsSeq(fields) /\ \A i \in 1 .. Len(fields) : IsFieldValue(fields[i].value)
      BY <1>2
    <3>2. IsPrefix(m, u)
      BY <2>1, <3>1, TextHolds
    <3>3. \A i \in 1 .. Len(fields) : PartOf(TextPart(fields[i]), u)
      BY <2>1, <3>1, TextHolds
    <3> QED
      BY <3>2, <3>3
  <2> QED
    BY <1>3, <2>2, Zenon
<1>5. IsPrefix(m, t)
  BY <1>4
<1>6. ASSUME NEW n \in 1 .. Len(c.args), kIsFieldArg(c.args[n])
      PROVE  HasPart(t, <<c.args[n].key, "=">> \o Dump(c.args[n].value))
  <2>1. PICK i \in 1 .. Len(fields) :
            fields[i].key = c.args[n].key /\ fields[i].value = c.args[n].value
    BY <1>6, FieldIsBuilt
  <2> HIDE DEF fields
  <2> DEFINE part == TextPart(fields[i])
  <2>2. FieldValueToText(fields[i].value) = Dump(c.args[n].value)
    BY <1>2, <2>1, ValueIsSeq
  <2>3. part = <<c.args[n].key, "=">> \o Dump(c.args[n].value)
    BY <2>1, <2>2 DEF TextPart
  <2>4. IsSeq(part) /\ PartOf(part, t)
    BY <1>2, <1>4, PartsAreSeqs DEF TextPart
  <2> HIDE DEF part
  <2>5. HasPart(t, part)
    BY <2>4, PartIsFound
  <2> QED
    BY <2>3, <2>5, Zenon
<1> QED
  BY <1>1, <1>5, <1>6 DEF t

\* The object of a call holds its message and each field that no later one replaces.
LEMMA JsonOfCall ==
    ASSUME NEW c \in Calls, NEW m, m = FormattedMessage(c.format, c.args), NEW t,
           t = BuildJsonMessage(c.level, c.channel, m, BuildFields(c.args), c.file)
    PROVE  /\ HasPart(t, Quote(GivenMessage(c)))
           /\ \A n \in 1 .. Len(c.args) :
                /\ kIsFieldArg(c.args[n])
                /\ \A k \in n + 1 .. Len(c.args) : c.args[k].key # c.args[n].key
                => HasPart(t, JsonPart(c.args[n].key, c.args[n].value))
<1> DEFINE fields == BuildFields(c.args)
           count == kFormatArgCount(c.args)
<1>1. IsSeq(m) /\ m = GivenMessage(c) /\ IsSeq(c.channel) /\ IsSeq(c.file)
  BY MessageIsSeq, GivenIsFormatted, CallFacts
<1>2. /\ count \in 0 .. Len(c.args) /\ Len(fields) = Len(c.args) - count
      /\ IsSeq(fields) /\ \A i \in 1 .. Len(fields) :
            fields[i].key = c.args[count + i].key /\ IsFieldValue(fields[i].value)
  BY FieldsOfCall
<1>3. Len(c.args) \in Nat
  BY CallFacts, SeqShape
<1>4. /\ PartOf(Quote(m), t)
      /\ \A key \in Keys(fields) : PartOf(JsonPart(key, FieldObject(fields)[key]), t)
  <2>1. t = BuildJsonMessage(c.level, c.channel, m, fields, c.file)
    OBVIOUS
  <2> HIDE DEF fields
  <2> QED
    BY <1>1, <1>2, <2>1, JsonHolds
<1>5. HasPart(t, Quote(m))
  BY <1>1, <1>4, QuoteIsSeq, PartIsFound
<1>6. ASSUME NEW n \in 1 .. Len(c.args), kIsFieldArg(c.args[n]),
             \A k \in n + 1 .. Len(c.args) : c.args[k].key # c.args[n].key
      PROVE  HasPart(t, JsonPart(c.args[n].key, c.args[n].value))
  <2> DEFINE key == c.args[n].key
  <2>1. PICK i \in 1 .. Len(fields) :
            /\ fields[i].key = key /\ fields[i].value = c.args[n].value
            /\ n = count + i
    BY <1>6, FieldIsBuilt
  <2> HIDE DEF fields, count
  <2>2. key \in Keys(fields)
    <3>1. DOMAIN fields = 1 .. Len(fields)
      BY <1>2, SeqShape
    <3> QED
      BY <2>1, <3>1 DEF Keys
  <2>3. PICK j \in 1 .. Len(fields) :
            /\ fields[j].key = key /\ FieldObject(fields)[key] = fields[j].value
            /\ \A h \in 1 .. Len(fields) : fields[h].key = key => h <= j
    BY <1>2, <2>2, LastValueStays
  <2>4. j = i
    <3> SUFFICES ASSUME j # i PROVE FALSE
      OBVIOUS
    <3>1. i <= j
      BY <2>1, <2>3
    <3>2. count + j \in n + 1 .. Len(c.args)
      BY <1>2, <1>3, <2>1, <3>1
    <3>3. c.args[count + j].key = key
      BY <1>2, <2>3
    <3> QED
      BY <1>6, <3>2, <3>3
  <2> DEFINE part == JsonPart(key, FieldObject(fields)[key])
  <2>5. IsFieldValue(FieldObject(fields)[key])
    BY <1>2, <2>3
  <2>6. IsSeq(part) /\ PartOf(part, t)
    BY <1>4, <2>2, <2>5, PartsAreSeqs
  <2>7. part = JsonPart(key, c.args[n].value)
    BY <2>1, <2>3, <2>4
  <2> HIDE DEF part
  <2>8. HasPart(t, part)
    BY <2>6, PartIsFound
  <2> QED
    BY <2>7, <2>8
<1> QED
  BY <1>1, <1>5, <1>6

-----------------------------------------------------------------------------
(* What a sink gets.                                                       *)

\* What is rendered is a sequence.
LEMMA RenderedIsSeq ==
    ASSUME NEW c \in Calls
    PROVE  IsSeq(Rendered(c))
<1> DEFINE m == FormattedMessage(c.format, c.args)
           fields == BuildFields(c.args)
<1>1. IsSeq(m) /\ IsSeq(c.channel) /\ IsSeq(c.file)
  BY MessageIsSeq, CallFacts
<1>2. IsSeq(fields) /\ \A i \in 1 .. Len(fields) : IsFieldValue(fields[i].value)
  BY FieldsOfCall
<1>3. IsSeq(TextPayload(c))
  <2> HIDE DEF m, fields
  <2>1. IsSeq(BuildTextMessage(m, fields))
    BY <1>1, <1>2, TextHolds
  <2> QED
    BY <2>1 DEF TextPayload, m, fields
<1>4. StartsWith(BuildJsonMessage(c.level, c.channel, m, fields, c.file), "{")
  <2> HIDE DEF m, fields
  <2> QED
    BY <1>1, <1>2, JsonHolds
<1>5. configuration.output_format = "json" => StartsWith(Rendered(c), "{")
  BY <1>4 DEF Rendered
<1>6. configuration.output_format # "json" => Rendered(c) = TextPayload(c)
  BY DEF Rendered
<1>7. IsSeq(Rendered(c))
  BY <1>3, <1>5, <1>6 DEF StartsWith
<1> QED
  BY <1>7

\* It comes out of the envelope as it went in, with the channel of the call; of a record
\* that is misread, one of the two is the end of the other.
LEMMA EnvelopeKeeps ==
    ASSUME NEW c \in Calls, NEW d, d = DecodeChannelPayload(Payload(c))
    PROVE  /\ ~Misread(c) => d.channel = NormalizeChannel(c.channel) /\ d.message = Rendered(c)
           /\ Misread(c) /\ c.channel = <<>> => EndsWith(Rendered(c), d.message)
           /\ Misread(c) /\ c.channel # <<>> => EndsWith(d.message, Rendered(c))
<1> DEFINE r == Rendered(c)
<1>1. IsSeq(r) /\ IsSeq(c.channel)
  BY RenderedIsSeq, CallFacts
<1>2. c.channel # <<>> => Payload(c) = EncodeChannelPayload(c.channel, r)
  BY DEF Payload
<1>3. c.channel = <<>> => Payload(c) = r
  BY DEF Payload
<1>4. Misread(c) <=> IF c.channel = <<>> THEN LooksLikeEnvelope(r)
                     ELSE Contains(c.channel, Separator)
  BY DEF Misread
<1> HIDE DEF r
<1>5. CASE c.channel # <<>> /\ ~Contains(c.channel, Separator)
  <2>1. d = [channel |-> c.channel, message |-> r]
    BY <1>1, <1>2, <1>5, EnvelopeOpens
  <2> QED
    BY <1>4, <1>5, <2>1 DEF NormalizeChannel, r
<1>6. CASE c.channel # <<>> /\ Contains(c.channel, Separator)
  <2>1. EndsWith(d.message, r)
    BY <1>1, <1>2, <1>6, EnvelopeMisread
  <2> QED
    BY <1>4, <1>6, <2>1 DEF r
<1>7. CASE c.channel = <<>> /\ ~LooksLikeEnvelope(r)
  <2>1. d = [channel |-> kDefaultChannel, message |-> r]
    BY <1>3, <1>7 DEF DecodeChannelPayload
  <2> QED
    BY <1>4, <1>7, <2>1 DEF NormalizeChannel, r
<1>8. CASE c.channel = <<>> /\ LooksLikeEnvelope(r)
  <2>1. EndsWith(r, d.message)
    BY <1>1, <1>3, <1>8, LookAlikeIsRead
  <2> QED
    BY <1>4, <1>8, <2>1 DEF r
<1> QED
  BY <1>5, <1>6, <1>7, <1>8

\* After a record, the sinks are those of the configuration and the output is that of the
\* call.
LEMMA LoggedFacts ==
    ASSUME IInv, Logged
    PROVE  /\ configuration \in Configuration
           /\ sinks = ConfiguredSinks(configuration)
           /\ level = ComputeEffectiveLevel(configuration)
           /\ call \in Calls /\ output = Output(call)
<1>1. /\ configuration \in Configuration
      /\ sinks = ConfiguredSinks(configuration)
      /\ level = ComputeEffectiveLevel(configuration)
  BY DEF IInv, InForce, Logged
<1>2. PICK c \in Calls : call = c /\ output = Output(c)
  BY DEF IInv, Logged
<1>3. Output(call) = Output(c)
  BY <1>2
<1> QED
  BY <1>1, <1>2, <1>3

\* What a sink writes is written by one of its own, with the message and the source file.
LEMMA Entries ==
    ASSUME IInv, Logged, NEW s \in SinkName, NEW i \in DOMAIN output[s]
    PROVE  /\ i \in DOMAIN sinks /\ sinks[i].sink.inner = s
           /\ output[s][i].text = DecodeChannelPayload(Payload(call)).message
           /\ output[s][i].formatter = sinks[i].formatter
           /\ output[s][i].file = Basename(call.file)
<1>1. output = Output(call) /\ call \in Calls
  BY LoggedFacts
<1>2. IsLevelEnabled(call.level, level)
  <2> SUFFICES ASSUME ~IsLevelEnabled(call.level, level) PROVE FALSE
    OBVIOUS
  <2>1. output[s] = <<>>
    BY <1>1 DEF Output, NoOutput
  <2> QED
    BY <2>1
<1>3. output[s] = Written(call, s)
  BY <1>1, <1>2 DEF Output
<1>4. i \in Writers(call, s)
  BY <1>3 DEF Written
<1>5. output[s][i] = [text |-> DecodeChannelPayload(Payload(call)).message,
                      formatter |-> sinks[i].formatter, file |-> Basename(call.file)]
  BY <1>3, <1>4 DEF Written
<1>6. i \in DOMAIN sinks /\ sinks[i].sink.inner = s
  BY <1>4 DEF Writers
<1> QED
  BY <1>5, <1>6

\* A sink in use wants a record that is not misread exactly when its filters let it through,
\* and then the filter of the whole logger does; a sink that is not in use has no writer.
LEMMA OneWriter ==
    ASSUME IInv, Logged, ~Misread(call), NEW s \in SinkName
    PROVE  \/ /\ Wants(s) /\ IsLevelEnabled(call.level, level)
              /\ \E p : Writers(call, s) = {p}
           \/ ~Wants(s) /\ Writers(call, s) = {}
<1> DEFINE k == configuration[s]
           channel == NormalizeChannel(call.channel)
           Lets == \/ k.channels = {}
                   \/ s = "console" /\ call.level >= kWarn
                   \/ channel \in k.channels
<1>1. /\ configuration \in Configuration /\ sinks = ConfiguredSinks(configuration)
      /\ level = ComputeEffectiveLevel(configuration) /\ call \in Calls
  BY LoggedFacts
<1>2. DecodeChannelPayload(Payload(call)).channel = channel
  BY <1>1, EnvelopeKeeps
<1>3. Wants(s) <=> k.enabled /\ call.level >= k.level /\ Lets
  BY DEF Wants, NormalizeChannel
<1> HIDE DEF channel
<1>4. CASE ~k.enabled
  <2>1. \A i \in DOMAIN sinks : sinks[i].sink.inner # s
    BY <1>1, <1>4, SinksOfConfiguration
  <2> QED
    BY <1>3, <1>4, <2>1 DEF Writers
<1>5. CASE k.enabled
  <2>1. PICK p \in DOMAIN sinks :
            /\ sinks[p].sink = MakeConfiguredSink(s, configuration)
            /\ sinks[p].sink.inner = s
            /\ \A i \in DOMAIN sinks : sinks[i].sink.inner = s => i = p
    BY <1>1, <1>5, SinksOfConfiguration
  <2> DEFINE own == sinks[p].sink
  <2>2. own.level = k.level /\ own.channels = k.channels /\ (own.bypass <=> s = "console")
    <3>1. own = [inner |-> s, level |-> k.level, channels |-> k.channels,
                 bypass |-> s = "console"]
      BY <2>1 DEF MakeConfiguredSink
    <3> HIDE DEF own, k
    <3>2. own.level = k.level /\ own.channels = k.channels
      BY <3>1
    <3>3. own.bypass = (s = "console")
      BY <3>1, Zenon
    <3> QED
      BY <3>2, <3>3, Zenon
  <2>3. ChannelFilter(own, call.level, channel) <=> Lets
    BY <2>2 DEF ChannelFilter
  <2>4. CASE call.level >= k.level /\ Lets
    <3>1. Writers(call, s) = {p}
      BY <1>2, <2>1, <2>2, <2>3, <2>4 DEF Writers
    <3>2. IsLevelEnabled(call.level, level)
      <4>1. /\ call.level \in 0 .. kOff - 1 /\ k.level \in 0 .. kOff
            /\ level \in 0 .. kOff /\ level <= k.level /\ kOff \in Nat
        <5>1. call.level \in 0 .. kOff - 1 /\ kOff \in Nat
          <6>1. call.level \in 0 .. kOff - 1
            BY <1>1, CallFacts
          <6> QED
            BY <6>1 DEF kOff
        <5>2. k.level \in 0 .. kOff /\ level \in 0 .. kOff /\ level <= k.level
          <6> DEFINE e == ComputeEffectiveLevel(configuration)
          <6>1. level = e
            BY <1>1
          <6>2. /\ e \in 0 .. kOff /\ configuration[s].level \in 0 .. kOff
                /\ configuration[s].enabled => e <= configuration[s].level
            BY <1>1, EffectiveLevel
          <6> HIDE DEF e
          <6> QED
            BY <1>5, <6>1, <6>2
        <5> QED
          BY <5>1, <5>2
      <4> HIDE DEF k
      <4>2. level # kOff /\ call.level >= level
        BY <2>4, <4>1
      <4> QED
        BY <4>2 DEF IsLevelEnabled
    <3> QED
      BY <1>3, <1>5, <2>4, <3>1, <3>2
  <2>5. CASE ~(call.level >= k.level /\ Lets)
    <3>1. ASSUME NEW i \in Writers(call, s) PROVE FALSE
      <4>1. i = p /\ call.level >= own.level /\ ChannelFilter(own, call.level, channel)
        BY <1>2, <2>1, <3>1 DEF Writers
      <4> QED
        BY <2>2, <2>3, <2>5, <4>1
    <3> QED
      BY <1>3, <2>5, <3>1
  <2> QED
    BY <2>4, <2>5
<1> QED
  BY <1>4, <1>5

\* Whatever channel is read, a sink has one writer at most, which is in use and lets the
\* level through.
LEMMA OneWriterAtMost ==
    ASSUME IInv, Logged, NEW s \in SinkName
    PROVE  \/ Writers(call, s) = {}
           \/ /\ configuration[s].enabled /\ call.level >= configuration[s].level
              /\ \E p : Writers(call, s) = {p}
<1>1. configuration \in Configuration /\ sinks = ConfiguredSinks(configuration)
  BY LoggedFacts
<1>2. CASE ~configuration[s].enabled
  <2>1. \A i \in DOMAIN sinks : sinks[i].sink.inner # s
    BY <1>1, <1>2, SinksOfConfiguration
  <2> QED
    BY <2>1 DEF Writers
<1>3. CASE configuration[s].enabled
  <2>1. PICK p \in DOMAIN sinks :
            /\ sinks[p].sink = MakeConfiguredSink(s, configuration)
            /\ \A i \in DOMAIN sinks : sinks[i].sink.inner = s => i = p
    BY <1>1, <1>3, SinksOfConfiguration
  <2>2. sinks[p].sink.level = configuration[s].level
    BY <2>1 DEF MakeConfiguredSink
  <2>3. Writers(call, s) \subseteq {p}
    BY <2>1 DEF Writers
  <2>4. p \in Writers(call, s) => call.level >= configuration[s].level
    BY <2>2 DEF Writers
  <2> QED
    BY <1>3, <2>3, <2>4
<1> QED
  BY <1>2, <1>3

-----------------------------------------------------------------------------
(* Theorems.                                                               *)

\* The type invariant: among others, every sink has one of the two names and a pattern of
\* one of them or the plain one.
THEOREM TypeCorrect == Spec => []TypeOK
<1>1. ASSUME IInv PROVE TypeOK
  <2>2. configuration \in Configuration \cup {<<>>} /\ level \in 0 .. kOff
    BY <1>1, EffectiveLevel DEF IInv, InForce, kOff
  <2>3. call \in Calls \cup {<<>>} /\ DOMAIN output = SinkName
    BY <1>1 DEF IInv, Output, NoOutput
  <2>4. \A i \in DOMAIN sinks :
            sinks[i].sink.inner \in SinkName /\ sinks[i].formatter \in SinkName \cup {"%v"}
    <3>1. CASE sinks = <<>>
      BY <3>1
    <3>2. CASE configuration \in Configuration /\ sinks = ConfiguredSinks(configuration)
      <4>1. "file" \in SinkName
        BY DEF SinkName
      <4> QED
        BY <3>2, <4>1, SinksOfConfiguration
    <3> QED
      BY <1>1, <3>1, <3>2 DEF IInv, InForce
  <2> QED
    BY <2>2, <2>3, <2>4 DEF TypeOK
<1> QED
  BY <1>1, Inductive, PTL

\* Each sink writes a record once when its own configuration asks for it, and otherwise not;
\* one that is misread it writes at most once, and never below its level.
THEOREM Routing == Spec => []RoutesByLevelAndChannel
<1>1. ASSUME IInv, Logged, NEW s \in SinkName
      PROVE  DOMAIN output[s] = IF IsLevelEnabled(call.level, level) THEN Writers(call, s) ELSE {}
  BY <1>1, LoggedFacts DEF Output, Written, NoOutput
<1>2. ASSUME IInv, Logged, ~Misread(call), NEW s \in SinkName
      PROVE  Cardinality(DOMAIN output[s]) = IF Wants(s) THEN 1 ELSE 0
  <2>1. CASE Wants(s)
    <3>1. PICK p : DOMAIN output[s] = {p}
      BY <1>1, <1>2, <2>1, OneWriter
    <3>2. Cardinality({p}) = 1
      BY FS_Singleton
    <3> QED
      BY <2>1, <3>1, <3>2
  <2>2. CASE ~Wants(s)
    <3>1. DOMAIN output[s] = {}
      BY <1>1, <1>2, <2>2, OneWriter
    <3> QED
      BY <2>2, <3>1, FS_EmptySet
  <2> QED
    BY <2>1, <2>2
<1>3. ASSUME IInv, Logged, NEW s \in SinkName
      PROVE  /\ Cardinality(DOMAIN output[s]) <= 1
             /\ DOMAIN output[s] # {} =>
                 configuration[s].enabled /\ call.level >= configuration[s].level
  <2>1. CASE DOMAIN output[s] = {}
    BY <2>1, FS_EmptySet
  <2>2. CASE DOMAIN output[s] # {}
    <3>1. PICK p : DOMAIN output[s] = {p}
      BY <1>1, <1>3, <2>2, OneWriterAtMost
    <3>2. Cardinality({p}) = 1
      BY FS_Singleton
    <3>3. configuration[s].enabled /\ call.level >= configuration[s].level
      BY <1>1, <1>3, <2>2, OneWriterAtMost
    <3> QED
      BY <3>1, <3>2, <3>3
  <2> QED
    BY <2>1, <2>2
<1>4. IInv => RoutesByLevelAndChannel
  BY <1>2, <1>3 DEF RoutesByLevelAndChannel
<1> QED
  BY <1>4, Inductive, PTL

\* What a sink writes is the text or the object of the record: the envelope is gone,
\* whatever marks are in the text of a record with a channel.  Of a record that is misread,
\* without a channel the end is written, with one the whole of it behind some of the channel.
THEOREM MessageKept == Spec => []KeepsTheMessage
<1>1. ASSUME IInv, Logged, NEW s \in SinkName, NEW i \in DOMAIN output[s]
      PROVE  LET text == output[s][i].text IN
             CASE ~Misread(call)                        -> text = Rendered(call)
               [] Misread(call) /\ call.channel = <<>>  -> EndsWith(Rendered(call), text)
               [] Misread(call) /\ call.channel # <<>>  -> EndsWith(text, Rendered(call))
  <2> DEFINE text == output[s][i].text
  <2>1. call \in Calls /\ text = DecodeChannelPayload(Payload(call)).message
    BY <1>1, LoggedFacts, Entries
  <2>2. /\ ~Misread(call) => text = Rendered(call)
        /\ Misread(call) /\ call.channel = <<>> => EndsWith(Rendered(call), text)
        /\ Misread(call) /\ call.channel # <<>> => EndsWith(text, Rendered(call))
    BY <2>1, EnvelopeKeeps
  <2> HIDE DEF text
  <2>3. CASE ~Misread(call)
    BY <2>2, <2>3 DEF text
  <2>4. CASE Misread(call) /\ call.channel = <<>>
    BY <2>2, <2>4 DEF text
  <2>5. CASE Misread(call) /\ call.channel # <<>>
    BY <2>2, <2>5 DEF text
  <2> QED
    BY <2>3, <2>4, <2>5
<1>2. IInv => KeepsTheMessage
  BY <1>1 DEF KeepsTheMessage
<1> QED
  BY <1>2, Inductive, PTL

\* A record that is not misread holds every argument of its call: the message first or
\* quoted, each field with its key and value, in JSON the last one of a key.
THEOREM ArgumentsHeld == Spec => []RecordHoldsEveryArgument
<1>1. ASSUME IInv, Logged, ~Misread(call), NEW s \in SinkName, NEW i \in DOMAIN output[s]
      PROVE  LET text == output[s][i].text
                 json == configuration.output_format = "json"
                 message == GivenMessage(call)
             IN  /\ IF json THEN HasPart(text, Quote(message)) ELSE IsPrefix(message, text)
                 /\ \A n \in DOMAIN call.args :
                     LET field == call.args[n] IN
                     kIsFieldArg(field) =>
                         IF json
                         THEN (\A k \in n + 1 .. Len(call.args) : call.args[k].key # field.key)
                                 => HasPart(text, JsonPart(field.key, field.value))
                         ELSE HasPart(text, <<field.key, "=">> \o Dump(field.value))
  <2>1. call \in Calls /\ output[s][i].text = Rendered(call)
    BY <1>1, LoggedFacts, Entries, EnvelopeKeeps
  <2>2. DOMAIN call.args = 1 .. Len(call.args)
    BY <2>1, CallFacts, SeqShape
  <2>3. CASE configuration.output_format = "json"
    <3> DEFINE m == FormattedMessage(call.format, call.args)
               t == BuildJsonMessage(call.level, call.channel, m, BuildFields(call.args),
                                     call.file)
    <3>1. output[s][i].text = t
      BY <2>1, <2>3 DEF Rendered
    <3> HIDE DEF m
    <3>2. /\ HasPart(t, Quote(GivenMessage(call)))
          /\ \A n \in 1 .. Len(call.args) :
                /\ kIsFieldArg(call.args[n])
                /\ \A k \in n + 1 .. Len(call.args) : call.args[k].key # call.args[n].key
                => HasPart(t, JsonPart(call.args[n].key, call.args[n].value))
      BY <2>1, JsonOfCall DEF m
    <3> HIDE DEF t
    <3> QED
      BY <2>2, <2>3, <3>1, <3>2
  <2>4. CASE configuration.output_format # "json"
    <3>1. output[s][i].text = TextPayload(call)
      BY <2>1, <2>4 DEF Rendered
    <3> QED
      BY <2>1, <2>2, <2>4, <3>1, TextOfCall
  <2> QED
    BY <2>3, <2>4
<1>2. IInv => RecordHoldsEveryArgument
  BY <1>1 DEF RecordHoldsEveryArgument
<1> QED
  BY <1>2, Inductive, PTL

\* A sink writes with the pattern that was configured for it.
THEOREM OwnPattern == Spec => []UsesItsOwnPattern
<1>1. ASSUME IInv, Logged, NEW s \in SinkName, NEW i \in DOMAIN output[s]
      PROVE  output[s][i].formatter = IF configuration.output_format = "json" THEN "%v" ELSE s
  <2>1. configuration \in Configuration /\ sinks = ConfiguredSinks(configuration)
    BY <1>1, LoggedFacts
  <2>2. i \in DOMAIN sinks /\ sinks[i].sink.inner = s
        /\ output[s][i].formatter = sinks[i].formatter
    BY <1>1, Entries
  <2>3. configuration[s].enabled
    BY <2>1, <2>2, SinksOfConfiguration
  <2>4. sinks[i].formatter = IF configuration.output_format = "json" THEN "%v" ELSE s
    BY <2>1, <2>2, <2>3, SinksOfConfiguration
  <2> QED
    BY <2>2, <2>4
<1>2. IInv => UsesItsOwnPattern
  BY <1>1 DEF UsesItsOwnPattern
<1> QED
  BY <1>2, Inductive, PTL

\* The source file of a record is what follows the last separator of its path.
THEOREM SourceNamed == Spec => []SourceIsTheFileName
<1>1. ASSUME NEW path, IsSeq(path) PROVE IsFileName(Basename(path), path)
  <2> DEFINE last == SelectLastInSeq(path, LAMBDA x : x \in {"/", "\\"})
             name == Basename(path)
  <2>1. Len(path) \in Nat
    BY <1>1, SeqShape
  <2>2. /\ last \in 0 .. Len(path)
        /\ last # 0 => path[last] \in {"/", "\\"}
        /\ \A j \in last + 1 .. Len(path) : path[j] \notin {"/", "\\"}
    BY <1>1, LastSeparator
  <2>3. /\ name = SubSeq(path, last + 1, Len(path))
        /\ IsSeq(name) /\ Len(name) = Len(path) - last
        /\ \A j \in 1 .. Len(name) : name[j] = path[last + j]
    BY <1>1, NameFollows
  <2> HIDE DEF last, name
  <2>4. Len(path) - Len(name) = last /\ last >= 0
    BY <2>1, <2>2, <2>3
  <2>5. ASSUME NEW j \in 1 .. Len(name) PROVE name[j] \notin {"/", "\\"}
    <3>1. last + j \in last + 1 .. Len(path)
      BY <2>1, <2>2, <2>3
    <3> QED
      BY <2>2, <2>3, <3>1
  <2>6. DOMAIN name = 1 .. Len(name)
    BY <2>3, SeqShape
  <2>7. \A x \in ToSet(name) : x \notin {"/", "\\"}
    BY <2>5, <2>6 DEF ToSet
  <2> QED
    BY <2>2, <2>3, <2>4, <2>7 DEF IsFileName, name
<1>2. ASSUME IInv PROVE SourceIsTheFileName
  <2> SUFFICES ASSUME Logged, NEW s \in SinkName, NEW i \in DOMAIN output[s]
               PROVE  IsFileName(output[s][i].file, call.file)
    BY DEF SourceIsTheFileName
  <2>1. IsSeq(call.file) /\ output[s][i].file = Basename(call.file)
    BY <1>2, LoggedFacts, CallFacts, Entries
  <2> QED
    BY <1>1, <2>1
<1> QED
  BY <1>2, Inductive, PTL

\* The level in a pattern has the width that the pattern asks for.
THEOREM LevelFlag == Spec => []LevelFlagFillsItsWidth
<1>1. ASSUME NEW lvl \in 0 .. kOff - 1, NEW p \in PaddingInfo,
             NEW sz, sz = ToPatternLevelNameSize(lvl),
             NEW f, f = UppercaseLevelFormatter(lvl, p)
      PROVE  /\ f.left + f.kept + f.right = IF ~p.enabled \/ (p.width < sz /\ ~p.truncate)
                                            THEN sz ELSE p.width
             /\ f.kept < sz => f.left = 0 /\ f.right = 0
             /\ p.side = "left" => f.right = 0
             /\ p.side = "right" => f.left = 0
             /\ p.side = "center" => f.right \in {f.left, f.left + 1}
  <2> DEFINE kept == LettersKept(lvl, p)
             pad == Padding(lvl, p)
             left == CASE p.side = "left"   -> pad
                       [] p.side = "center" -> pad \div 2
                       [] OTHER             -> 0
  <2>1. sz \in Nat
    BY <1>1 DEF ToPatternLevelNameSize, kOff
  <2> DEFINE sides == {"left", "right", "center"}
             Some == [enabled : {TRUE}, side : sides, truncate : BOOLEAN, width : 0 .. 64]
  <2>2. p.width \in Nat /\ p.side \in sides
    <3>1. CASE p \in Some
      <4>1. p.side \in sides /\ p.width \in 0 .. 64
        BY <3>1
      <4> QED
        BY <4>1
    <3>2. CASE p = NoPadding
      BY <3>2 DEF NoPadding
    <3> QED
      BY <3>1, <3>2 DEF PaddingInfo
  <2>3. ~p.enabled => p.side = "left" /\ ~p.truncate
    <3>1. CASE p \in Some
      <4>1. p.enabled = TRUE
        BY <3>1, Zenon
      <4> QED
        BY <4>1, Zenon
    <3>2. CASE p = NoPadding
      <4>1. p.side = "left" /\ p.truncate = FALSE
        BY <3>2, Zenon DEF NoPadding
      <4> QED
        BY <4>1, Zenon
    <3> QED
      BY <3>1, <3>2 DEF PaddingInfo
  <2>4. f = [left |-> left, kept |-> kept, right |-> pad - left]
    BY <1>1 DEF UppercaseLevelFormatter
  <2>5. kept = IF p.truncate /\ p.width < sz THEN p.width ELSE sz
    BY <1>1 DEF LettersKept
  <2>6. pad = IF p.enabled /\ p.width > kept THEN p.width - kept ELSE 0
    BY DEF Padding
  <2> HIDE DEF kept, pad
  <2>7. kept \in Nat /\ pad \in Nat
    BY <2>1, <2>2, <2>5, <2>6
  <2>8. /\ p.side = "left" => left = pad
        /\ p.side = "right" => left = 0
        /\ p.side = "center" => left = pad \div 2
    BY <2>2
  <2> HIDE DEF left
  <2>9. f.left = left /\ f.kept = kept /\ f.right = pad - left
    BY <2>4
  <2>10. left \in 0 .. pad
    BY <2>2, <2>7, <2>8
  <2>11. f.left + f.kept + f.right = kept + pad
    BY <2>7, <2>9, <2>10
  <2>12. kept + pad = IF ~p.enabled \/ (p.width < sz /\ ~p.truncate) THEN sz ELSE p.width
    BY <2>1, <2>2, <2>3, <2>5, <2>6
  <2>13. kept < sz => pad = 0
    BY <2>1, <2>2, <2>5, <2>6
  <2>14. pad - pad \div 2 \in {pad \div 2, pad \div 2 + 1}
    BY <2>7
  <2> QED
    BY <2>7, <2>8, <2>9, <2>10, <2>11, <2>12, <2>13, <2>14
<1>2. ASSUME IInv PROVE LevelFlagFillsItsWidth
  <2>1. Logged => call.level \in 0 .. kOff - 1
    BY <1>2, LoggedFacts, CallFacts
  <2> QED
    BY <1>1, <2>1 DEF LevelFlagFillsItsWidth
<1> QED
  BY <1>2, Inductive, PTL
=============================================================================
