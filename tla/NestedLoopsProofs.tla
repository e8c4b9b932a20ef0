---------------------------- MODULE NestedLoopsProofs ----------------------------
(***************************************************************************)
(* Theorems about the two components whose handlers run an event loop.     *)
(*                                                                         *)
(* BluetoothLink: for every fragment size, every largest header and every  *)
(* length of the frames.  Both directions cut and join frames in the same  *)
(* way, so what is true of the fragments on their way is said once, of the *)
(* operator Transit, and used for either.                                  *)
(*                                                                         *)
(* WifiConfig: for every set of networks and any number of commands.  A    *)
(* command of which none of its kind has run inside another is the only    *)
(* one of its kind on the stack, so what it has done so far can be read    *)
(* off the file, the service and what it still waits for.                  *)
(***************************************************************************)
EXTENDS BluetoothLink, WifiConfig, SequenceLemmas, SequenceTheorems

Byte == Kinds \X (Nat \ {0})

\* Where the frames begin in the fragments on their way: frame j is cut into
\* the fragments start[j] + 1, start[j] + 2, ...  Those with a number below 1
\* have been received.
Placed(start, fragments, sent, j) ==
  /\ start[j + 1] = start[j] + FragmentCount(sent[j])
  /\ start[j + 1] <= Len(fragments)
  /\ \A i \in 1 .. FragmentCount(sent[j]) :
       start[j] + i > 0 => fragments[start[j] + i] = Fragments(sent[j])[i]

\* The receiver has the bytes of the received fragments of frame j.
Received(start, bytes, sent, j) ==
  /\ start[j + 1] > 0
  /\ bytes = SubSeq(BytesOf(sent[j]), 1, (0 - start[j]) * MaxFragment)

\* The first m of n frames have been delivered.
Layout(start, fragments, bytes, sent, m, n) ==
  /\ start[n + 1] = Len(fragments)
  /\ \A j \in m + 1 .. n : Placed(start, fragments, sent, j)
  /\ start[m + 1] <= 0
  /\ m = n => start[m + 1] = 0 /\ bytes = <<>>
  /\ m < n => Received(start, bytes, sent, m + 1)

\* One direction of a connection.
Transit(Frames, fragments, bytes, sent, delivered) ==
  /\ fragments \in Seq(Fragment)
  /\ sent \in Seq(Frames)
  /\ delivered \in Seq(Frames)
  /\ Len(delivered) <= Len(sent)
  /\ \A i \in 1 .. Len(delivered) : delivered[i] = sent[i]
  /\ \E start \in [Nat -> Int] : Layout(start, fragments, bytes, sent, Len(delivered), Len(sent))

-----------------------------------------------------------------------------
(* Fragments                                                                *)

\* What division promises.
LEMMA Division ==
  ASSUME NEW a \in Nat, NEW b \in Nat \ {0}
  PROVE  a \div b \in Nat /\ b * (a \div b) <= a /\ a < b * (a \div b) + b
OBVIOUS

\* All fragments but the last are full, the last is not empty.
LEMMA CountFits ==
  ASSUME NEW kind \in Kinds
  PROVE  /\ FragmentCount(kind) \in Nat \ {0}
         /\ Length[kind] \in Nat \ {0}
         /\ (FragmentCount(kind) - 1) * MaxFragment < Length[kind]
         /\ Length[kind] <= FragmentCount(kind) * MaxFragment
<1>1. MaxFragment \in Nat \ {0} /\ Length[kind] \in Nat \ {0}
  BY LinkAssumption
<1> DEFINE a == Length[kind] + MaxFragment - 1
           count == a \div MaxFragment
<1>2. a \in Nat /\ a = Length[kind] + MaxFragment - 1 /\ count = FragmentCount(kind)
  BY <1>1 DEF FragmentCount
<1> HIDE DEF a
<1>3. count \in Nat /\ MaxFragment * count <= a /\ a < MaxFragment * count + MaxFragment
  BY <1>1, <1>2, Division
<1> HIDE DEF count
<1>4. count # 0
  <2>1. a >= MaxFragment /\ MaxFragment * 0 = 0
    BY <1>1, <1>2
  <2>2. QED
    BY <1>1, <1>2, <1>3, <2>1
<1>5. (count - 1) * MaxFragment < Length[kind] /\ Length[kind] <= count * MaxFragment
  BY <1>1, <1>2, <1>3
<1>6. QED
  BY <1>1, <1>2, <1>3, <1>4, <1>5

\* The bytes of a frame, its length and that they name it.
LEMMA BytesName ==
  ASSUME NEW kind \in Kinds
  PROVE  /\ BytesOf(kind) \in Seq(Byte)
         /\ Len(BytesOf(kind)) = Length[kind]
         /\ FrameOf(BytesOf(kind)) = kind
<1>1. Length[kind] \in Nat \ {0}
  BY CountFits
<1>2. BytesOf(kind) \in [1 .. Length[kind] -> Byte]
  BY <1>1 DEF BytesOf, Byte
<1>3. BytesOf(kind) \in Seq(Byte) /\ Len(BytesOf(kind)) = Length[kind]
  BY <1>1, <1>2
<1>4. ASSUME NEW k \in Kinds, BytesOf(k) = BytesOf(kind)
      PROVE  k = kind
  <2>1. Length[k] \in Nat \ {0}
    BY CountFits
  <2>2. BytesOf(k)[1] = <<k, 1>> /\ BytesOf(kind)[1] = <<kind, 1>>
    BY <1>1, <2>1 DEF BytesOf
  <2>3. QED
    BY <1>4, <2>2
<1>5. FrameOf(BytesOf(kind)) = kind
  BY <1>4 DEF FrameOf
<1>6. QED
  BY <1>3, <1>5

\* The i-th fragment of a frame: the header is zero in the last one only,
\* although it saturates, and it continues the bytes of those before it.
LEMMA FragmentAt ==
  ASSUME NEW kind \in Kinds, NEW i \in 1 .. FragmentCount(kind)
  PROVE  /\ Fragments(kind)[i] \in Fragment
         /\ Fragments(kind)[i].remaining = 0 <=> i = FragmentCount(kind)
         /\ SubSeq(BytesOf(kind), 1, (i - 1) * MaxFragment) \o Fragments(kind)[i].bytes =
              IF i < FragmentCount(kind) THEN SubSeq(BytesOf(kind), 1, i * MaxFragment) ELSE BytesOf(kind)
<1> DEFINE count == FragmentCount(kind)
           from == (i - 1) * MaxFragment
           to == IF i < count THEN i * MaxFragment ELSE Length[kind]
           fragment == Fragments(kind)[i]
           bytes == BytesOf(kind)
<1>1. /\ MaxFragment \in Nat \ {0} /\ MaxHeader \in Nat \ {0}
      /\ count \in Nat \ {0} /\ Length[kind] \in Nat \ {0}
      /\ (count - 1) * MaxFragment < Length[kind]
  BY LinkAssumption, CountFits
<1>2. bytes \in Seq(Byte) /\ Len(bytes) = Length[kind]
  BY BytesName
<1>3. /\ fragment.remaining = Header(count - i)
      /\ fragment.bytes = SubSeq(bytes, from + 1, to)
      /\ fragment = [remaining |-> Header(count - i), bytes |-> SubSeq(bytes, from + 1, to)]
  BY <1>1 DEF Fragments
<1> HIDE DEF count, bytes, fragment
<1>4. from \in 0 .. Length[kind] /\ to \in from .. Length[kind]
  <2>1. \A a, b \in Nat : a <= b => a * MaxFragment <= b * MaxFragment
    BY <1>1
  <2>2. i - 1 \in Nat /\ i \in Nat /\ count - 1 \in Nat /\ i - 1 <= count - 1
    BY <1>1 DEF count
  <2>3. from \in Nat /\ from <= (count - 1) * MaxFragment
    BY <1>1, <2>1, <2>2
  <2>4. CASE i < count
    <3>1. i * MaxFragment <= (count - 1) * MaxFragment /\ from <= i * MaxFragment /\ i * MaxFragment \in Nat
      BY <1>1, <2>1, <2>2, <2>4
    <3>2. QED
      BY <1>1, <2>3, <2>4, <3>1
  <2>5. CASE ~(i < count)
    BY <1>1, <2>3, <2>5
  <2>6. QED
    BY <2>4, <2>5
<1>5. SubSeq(bytes, 1, from) \o SubSeq(bytes, from + 1, to) = SubSeq(bytes, 1, to)
  <2> HIDE DEF from, to
  <2>1. 1 \in 1 .. Len(bytes) + 1 /\ from \in 1 - 1 .. Len(bytes) /\ to \in from .. Len(bytes)
    BY <1>1, <1>2, <1>4
  <2>2. QED
    BY <1>2, <2>1, ConcatAdjacentSubSeq
<1>6. SubSeq(bytes, 1, Length[kind]) = bytes
  BY <1>2, SubSeqFull
<1>7. Header(count - i) \in 0 .. MaxHeader /\ (Header(count - i) = 0 <=> i = count)
  BY <1>1 DEF Header, count
<1>8. fragment.bytes \in Seq(Byte)
  <2> HIDE DEF from, to
  <2>1. \A p \in from + 1 .. to : bytes[p] \in Byte
    BY <1>1, <1>2, <1>4
  <2>2. from + 1 \in Int /\ to \in Int
    BY <1>1, <1>4
  <2>3. SubSeq(bytes, from + 1, to) \in Seq(Byte)
    BY <2>1, <2>2, SubSeqProperties
  <2>4. QED
    BY <1>3, <2>3
<1>9. fragment \in Fragment
  BY <1>3, <1>7, <1>8 DEF Fragment, Byte
<1>10. CASE i < count
  BY <1>3, <1>5, <1>7, <1>9, <1>10 DEF count, bytes, fragment
<1>11. CASE ~(i < count)
  BY <1>3, <1>5, <1>6, <1>7, <1>9, <1>11 DEF count, bytes, fragment
<1>12. QED
  BY <1>10, <1>11

-----------------------------------------------------------------------------
(* One direction of a connection                                            *)

\* A new connection.
LEMMA TransitStarts ==
  ASSUME NEW Frames
  PROVE  Transit(Frames, <<>>, <<>>, <<>>, <<>>)
<1> DEFINE start == [j \in Nat |-> 0]
<1>1. start \in [Nat -> Int] /\ Layout(start, <<>>, <<>>, <<>>, 0, 0)
  BY DEF Layout
<1>2. QED
  BY <1>1 DEF Transit

\* The fragments of a frame, one after the other.
LEMMA FragmentsSequence ==
  ASSUME NEW kind \in Kinds
  PROVE  Fragments(kind) \in Seq(Fragment) /\ Len(Fragments(kind)) = FragmentCount(kind)
<1>1. FragmentCount(kind) \in Nat
  BY CountFits
<1>2. DOMAIN Fragments(kind) = 1 .. FragmentCount(kind)
  BY DEF Fragments
<1>3. Fragments(kind) = [i \in 1 .. FragmentCount(kind) |-> Fragments(kind)[i]]
  BY DEF Fragments
<1>4. Fragments(kind) \in [1 .. FragmentCount(kind) -> Fragment]
  BY <1>3, FragmentAt
<1>5. QED
  BY <1>1, <1>4

\* The places of a concatenation.
LEMMA ConcatAt ==
  ASSUME NEW S, NEW s \in Seq(S), NEW t \in Seq(S)
  PROVE  /\ s \o t \in Seq(S)
         /\ Len(s \o t) = Len(s) + Len(t)
         /\ \A p \in 1 .. Len(s) : (s \o t)[p] = s[p]
         /\ \A i \in 1 .. Len(t) : (s \o t)[Len(s) + i] = t[i]
OBVIOUS

\* A frame is placed behind those on their way.
LEMMA LayoutSends ==
  ASSUME NEW m \in Nat, NEW n \in Nat, m <= n,
         NEW fragments \in Seq(Fragment), NEW bytes, NEW sent \in Seq(Kinds), Len(sent) = n,
         NEW start \in [Nat -> Int], Layout(start, fragments, bytes, sent, m, n),
         NEW kind \in Kinds
  PROVE  \E later \in [Nat -> Int] :
           Layout(later, fragments \o Fragments(kind), bytes, Append(sent, kind), m, n + 1)
<1> DEFINE count == FragmentCount(kind)
           length == Len(fragments)
           new == Fragments(kind)
           after == fragments \o new
           longer == Append(sent, kind)
           later == [start EXCEPT ![n + 2] = start[n + 1] + count]
<1>1. length \in Nat /\ count \in Nat \ {0}
  BY CountFits
<1>2. new \in Seq(Fragment) /\ Len(new) = count
  BY FragmentsSequence
<1>3. longer[n + 1] = kind /\ \A i \in 1 .. n : longer[i] = sent[i]
  OBVIOUS
<1>4. \A i \in 1 .. n : sent[i] \in Kinds
  OBVIOUS
<1> HIDE DEF new, count
<1>5. /\ Len(after) = length + count
      /\ \A p \in 1 .. length : after[p] = fragments[p]
      /\ \A i \in 1 .. count : after[length + i] = new[i]
  <2> HIDE DEF after
  <2>1. /\ Len(fragments \o new) = Len(fragments) + Len(new)
        /\ \A p \in 1 .. Len(fragments) : (fragments \o new)[p] = fragments[p]
        /\ \A i \in 1 .. Len(new) : (fragments \o new)[Len(fragments) + i] = new[i]
    <3>1. new \in Seq(Fragment)
      BY <1>2
    <3>2. fragments \in Seq(Fragment)
      OBVIOUS
    <3>3. QED
      BY <3>1, <3>2, ConcatAt
  <2>2. QED
    BY <1>2, <2>1, Zenon DEF after, length
<1> HIDE DEF length
<1>6. start[n + 1] = length /\ start[m + 1] <= 0
  BY DEF Layout, length
<1>7. /\ later \in [Nat -> Int]
      /\ later[n + 2] = length + count
      /\ \A j \in 1 .. n + 1 : later[j] = start[j]
  BY <1>1, <1>6
<1> HIDE DEF after, longer, later
<1>8. ASSUME NEW j \in m + 1 .. n
      PROVE  Placed(later, after, longer, j)
  <2> DEFINE c == FragmentCount(sent[j])
  <2>1. start[j + 1] = start[j] + c /\ start[j + 1] <= length
    BY DEF Layout, Placed, length
  <2>2. \A i \in 1 .. c : start[j] + i > 0 => fragments[start[j] + i] = Fragments(sent[j])[i]
    BY DEF Layout, Placed
  <2>3. later[j] = start[j] /\ later[j + 1] = start[j + 1] /\ longer[j] = sent[j]
    BY <1>3, <1>7, SMTT(30)
  <2>4. c \in Nat
    <3>1. sent[j] \in Kinds
      BY <1>4
    <3>2. QED
      BY <3>1, CountFits
  <2> DEFINE before == start[j]
  <2>5. before \in Int /\ before = start[j]
    OBVIOUS
  <2> HIDE DEF c, before
  <2>6. ASSUME NEW i \in 1 .. c, before + i > 0
        PROVE  after[before + i] = Fragments(sent[j])[i]
    <3>1. i \in Nat /\ i <= c /\ before + i \in Nat \ {0}
      BY <2>4, <2>5, <2>6
    <3>2. before + c <= length
      BY <2>1, <2>5
    <3>3. before + i <= length
      BY <1>1, <2>4, <2>5, <3>1, <3>2, SMTT(30)
    <3>4. before + i \in 1 .. length
      BY <1>1, <3>1, <3>3
    <3>5. QED
      BY <1>5, <2>2, <2>5, <2>6, <3>4
  <2>7. before + c <= length + count
    BY <1>1, <2>1, <2>4, <2>5
  <2>8. QED
    BY <1>5, <2>1, <2>3, <2>5, <2>6, <2>7 DEF Placed, c
<1>9. Placed(later, after, longer, n + 1)
  <2>1. later[n + 1] = length /\ n + 1 + 1 = n + 2
    BY <1>6, <1>7
  <2>2. \A i \in 1 .. count : after[later[n + 1] + i] = new[i]
    BY <1>5, <2>1
  <2>3. later[n + 1 + 1] = later[n + 1] + count /\ later[n + 1 + 1] <= Len(after)
    BY <1>1, <1>5, <1>7, <2>1
  <2>4. QED
    BY <1>3, <2>2, <2>3 DEF Placed, count, new
<1>10. Received(later, bytes, longer, m + 1)
  <2>1. later[m + 1] = start[m + 1] /\ m + 1 + 1 = m + 2
    BY <1>7
  <2>2. CASE m < n
    <3>1. later[m + 2] = start[m + 2] /\ longer[m + 1] = sent[m + 1]
      <4>1. m + 2 \in 1 .. n + 1 /\ m + 1 \in 1 .. n
        BY <2>2
      <4>2. later[m + 2] = start[m + 2]
        BY <1>7, <4>1
      <4>3. longer[m + 1] = sent[m + 1]
        BY <1>3, <4>1
      <4>4. QED
        BY <4>2, <4>3
    <3>2. Received(start, bytes, sent, m + 1)
      BY <2>2 DEF Layout
    <3>3. QED
      BY <2>1, <3>1, <3>2 DEF Received
  <2>3. CASE m = n
    <3>1. start[m + 1] = 0 /\ bytes = <<>> /\ length = 0
      BY <1>6, <2>3 DEF Layout
    <3>2. later[m + 2] > 0
      BY <1>1, <1>7, <2>3, <3>1
    <3>3. (0 - later[m + 1]) * MaxFragment = 0
      BY <2>1, <3>1, LinkAssumption
    <3>4. SubSeq(BytesOf(longer[m + 1]), 1, 0) = <<>>
      BY SubSeqEmpty
    <3>5. QED
      BY <2>1, <3>1, <3>2, <3>3, <3>4 DEF Received
  <2>4. QED
    BY <2>2, <2>3
<1>11. Layout(later, after, bytes, longer, m, n + 1)
  <2>1. later[n + 1 + 1] = Len(after) /\ later[m + 1] <= 0
    BY <1>5, <1>6, <1>7
  <2>2. \A j \in m + 1 .. n + 1 : Placed(later, after, longer, j)
    BY <1>8, <1>9
  <2>3. QED
    BY <1>10, <2>1, <2>2 DEF Layout
<1>12. QED
  BY <1>7, <1>11 DEF after, longer, new

\* So a direction goes on when a frame is sent.
LEMMA TransitSends ==
  ASSUME NEW Frames, Frames \subseteq Kinds, NEW fragments, NEW bytes, NEW sent, NEW delivered,
         Transit(Frames, fragments, bytes, sent, delivered), NEW kind \in Frames
  PROVE  Transit(Frames, fragments \o Fragments(kind), bytes, Append(sent, kind), delivered)
<1>1. /\ fragments \in Seq(Fragment) /\ sent \in Seq(Frames) /\ sent \in Seq(Kinds) /\ kind \in Kinds
      /\ delivered \in Seq(Frames) /\ \A i \in 1 .. Len(delivered) : delivered[i] = sent[i]
  BY DEF Transit
<1>2. Len(delivered) \in Nat /\ Len(sent) \in Nat /\ Len(delivered) <= Len(sent)
  BY <1>1 DEF Transit
<1>3. PICK start \in [Nat -> Int] : Layout(start, fragments, bytes, sent, Len(delivered), Len(sent))
  BY DEF Transit
<1>4. \E later \in [Nat -> Int] :
        Layout(later, fragments \o Fragments(kind), bytes, Append(sent, kind), Len(delivered), Len(sent) + 1)
  BY <1>1, <1>2, <1>3, LayoutSends
<1>5. Fragments(kind) \in Seq(Fragment) /\ fragments \o Fragments(kind) \in Seq(Fragment)
  BY <1>1, FragmentsSequence
<1>6. /\ Append(sent, kind) \in Seq(Frames) /\ Len(Append(sent, kind)) = Len(sent) + 1
      /\ \A i \in 1 .. Len(sent) : Append(sent, kind)[i] = sent[i]
  BY <1>1
<1>7. /\ Len(delivered) <= Len(sent) + 1
      /\ \A i \in 1 .. Len(delivered) : delivered[i] = Append(sent, kind)[i]
  BY <1>1, <1>2, <1>6
<1>8. QED
  BY <1>1, <1>4, <1>5, <1>6, <1>7 DEF Transit

\* The first fragment on its way continues the frame that is being received,
\* and is the last one of that frame if and only if its header is zero.
LEMMA LayoutReceives ==
  ASSUME NEW m \in Nat, NEW n \in Nat, m <= n,
         NEW fragments \in Seq(Fragment), fragments # <<>>,
         NEW bytes, NEW sent \in Seq(Kinds), Len(sent) = n,
         NEW start \in [Nat -> Int], Layout(start, fragments, bytes, sent, m, n)
  PROVE  /\ m < n
         /\ Head(fragments).remaining # 0 =>
              \E later \in [Nat -> Int] :
                Layout(later, Tail(fragments), bytes \o Head(fragments).bytes, sent, m, n)
         /\ Head(fragments).remaining = 0 =>
              /\ FrameOf(bytes \o Head(fragments).bytes) = sent[m + 1]
              /\ \E later \in [Nat -> Int] : Layout(later, Tail(fragments), <<>>, sent, m + 1, n)
<1> DEFINE length == Len(fragments)
           rest == Tail(fragments)
           first == Head(fragments)
           joined == bytes \o first.bytes
           kind == sent[m + 1]
           k == 0 - start[m + 1]
           count == FragmentCount(kind)
           later == [j \in Nat |-> start[j] - 1]
<1>1. /\ length \in Nat \ {0} /\ first = fragments[1]
      /\ Len(rest) = length - 1
      /\ \A p \in 1 .. length - 1 : rest[p] = fragments[p + 1]
  OBVIOUS
<1>2. \A j \in 1 .. n : sent[j] \in Kinds
  OBVIOUS
<1>3. \A j \in Nat : start[j] \in Int /\ later[j] = start[j] - 1
  OBVIOUS
<1>4. later \in [Nat -> Int]
  BY <1>3
<1> HIDE DEF length, rest, first, later
<1>5. start[n + 1] = length /\ start[m + 1] <= 0
  BY DEF Layout, length
<1>6. m < n
  BY <1>1, <1>5 DEF Layout
<1>7. kind \in Kinds /\ count \in Nat \ {0}
  BY <1>2, <1>6, CountFits, SMTT(30)
<1>8. k \in Nat /\ start[m + 1] = 0 - k
  <2>1. m + 1 \in Nat /\ start[m + 1] \in Int
    OBVIOUS
  <2>2. QED
    BY <1>5, <2>1
<1> HIDE DEF kind, count, k
<1>9. Placed(start, fragments, sent, m + 1) /\ Received(start, bytes, sent, m + 1) /\ m + 1 + 1 = m + 2
  BY <1>6 DEF Layout
<1>10. start[m + 2] = count - k /\ start[m + 2] > 0 /\ k + 1 \in 1 .. count
  <2>1. start[m + 2] = start[m + 1] + count /\ start[m + 2] > 0
    BY <1>9 DEF Placed, Received, count, kind
  <2>2. QED
    BY <1>7, <1>8, <2>1
<1>11. first = Fragments(kind)[k + 1] /\ bytes = SubSeq(BytesOf(kind), 1, k * MaxFragment)
  <2>1. start[m + 1] + (k + 1) = 1
    BY <1>8
  <2>2. start[m + 1] + (k + 1) > 0 => fragments[start[m + 1] + (k + 1)] = Fragments(kind)[k + 1]
    BY <1>9, <1>10 DEF Placed, kind, count
  <2>3. QED
    BY <1>1, <1>9, <2>1, <2>2, SMTT(30) DEF Received, kind, k
<1>12. /\ first.remaining = 0 <=> k + 1 = count
       /\ joined = IF k + 1 < count THEN SubSeq(BytesOf(kind), 1, (k + 1) * MaxFragment) ELSE BytesOf(kind)
  <2> DEFINE at == k + 1
  <2>1. at - 1 = k /\ at \in 1 .. FragmentCount(kind)
    BY <1>8, <1>10 DEF count
  <2> HIDE DEF at
  <2>2. /\ Fragments(kind)[at].remaining = 0 <=> at = FragmentCount(kind)
        /\ SubSeq(BytesOf(kind), 1, (at - 1) * MaxFragment) \o Fragments(kind)[at].bytes =
             IF at < FragmentCount(kind) THEN SubSeq(BytesOf(kind), 1, at * MaxFragment) ELSE BytesOf(kind)
    BY <1>7, <2>1, FragmentAt
  <2>3. first = Fragments(kind)[at] /\ bytes = SubSeq(BytesOf(kind), 1, (at - 1) * MaxFragment)
    BY <1>11, <2>1 DEF at
  <2>4. QED
    BY <2>2, <2>3, Zenon DEF at, count
<1>13. ASSUME NEW j \in m + 1 .. n
       PROVE  Placed(later, rest, sent, j)
  <2> DEFINE c == FragmentCount(sent[j])
             before == start[j]
  <2>1. start[j + 1] = before + c /\ start[j + 1] <= length
    BY DEF Layout, Placed, length
  <2>2. \A i \in 1 .. c : before + i > 0 => fragments[before + i] = Fragments(sent[j])[i]
    BY DEF Layout, Placed
  <2>3. c \in Nat
    <3>1. sent[j] \in Kinds
      BY <1>2
    <3>2. QED
      BY <3>1, CountFits
  <2>4. before \in Int /\ later[j] = before - 1 /\ later[j + 1] = start[j + 1] - 1
    BY <1>3
  <2> HIDE DEF c, before
  <2>5. before + c <= length
    BY <2>1
  <2>6. ASSUME NEW i \in 1 .. c, before - 1 + i > 0
        PROVE  rest[before - 1 + i] = Fragments(sent[j])[i]
    <3>1. i \in Nat /\ i <= c
      BY <2>3
    <3>2. before - 1 + i \in 1 .. length - 1 /\ before - 1 + i + 1 = before + i /\ before + i > 0
      BY <1>1, <2>3, <2>4, <2>5, <2>6, <3>1
    <3>3. rest[before - 1 + i] = fragments[before + i]
      BY <1>1, <3>2
    <3>4. QED
      BY <2>2, <2>6, <3>2, <3>3
  <2>7. later[j + 1] = later[j] + c /\ later[j + 1] <= Len(rest)
    BY <1>1, <2>1, <2>3, <2>4, <2>5
  <2>8. QED
    BY <2>4, <2>6, <2>7 DEF Placed, c
<1>14. later[n + 1] = Len(rest) /\ later[m + 1] = 0 - (k + 1) /\ later[m + 2] = count - k - 1
  BY <1>1, <1>3, <1>5, <1>7, <1>8, <1>10
<1>15. CASE k + 1 < count
  <2>1. later[m + 2] > 0 /\ 0 - later[m + 1] = k + 1 /\ later[m + 1] <= 0
    BY <1>7, <1>8, <1>14, <1>15
  <2>2. Received(later, joined, sent, m + 1)
    BY <1>9, <1>12, <1>15, <2>1 DEF Received, kind
  <2>3. Layout(later, rest, joined, sent, m, n)
    BY <1>6, <1>13, <1>14, <2>1, <2>2 DEF Layout
  <2>4. first.remaining # 0
    BY <1>7, <1>8, <1>12, <1>15
  <2>5. QED
    BY <1>4, <1>6, <2>3, <2>4 DEF rest, first
<1>16. CASE k + 1 = count
  <2>1. later[m + 2] = 0
    BY <1>7, <1>8, <1>14, <1>16
  <2>2. first.remaining = 0 /\ FrameOf(joined) = kind
    BY <1>7, <1>8, <1>12, <1>16, BytesName
  <2>3. ASSUME m + 1 < n
        PROVE  Received(later, <<>>, sent, m + 2)
    <3>1. sent[m + 2] \in Kinds /\ m + 2 \in m + 1 .. n
      BY <1>2, <2>3
    <3>2. FragmentCount(sent[m + 2]) \in Nat \ {0}
      BY <3>1, CountFits
    <3>3. later[m + 2 + 1] = later[m + 2] + FragmentCount(sent[m + 2])
      BY <1>13, <3>1 DEF Placed
    <3>4. later[m + 2 + 1] > 0
      BY <2>1, <3>2, <3>3
    <3>5. (0 - later[m + 2]) * MaxFragment = 0
      BY <2>1, LinkAssumption
    <3>6. SubSeq(BytesOf(sent[m + 2]), 1, 0) = <<>>
      BY SubSeqEmpty
    <3>7. QED
      BY <3>4, <3>5, <3>6 DEF Received
  <2>4. \A j \in m + 1 + 1 .. n : Placed(later, rest, sent, j)
    BY <1>13
  <2>5. Layout(later, rest, <<>>, sent, m + 1, n)
    BY <1>9, <1>14, <2>1, <2>3, <2>4 DEF Layout
  <2>6. QED
    BY <1>4, <1>6, <2>2, <2>5 DEF rest, first, kind
<1>17. k + 1 < count \/ k + 1 = count
  BY <1>7, <1>10
<1>18. QED
  BY <1>15, <1>16, <1>17, Zenon

\* So a direction goes on when a fragment is received: frames are delivered
\* as they were sent.
LEMMA TransitReceives ==
  ASSUME NEW Frames, Frames \subseteq Kinds, NEW fragments, NEW bytes, NEW sent, NEW delivered,
         Transit(Frames, fragments, bytes, sent, delivered), fragments # <<>>
  PROVE  /\ Head(fragments).remaining # 0 =>
              Transit(Frames, Tail(fragments), bytes \o Head(fragments).bytes, sent, delivered)
         /\ Head(fragments).remaining = 0 =>
              LET frame == FrameOf(bytes \o Head(fragments).bytes)
              IN  /\ Len(delivered) < Len(sent)
                  /\ frame = sent[Len(delivered) + 1]
                  /\ frame \in Frames
                  /\ Transit(Frames, Tail(fragments), <<>>, sent, Append(delivered, frame))
<1> DEFINE m == Len(delivered)
           n == Len(sent)
           frame == FrameOf(bytes \o Head(fragments).bytes)
           joined == bytes \o Head(fragments).bytes
           rest == Tail(fragments)
<1>1. /\ fragments \in Seq(Fragment) /\ sent \in Seq(Frames) /\ sent \in Seq(Kinds)
      /\ delivered \in Seq(Frames) /\ \A i \in 1 .. m : delivered[i] = sent[i]
      /\ \A i \in 1 .. n : sent[i] \in Frames
  BY DEF Transit
<1>2. m \in Nat /\ n \in Nat /\ m <= n
  BY <1>1 DEF Transit
<1>3. PICK start \in [Nat -> Int] : Layout(start, fragments, bytes, sent, m, n)
  BY DEF Transit
<1>4. rest \in Seq(Fragment)
  BY <1>1
<1> HIDE DEF m, n
<1>5. /\ m < n
      /\ Head(fragments).remaining # 0 => \E later \in [Nat -> Int] : Layout(later, rest, joined, sent, m, n)
      /\ Head(fragments).remaining = 0 =>
           frame = sent[m + 1] /\ \E later \in [Nat -> Int] : Layout(later, rest, <<>>, sent, m + 1, n)
  BY <1>1, <1>2, <1>3, LayoutReceives DEF n
<1> HIDE DEF joined, rest, frame
<1>6. CASE Head(fragments).remaining # 0
  <2>1. Transit(Frames, rest, joined, sent, delivered)
    BY <1>1, <1>2, <1>4, <1>5, <1>6 DEF Transit, m, n
  <2>2. QED
    BY <1>6, <2>1 DEF rest, joined
<1>7. CASE Head(fragments).remaining = 0
  <2>0. m + 1 \in 1 .. n
    BY <1>2, <1>5
  <2>1. frame = sent[m + 1] /\ frame \in Frames
    BY <1>1, <1>5, <1>7, <2>0
  <2>2. /\ Append(delivered, frame) \in Seq(Frames)
        /\ Len(Append(delivered, frame)) = m + 1
        /\ Append(delivered, frame)[m + 1] = frame
        /\ \A i \in 1 .. m : Append(delivered, frame)[i] = delivered[i]
    BY <1>1, <2>1 DEF m
  <2>3. m + 1 <= n
    BY <1>2, <1>5
  <2>4. \A i \in 1 .. m + 1 : Append(delivered, frame)[i] = sent[i]
    BY <1>1, <1>2, <2>1, <2>2
  <2>5. Transit(Frames, rest, <<>>, sent, Append(delivered, frame))
    BY <1>1, <1>4, <1>5, <1>7, <2>2, <2>3, <2>4 DEF Transit, n
  <2>6. QED
    BY <1>5, <1>7, <2>1, <2>5 DEF rest, frame, m, n
<1>8. QED
  BY <1>6, <1>7

\* The bytes that wait for more are the beginning of the first frame that was
\* sent and has not been delivered.
BeginsNextFrame(bytes, sent, delivered) ==
  bytes # <<>> =>
    /\ Len(delivered) < Len(sent)
    /\ \E length \in 0 .. Length[sent[Len(delivered) + 1]] :
         bytes = SubSeq(BytesOf(sent[Len(delivered) + 1]), 1, length)

\* What has been received of a frame is a sequence of bytes, and its beginning.
LEMMA TransitBytes ==
  ASSUME NEW Frames, Frames \subseteq Kinds, NEW fragments, NEW bytes, NEW sent, NEW delivered,
         Transit(Frames, fragments, bytes, sent, delivered)
  PROVE  bytes \in Seq(Byte) /\ BeginsNextFrame(bytes, sent, delivered)
<1> DEFINE m == Len(delivered)
           n == Len(sent)
<1>1. sent \in Seq(Kinds) /\ delivered \in Seq(Frames)
  BY DEF Transit
<1>2. m \in Nat /\ n \in Nat /\ m <= n
  BY <1>1 DEF Transit
<1>3. PICK start \in [Nat -> Int] : Layout(start, fragments, bytes, sent, m, n)
  BY DEF Transit
<1>4. CASE m = n
  <2>1. bytes = <<>>
    BY <1>3, <1>4 DEF Layout
  <2>2. QED
    BY <2>1 DEF BeginsNextFrame
<1>5. CASE m < n
  <2> DEFINE kind == sent[m + 1]
             k == 0 - start[m + 1]
  <2>1. kind \in Kinds
    BY <1>1, <1>2, <1>5
  <2>2. start[m + 1] \in Int
    BY <1>2
  <2>3. k \in Nat
    BY <1>3, <2>2 DEF Layout
  <2>4. bytes = SubSeq(BytesOf(kind), 1, k * MaxFragment) /\ start[m + 1 + 1] > 0 /\ Placed(start, fragments, sent, m + 1)
    <3> HIDE DEF m, n, k, kind
    <3>1. m + 1 \in m + 1 .. n
      BY <1>2, <1>5
    <3>2. Received(start, bytes, sent, m + 1) /\ Placed(start, fragments, sent, m + 1)
      BY <1>3, <1>5, <3>1 DEF Layout
    <3>3. QED
      BY <3>2 DEF Received, kind, k
  <2>5. start[m + 1 + 1] = start[m + 1] + FragmentCount(kind)
    BY <2>4 DEF Placed
  <2> HIDE DEF kind
  <2>6. FragmentCount(kind) \in Nat \ {0} /\ (FragmentCount(kind) - 1) * MaxFragment < Length[kind] /\ Length[kind] \in Nat
    BY <2>1, CountFits
  <2>7. k <= FragmentCount(kind) - 1
    BY <2>2, <2>4, <2>5, <2>6
  <2> HIDE DEF k
  <2>8. k * MaxFragment \in 0 .. Length[kind]
    <3>1. MaxFragment \in Nat
      BY LinkAssumption
    <3>2. \A a, b \in Nat : a <= b => a * MaxFragment <= b * MaxFragment
      BY <3>1
    <3>3. k * MaxFragment <= (FragmentCount(kind) - 1) * MaxFragment
      BY <2>3, <2>6, <2>7, <3>2
    <3>4. k * MaxFragment \in Nat /\ (FragmentCount(kind) - 1) * MaxFragment \in Nat
      BY <2>3, <2>6, <3>1
    <3>5. QED
      BY <2>6, <3>3, <3>4
  <2> DEFINE to == k * MaxFragment
  <2> HIDE DEF to
  <2>9. \A p \in 1 .. to : BytesOf(kind)[p] \in Byte
    <3>1. BytesOf(kind) \in Seq(Byte) /\ Len(BytesOf(kind)) = Length[kind]
      BY <2>1, BytesName
    <3>2. QED
      BY <2>6, <2>8, <3>1 DEF to
  <2>10. SubSeq(BytesOf(kind), 1, to) \in Seq(Byte)
    <3>1. to \in Int
      BY <2>6, <2>8 DEF to
    <3>2. QED
      BY <2>9, <3>1, SubSeqProperties
  <2>11. bytes = SubSeq(BytesOf(kind), 1, to) /\ to \in 0 .. Length[kind]
    BY <2>4, <2>8 DEF to
  <2>12. BeginsNextFrame(bytes, sent, delivered)
    BY <1>5, <2>11 DEF BeginsNextFrame, kind
  <2>13. QED
    BY <2>10, <2>11, <2>12
<1>6. QED
  BY <1>2, <1>4, <1>5

-----------------------------------------------------------------------------
(* The link                                                                 *)

UpTransit == Transit(ClientKinds, toGateway, receiving, askedBy, served)
DownTransit == Transit(GatewayKinds, toClient, clientReceiving, saidBy, heard)

\* Nothing is said to a client that is not there, and what is said and served
\* in a connection is covered by an authorization in that connection.
LinkInv ==
  /\ link \in {"down", "advertising", "connected", "lost"}
  /\ connectionCount \in 0 .. MaxConnections
  /\ protocol \in BOOLEAN
  /\ calls \in Seq(0 .. MaxConnections)
  /\ UpTransit
  /\ DownTransit
  /\ link # "connected" => saidBy = <<>>
  /\ AuthorizedInThisConnection

\* What a step may do to a direction.
UpStep == [Upward!LinkNext]_(Upward!linkVars)
DownStep == [Downward!LinkNext]_(Downward!linkVars)

\* Sending to the client: nothing is said if nobody is connected.
LEMMA SendFrameEffect ==
  ASSUME DownTransit, link # "connected" => saidBy = <<>>, NEW kind \in GatewayKinds, SendFrame(kind)
  PROVE  /\ DownTransit' /\ DownStep
         /\ link # "connected" => saidBy' = <<>>
         /\ "message" \in ToSet(saidBy') => kind = "message" \/ "message" \in ToSet(saidBy)
<1>1. GatewayKinds \subseteq Kinds
  BY DEF Kinds
<1>2. CASE link = "connected"
  <2>1. /\ toClient' = toClient \o Fragments(kind)
        /\ saidBy' = Append(saidBy, kind)
        /\ UNCHANGED <<clientReceiving, heard>>
    BY <1>2 DEF SendFrame
  <2>2. DownTransit'
    BY <1>1, <2>1, TransitSends DEF DownTransit
  <2>3. DownStep
    BY <2>1 DEF DownStep, Downward!LinkNext, Downward!Send
  <2>4. ToSet(saidBy') = ToSet(saidBy) \cup {kind}
    BY <2>1, ToSetAppend DEF DownTransit, Transit
  <2>5. QED
    BY <1>2, <2>2, <2>3, <2>4
<1>3. CASE link # "connected"
  <2>1. UNCHANGED <<toClient, clientReceiving, saidBy, heard>>
    BY <1>3 DEF SendFrame, down
  <2>2. QED
    BY <1>3, <2>1 DEF DownTransit, DownStep, Downward!linkVars
<1>4. QED
  BY <1>2, <1>3

\* The next fragment of the client: part of a frame, or the end of the frame
\* that was sent next.
LEMMA GatewayReceives ==
  ASSUME UpTransit, OnCharacteristicChanged
  PROVE  \/ /\ UpTransit' /\ UNCHANGED <<askedBy, served>>
            /\ UNCHANGED <<link, connectionCount, protocol, calls, down>>
         \/ \E kind \in ClientKinds :
              /\ UpTransit' /\ UpStep
              /\ served' = Append(served, kind)
              /\ IF protocol THEN HandleFrame(kind) ELSE Authorize(kind) /\ UNCHANGED calls
              /\ UNCHANGED <<link, connectionCount>>
<1> DEFINE fragment == Head(toGateway)
           joined == receiving \o fragment.bytes
           frame == FrameOf(joined)
<1>1. /\ toGateway # <<>> /\ toGateway' = Tail(toGateway)
      /\ UNCHANGED <<link, connectionCount, askedBy>>
      /\ IF fragment.remaining # 0
         THEN receiving' = joined /\ UNCHANGED <<protocol, calls, served, down>>
         ELSE receiving' = <<>> /\ Dispatch(frame)
  BY DEF OnCharacteristicChanged
<1>2. ClientKinds \subseteq Kinds
  BY DEF Kinds
<1>3. /\ fragment.remaining # 0 => Transit(ClientKinds, Tail(toGateway), joined, askedBy, served)
      /\ fragment.remaining = 0 =>
           /\ Len(served) < Len(askedBy)
           /\ frame = askedBy[Len(served) + 1]
           /\ frame \in ClientKinds
           /\ Transit(ClientKinds, Tail(toGateway), <<>>, askedBy, Append(served, frame))
  BY <1>1, <1>2, TransitReceives DEF UpTransit
<1> HIDE DEF fragment, joined, frame
<1>4. CASE fragment.remaining # 0
  BY <1>1, <1>3, <1>4 DEF UpTransit
<1>5. CASE fragment.remaining = 0
  <2>1. /\ receiving' = <<>> /\ served' = Append(served, frame)
        /\ IF protocol THEN HandleFrame(frame) ELSE Authorize(frame) /\ UNCHANGED calls
    BY <1>1, <1>5, Zenon DEF Dispatch
  <2>2. UpTransit'
    BY <1>1, <1>3, <1>5, <2>1 DEF UpTransit
  <2>3. UpStep
    BY <1>1, <1>3, <1>5, <2>1 DEF UpStep, Upward!LinkNext, Upward!Deliver
  <2>4. QED
    BY <1>1, <1>3, <1>5, <2>1, <2>2, <2>3
<1>6. QED
  BY <1>4, <1>5

\* Steps that leave a direction alone.
LEMMA UpAlone ==
  ASSUME UpTransit, UNCHANGED up
  PROVE  UpTransit' /\ UpStep /\ served' = served
BY DEF up, UpTransit, UpStep, Upward!linkVars

\* The same of the other one.
LEMMA DownAlone ==
  ASSUME DownTransit, UNCHANGED down
  PROVE  DownTransit' /\ DownStep /\ saidBy' = saidBy
BY DEF down, DownTransit, DownStep, Downward!linkVars

\* Every step keeps the invariant and is one that FrameLink allows for either
\* direction.
LEMMA LinkStep ==
  ASSUME LinkInv, [BluetoothNext]_bluetoothVars
  PROVE  LinkInv' /\ UpStep /\ DownStep
<1>0. /\ link \in {"down", "advertising", "connected", "lost"}
      /\ connectionCount \in 0 .. MaxConnections
      /\ protocol \in BOOLEAN
      /\ calls \in Seq(0 .. MaxConnections)
      /\ UpTransit /\ DownTransit
      /\ link # "connected" => saidBy = <<>>
      /\ protocol => "authorize" \in ToSet(served)
      /\ "message" \in ToSet(saidBy) => protocol
  BY DEF LinkInv, AuthorizedInThisConnection
<1>e. ToSet(<<>>) = {}
  BY DEF ToSet
<1>s. served \in Seq(ClientKinds)
  BY <1>0 DEF UpTransit, Transit
<1>1. CASE StartAdvertise
  <2>1. link = "down" /\ link' = "advertising" /\ UNCHANGED <<connectionCount, protocol, calls, up, down>>
    BY <1>1 DEF StartAdvertise
  <2>2. QED
    BY <1>0, <2>1, UpAlone, DownAlone DEF LinkInv, AuthorizedInThisConnection
<1>2. CASE Connect
  <2>1. /\ connectionCount < MaxConnections /\ connectionCount' = connectionCount + 1 /\ link' = "connected"
        /\ UNCHANGED <<protocol, calls, up, down>>
    BY <1>2 DEF Connect
  <2>2. connectionCount' \in 0 .. MaxConnections
    BY <1>0, <2>1, LinkAssumption
  <2>3. QED
    BY <1>0, <2>1, <2>2, UpAlone, DownAlone DEF LinkInv, AuthorizedInThisConnection
<1>3. ASSUME NEW kind \in ClientKinds, ClientSends(kind)
      PROVE  LinkInv' /\ UpStep /\ DownStep
  <2>1. /\ toGateway' = toGateway \o Fragments(kind)
        /\ askedBy' = Append(askedBy, kind)
        /\ UNCHANGED <<link, connectionCount, protocol, calls, receiving, served, down>>
    BY <1>3 DEF ClientSends
  <2>2. UpTransit'
    <3>1. ClientKinds \subseteq Kinds
      BY DEF Kinds
    <3>2. QED
      BY <1>0, <2>1, <3>1, TransitSends DEF UpTransit
  <2>3. UpStep
    BY <2>1 DEF UpStep, Upward!LinkNext, Upward!Send
  <2>4. QED
    BY <1>0, <2>1, <2>2, <2>3, DownAlone DEF LinkInv, AuthorizedInThisConnection
<1>4. CASE OnCharacteristicChanged
  <2>1. CASE /\ UpTransit' /\ UNCHANGED <<askedBy, served>>
             /\ UNCHANGED <<link, connectionCount, protocol, calls, down>>
    <3>1. UpStep
      BY <2>1 DEF UpStep, Upward!linkVars
    <3>2. QED
      BY <1>0, <2>1, <3>1, DownAlone DEF LinkInv, AuthorizedInThisConnection
  <2>2. ASSUME NEW kind \in ClientKinds, UpTransit', UpStep, served' = Append(served, kind),
               IF protocol THEN HandleFrame(kind) ELSE Authorize(kind) /\ UNCHANGED calls,
               UNCHANGED <<link, connectionCount>>
        PROVE  LinkInv' /\ UpStep /\ DownStep
    <3>1. ToSet(served') = ToSet(served) \cup {kind}
      BY <1>s, <2>2, ToSetAppend
    <3>2. CASE protocol
      <4>1. protocol' = protocol
        BY <2>2, <3>2 DEF HandleFrame
      <4>2. CASE kind = "later" \/ kind = "call"
        <5>1. UNCHANGED down
          BY <2>2, <3>2, <4>2 DEF HandleFrame
        <5>2. calls' = calls \/ calls' = <<connectionCount>> \o calls
          BY <2>2, <3>2, <4>2 DEF HandleFrame
        <5>3. calls' \in Seq(0 .. MaxConnections)
          <6> DEFINE S == 0 .. MaxConnections
          <6>1. connectionCount \in S /\ calls \in Seq(S)
            BY <1>0
          <6> HIDE DEF S
          <6>2. <<connectionCount>> \o calls \in Seq(S)
            BY <6>1, ToSetPush
          <6>3. calls' \in Seq(S)
            BY <5>2, <6>1, <6>2
          <6>4. QED
            BY <6>3 DEF S
        <5>4. QED
          BY <1>0, <2>2, <3>1, <4>1, <5>1, <5>3, DownAlone DEF LinkInv, AuthorizedInThisConnection
      <4>3. CASE kind # "later" /\ kind # "call"
        <5>1. PICK said \in {"answer", "error"} : SendFrame(said)
          BY <2>2, <3>2, <4>3 DEF HandleFrame
        <5>2. UNCHANGED calls
          BY <2>2, <3>2, <4>3 DEF HandleFrame
        <5>3. said \in GatewayKinds /\ said # "message"
          BY DEF GatewayKinds
        <5>4. /\ DownTransit' /\ DownStep
              /\ link # "connected" => saidBy' = <<>>
              /\ "message" \in ToSet(saidBy') => "message" \in ToSet(saidBy)
          BY <1>0, <5>1, <5>3, SendFrameEffect
        <5>5. QED
          BY <1>0, <2>2, <3>1, <4>1, <5>2, <5>4 DEF LinkInv, AuthorizedInThisConnection
      <4>4. QED
        BY <4>2, <4>3
    <3>3. CASE ~protocol
      <4>1. PICK said \in {"authorized", "error"} : SendFrame(said)
        BY <2>2, <3>3 DEF Authorize
      <4>2. protocol' = (kind = "authorize") /\ UNCHANGED calls
        BY <2>2, <3>3 DEF Authorize
      <4>3. said \in GatewayKinds /\ said # "message"
        BY DEF GatewayKinds
      <4>4. /\ DownTransit' /\ DownStep
            /\ link # "connected" => saidBy' = <<>>
            /\ "message" \in ToSet(saidBy') => "message" \in ToSet(saidBy)
        BY <1>0, <4>1, <4>3, SendFrameEffect
      <4>5. protocol' \in BOOLEAN /\ (protocol' => "authorize" \in ToSet(served'))
        BY <3>1, <4>2
      <4>6. QED
        BY <1>0, <2>2, <3>3, <4>2, <4>4, <4>5 DEF LinkInv, AuthorizedInThisConnection
    <3>4. QED
      BY <3>2, <3>3
  <2>3. QED
    BY <1>0, <1>4, <2>1, <2>2, GatewayReceives
<1>5. CASE CallReturns
  <2>1. SendFrame("answer") /\ calls # <<>> /\ calls' = Tail(calls) /\ UNCHANGED <<link, connectionCount, protocol, up>>
    BY <1>5 DEF CallReturns
  <2>2. "answer" \in GatewayKinds /\ "answer" # "message"
    BY DEF GatewayKinds
  <2>3. /\ DownTransit' /\ DownStep
        /\ link # "connected" => saidBy' = <<>>
        /\ "message" \in ToSet(saidBy') => "message" \in ToSet(saidBy)
    BY <1>0, <2>1, <2>2, SendFrameEffect
  <2>4. calls' \in Seq(0 .. MaxConnections)
    BY <1>0, <2>1
  <2>5. QED
    BY <1>0, <2>1, <2>3, <2>4, UpAlone DEF LinkInv, AuthorizedInThisConnection
<1>6. CASE OnDeviceMessageReceived
  <2>1. protocol /\ SendFrame("message") /\ UNCHANGED <<link, connectionCount, protocol, calls, up>>
    BY <1>6 DEF OnDeviceMessageReceived
  <2>2. "message" \in GatewayKinds
    BY DEF GatewayKinds
  <2>3. /\ DownTransit' /\ DownStep
        /\ link # "connected" => saidBy' = <<>>
    BY <1>0, <2>1, <2>2, SendFrameEffect
  <2>4. QED
    BY <1>0, <2>1, <2>3, UpAlone DEF LinkInv, AuthorizedInThisConnection
<1>7. CASE ClientReceives
  <2> DEFINE fragment == Head(toClient)
             joined == clientReceiving \o fragment.bytes
             frame == FrameOf(joined)
  <2>1. /\ toClient # <<>> /\ toClient' = Tail(toClient)
        /\ IF fragment.remaining # 0
           THEN clientReceiving' = joined /\ UNCHANGED heard
           ELSE clientReceiving' = <<>> /\ heard' = Append(heard, frame)
        /\ UNCHANGED <<link, connectionCount, protocol, calls, up, saidBy>>
    BY <1>7 DEF ClientReceives
  <2>2. GatewayKinds \subseteq Kinds
    BY DEF Kinds
  <2>3. /\ fragment.remaining # 0 => Transit(GatewayKinds, Tail(toClient), joined, saidBy, heard)
        /\ fragment.remaining = 0 =>
             /\ Len(heard) < Len(saidBy)
             /\ frame = saidBy[Len(heard) + 1]
             /\ Transit(GatewayKinds, Tail(toClient), <<>>, saidBy, Append(heard, frame))
    BY <1>0, <2>1, <2>2, TransitReceives DEF DownTransit
  <2> HIDE DEF fragment, joined, frame
  <2>4. DownTransit' /\ DownStep
    <3>1. CASE fragment.remaining # 0
      BY <2>1, <2>3, <3>1 DEF DownTransit, DownStep, Downward!linkVars
    <3>2. CASE fragment.remaining = 0
      BY <2>1, <2>3, <3>2 DEF DownTransit, DownStep, Downward!LinkNext, Downward!Deliver
    <3>3. QED
      BY <3>1, <3>2
  <2>5. QED
    BY <1>0, <2>1, <2>4, UpAlone DEF LinkInv, AuthorizedInThisConnection
<1>8. CASE Lose
  <2>1. /\ link' = "lost" /\ UNCHANGED <<connectionCount, protocol, calls, up>>
        /\ toClient' = <<>> /\ clientReceiving' = <<>> /\ saidBy' = <<>> /\ heard' = <<>>
    BY <1>8 DEF Lose
  <2>2. DownTransit' /\ DownStep
    BY <2>1, TransitStarts DEF DownTransit, DownStep, Downward!LinkNext, Downward!Reset
  <2>3. QED
    BY <1>0, <1>e, <2>1, <2>2, UpAlone DEF LinkInv, AuthorizedInThisConnection
<1>9. CASE OnDisconnected
  <2>1. /\ link = "lost" /\ link' = "down" /\ protocol' = FALSE /\ UNCHANGED <<connectionCount, calls, down>>
        /\ receiving' = <<>> /\ toGateway' = <<>> /\ askedBy' = <<>> /\ served' = <<>>
    BY <1>9 DEF OnDisconnected
  <2>2. UpTransit' /\ UpStep
    BY <2>1, TransitStarts DEF UpTransit, UpStep, Upward!LinkNext, Upward!Reset
  <2>3. QED
    BY <1>0, <1>e, <2>1, <2>2, DownAlone DEF LinkInv, AuthorizedInThisConnection
<1>10. CASE UNCHANGED bluetoothVars
  <2>1. UNCHANGED <<link, connectionCount, protocol, calls, up, down>>
    BY <1>10 DEF bluetoothVars
  <2>2. QED
    BY <1>0, <2>1, UpAlone, DownAlone DEF LinkInv, AuthorizedInThisConnection
<1>11. QED
  BY <1>1, <1>2, <1>3, <1>4, <1>5, <1>6, <1>7, <1>8, <1>9, <1>10 DEF BluetoothNext

\* The link's invariant is one, and both directions behave as FrameLink says.
THEOREM LinkInductive == BluetoothInit /\ [][BluetoothNext]_bluetoothVars => []LinkInv /\ [][UpStep /\ DownStep]_bluetoothVars
<1>1. BluetoothInit => LinkInv
  <2> SUFFICES ASSUME BluetoothInit
               PROVE  LinkInv
    OBVIOUS
  <2>1. UpTransit /\ DownTransit
    BY TransitStarts DEF BluetoothInit, UpTransit, DownTransit
  <2>2. ToSet(<<>>) = {}
    BY DEF ToSet
  <2>3. connectionCount \in 0 .. MaxConnections /\ calls \in Seq(0 .. MaxConnections)
    BY LinkAssumption DEF BluetoothInit
  <2>4. QED
    BY <2>1, <2>2, <2>3 DEF BluetoothInit, LinkInv, AuthorizedInThisConnection
<1>2. LinkInv /\ [BluetoothNext]_bluetoothVars => LinkInv'
  BY LinkStep
<1>3. LinkInv /\ [BluetoothNext]_bluetoothVars => [UpStep /\ DownStep]_bluetoothVars
  BY LinkStep
<1>4. QED
  BY <1>1, <1>2, <1>3, PTL

\* Type correctness of the link, and more of the two buffers: what one of them
\* holds is in every state the beginning of the frame that is due in its
\* direction, never a mixture of two frames.
THEOREM LinkTypeCorrect ==
  BluetoothInit /\ [][BluetoothNext]_bluetoothVars =>
    [](/\ BluetoothTypeOK
       /\ BeginsNextFrame(receiving, askedBy, served)
       /\ BeginsNextFrame(clientReceiving, saidBy, heard))
<1>1. LinkInv => /\ BluetoothTypeOK
                 /\ BeginsNextFrame(receiving, askedBy, served)
                 /\ BeginsNextFrame(clientReceiving, saidBy, heard)
  <2> SUFFICES ASSUME LinkInv
               PROVE  /\ BluetoothTypeOK
                      /\ BeginsNextFrame(receiving, askedBy, served)
                      /\ BeginsNextFrame(clientReceiving, saidBy, heard)
    OBVIOUS
  <2>1. /\ toGateway \in Seq(Fragment) /\ toClient \in Seq(Fragment)
        /\ askedBy \in Seq(ClientKinds) /\ served \in Seq(ClientKinds)
        /\ saidBy \in Seq(GatewayKinds) /\ heard \in Seq(GatewayKinds)
    BY DEF LinkInv, UpTransit, DownTransit, Transit
  <2>2. receiving \in Seq(Byte) /\ BeginsNextFrame(receiving, askedBy, served)
    BY TransitBytes DEF LinkInv, UpTransit, Kinds
  <2>3. clientReceiving \in Seq(Byte) /\ BeginsNextFrame(clientReceiving, saidBy, heard)
    BY TransitBytes DEF LinkInv, DownTransit, Kinds
  <2>4. QED
    BY <2>1, <2>2, <2>3 DEF LinkInv, BluetoothTypeOK, Byte
<1>2. QED
  BY <1>1, LinkInductive, PTL

\* No connection inherits the authorization of the client before it.
THEOREM AuthorizationNotInherited == BluetoothSpec => []AuthorizedInThisConnection
<1>1. LinkInv => AuthorizedInThisConnection
  BY DEF LinkInv
<1>2. QED
  BY <1>1, LinkInductive, PTL DEF BluetoothSpec

\* Frames of any length arrive whole, once and in the order in which they were
\* sent, in both directions, whatever the sizes of fragments and headers.
THEOREM FramesArriveInOrder == BluetoothSpec => Upward!LinkSafety /\ Downward!LinkSafety
<1>1. BluetoothInit => Upward!LinkInit /\ Downward!LinkInit
  BY DEF BluetoothInit, Upward!LinkInit, Downward!LinkInit
<1>2. [UpStep /\ DownStep]_bluetoothVars => [Upward!LinkNext]_(Upward!linkVars) /\ [Downward!LinkNext]_(Downward!linkVars)
  <2>1. CASE UNCHANGED bluetoothVars
    BY <2>1 DEF bluetoothVars, up, down, Upward!linkVars, Downward!linkVars
  <2>2. CASE UpStep /\ DownStep
    BY <2>2 DEF UpStep, DownStep
  <2>3. QED
    BY <2>1, <2>2
<1>3. QED
  BY <1>1, <1>2, LinkInductive, PTL DEF BluetoothSpec, Upward!LinkSafety, Downward!LinkSafety

-----------------------------------------------------------------------------
(* The WiFi configuration                                                   *)

Commands == {"status", "cliconf", "apconf"}
Settings == Networks \cup {NoNetwork}

\* What a handler of a command may be waiting for.
Stages(command) ==
  CASE command = "status"  -> {<<"iwgetid", "grep">>, <<"grep">>}
    [] command = "cliconf" -> {<<"wpa_passphrase", "wpa_cli">>, <<"wpa_cli">>}
    [] command = "apconf"  -> {<<"stop", "disable">>, <<"disable">>,
                               <<"stop", "enable", "start">>, <<"enable", "start">>, <<"start">>}

Handler ==
  {h \in [command : Commands, network : Settings, waits : UNION {Stages(c) : c \in Commands},
          process : {"runs", "succeeds", "fails", "unstarted"}] : h.waits \in Stages(h.command)}

HandlersTyped ==
  /\ handlers \in Seq(Handler)
  /\ supplicant \in SUBSET Settings
  /\ hostapd \in [enabled : BOOLEAN, running : BOOLEAN]
  /\ asked \in [{"cliconf", "apconf"} -> Settings \cup {Unknown}]

\* A handler of a kind of which none ran inside another is alone.
Alone ==
  \A i, j \in DOMAIN handlers :
    handlers[i].command = handlers[j].command /\ handlers[i].command \notin interrupted => i = j

\* What a handler of cliconf that is alone has written: nothing before the
\* pass key is there.
ClientReached(h) == supplicant = IF h.waits = <<"wpa_cli">> THEN {h.network} ELSE {}

ClientConfigured ==
  "cliconf" \notin interrupted =>
    /\ \A i \in Of("cliconf") : ClientReached(handlers[i])
    /\ Of("cliconf") = {} /\ asked.cliconf # Unknown => supplicant = {asked.cliconf}

\* What a handler of apconf that is alone has done to the service.
ServiceReached(h) ==
  /\ h.waits \in {<<"stop", "disable">>, <<"disable">>} <=> h.network = NoNetwork
  /\ h.waits \in {<<"disable">>, <<"enable", "start">>, <<"start">>} => ~hostapd.running
  /\ h.waits = <<"start">> => hostapd.enabled

Service(setting) == [enabled |-> setting # NoNetwork, running |-> setting # NoNetwork]

ServiceConfigured ==
  "apconf" \notin interrupted =>
    /\ \A i \in Of("apconf") : ServiceReached(handlers[i])
    /\ Of("apconf") = {} /\ asked.apconf # Unknown => hostapd = Service(asked.apconf)

WifiInv == HandlersTyped /\ Alone /\ ClientConfigured /\ ServiceConfigured

-----------------------------------------------------------------------------

\* Heads and tails of what handlers wait for.
LEMMA TupleParts ==
  ASSUME NEW a, NEW b, NEW c
  PROVE  /\ Len(<<a>>) = 1 /\ Head(<<a>>) = a
         /\ Len(<<a, b>>) = 2 /\ Head(<<a, b>>) = a /\ Tail(<<a, b>>) = <<b>>
         /\ Len(<<a, b, c>>) = 3 /\ Head(<<a, b, c>>) = a /\ Tail(<<a, b, c>>) = <<b, c>>
OBVIOUS

\* A handler is on the stack with what it has to wait for.
LEMMA HandlerFacts ==
  ASSUME NEW h \in Handler
  PROVE  /\ h.command \in Commands /\ h.network \in Settings
         /\ h.process \in {"runs", "succeeds", "fails", "unstarted"}
         /\ h.waits \in Stages(h.command)
BY DEF Handler

\* The kinds of the handlers on the stack are those they were before.
LEMMA SameHandlers ==
  ASSUME HandlersTyped, handlers' \in Seq(Handler), Len(handlers') = Len(handlers),
         \A i \in 1 .. Len(handlers) : handlers'[i].command = handlers[i].command
  PROVE  /\ DOMAIN handlers' = DOMAIN handlers
         /\ \A c : Of(c)' = Of(c)
         /\ Alone /\ interrupted' = interrupted => Alone'
<1>1. DOMAIN handlers = 1 .. Len(handlers) /\ DOMAIN handlers' = 1 .. Len(handlers)
  BY DEF HandlersTyped
<1>2. QED
  BY <1>1 DEF Of, Alone

\* A process ends or does not start: nothing else changes.
LEMMA ProcessEnds ==
  ASSUME WifiInv, NEW i \in DOMAIN handlers, NEW process \in {"succeeds", "fails", "unstarted"},
         handlers' = [handlers EXCEPT ![i].process = process],
         UNCHANGED <<supplicant, hostapd, asked, interrupted>>
  PROVE  WifiInv'
<1>1. handlers \in Seq(Handler) /\ i \in 1 .. Len(handlers) /\ handlers[i] \in Handler
  BY DEF WifiInv, HandlersTyped
<1> DEFINE ended == [handlers[i] EXCEPT !.process = process]
<1>2. /\ ended \in Handler
      /\ ended.command = handlers[i].command /\ ended.network = handlers[i].network /\ ended.waits = handlers[i].waits
  BY <1>1 DEF Handler
<1>3. handlers' = [handlers EXCEPT ![i] = ended]
  OBVIOUS
<1> HIDE DEF ended
<1>4. /\ handlers' \in Seq(Handler) /\ Len(handlers') = Len(handlers)
      /\ \A j \in 1 .. Len(handlers) : handlers'[j] = IF j = i THEN ended ELSE handlers[j]
  BY <1>1, <1>2, <1>3
<1>5. \A j \in 1 .. Len(handlers) : /\ handlers'[j].command = handlers[j].command
                                   /\ handlers'[j].network = handlers[j].network
                                   /\ handlers'[j].waits = handlers[j].waits
  BY <1>2, <1>4
<1>6. /\ \A c : Of(c)' = Of(c)
      /\ Alone'
  BY <1>4, <1>5, SameHandlers DEF WifiInv
<1>7. HandlersTyped'
  BY <1>4 DEF WifiInv, HandlersTyped
<1>8. \A c : Of(c) \subseteq 1 .. Len(handlers)
  BY <1>1 DEF Of
<1>9. ClientConfigured'
  BY <1>5, <1>6, <1>8 DEF WifiInv, ClientConfigured, ClientReached
<1>10. ServiceConfigured'
  BY <1>5, <1>6, <1>8 DEF WifiInv, ServiceConfigured, ServiceReached, Service
<1>11. QED
  BY <1>6, <1>7, <1>9, <1>10 DEF WifiInv

\* A command begins.
LEMMA BeginStep ==
  ASSUME WifiInv, NEW command \in Commands, NEW network \in Settings, Begin(command, network)
  PROVE  WifiInv'
<1> DEFINE new == [command |-> command, network |-> network,
                   waits |-> Processes(command, network), process |-> "runs"]
           n == Len(handlers)
<1>1. /\ handlers' = Append(handlers, new)
      /\ supplicant' = IF command # "cliconf" THEN supplicant ELSE {network} \ Secured
      /\ interrupted' = interrupted \cup {c \in {command} : Of(c) # {}}
      /\ UNCHANGED <<hostapd, asked>>
  BY DEF Begin
<1>2. Processes(command, network) \in Stages(command)
  BY DEF Processes, Stages, Commands
<1>3. new \in Handler
  BY <1>2 DEF Handler
<1>4. new.command = command /\ new.network = network /\ new.waits = Processes(command, network)
  OBVIOUS
<1>5. handlers \in Seq(Handler) /\ n \in Nat /\ DOMAIN handlers = 1 .. n
  BY DEF WifiInv, HandlersTyped
<1> HIDE DEF new, n
<1>6. /\ handlers' \in Seq(Handler) /\ DOMAIN handlers' = 1 .. n + 1
      /\ handlers'[n + 1] = new
      /\ \A i \in 1 .. n : handlers'[i] = handlers[i]
  BY <1>1, <1>3, <1>5 DEF n
<1>7. HandlersTyped'
  BY <1>1, <1>6 DEF WifiInv, HandlersTyped, Settings
<1>8. /\ \A c : c # command => Of(c)' = Of(c)
      /\ Of(command)' = Of(command) \cup {n + 1}
      /\ \A c : Of(c) \subseteq 1 .. n
  BY <1>4, <1>5, <1>6 DEF Of
<1>9. command \notin interrupted' => Of(command) = {} /\ interrupted' = interrupted
  BY <1>1
<1>10. \A c : c \notin interrupted' => c \notin interrupted
  BY <1>1
<1>11. Alone'
  <2> SUFFICES ASSUME NEW i \in 1 .. n + 1, NEW j \in 1 .. n + 1,
                      handlers'[i].command = handlers'[j].command, handlers'[i].command \notin interrupted'
               PROVE  i = j
    BY <1>6 DEF Alone
  <2>1. CASE i \in 1 .. n /\ j \in 1 .. n
    BY <1>5, <1>6, <1>10, <2>1 DEF WifiInv, Alone
  <2>2. CASE i = n + 1 /\ j \in 1 .. n
    BY <1>4, <1>5, <1>6, <1>9, <2>2 DEF Of
  <2>3. CASE j = n + 1 /\ i \in 1 .. n
    BY <1>4, <1>5, <1>6, <1>9, <2>3 DEF Of
  <2>4. QED
    BY <1>5, <2>1, <2>2, <2>3
<1>12. ClientConfigured'
  <2> SUFFICES ASSUME "cliconf" \notin interrupted'
               PROVE  /\ \A i \in Of("cliconf")' :
                           supplicant' = IF handlers'[i].waits = <<"wpa_cli">> THEN {handlers'[i].network} ELSE {}
                      /\ Of("cliconf")' = {} /\ asked'.cliconf # Unknown => supplicant' = {asked'.cliconf}
    BY DEF ClientConfigured, ClientReached
  <2>1. CASE command = "cliconf"
    <3>1. Of("cliconf")' = {n + 1}
      BY <1>8, <1>9, <2>1
    <3>2. supplicant' = IF Processes(command, network) = <<"wpa_cli">> THEN {network} ELSE {}
      BY <1>1, <2>1, WifiAssumption DEF Processes, Settings
    <3>3. QED
      BY <1>4, <1>6, <3>1, <3>2
  <2>2. CASE command # "cliconf"
    <3>1. /\ supplicant' = supplicant /\ asked' = asked
          /\ Of("cliconf")' = Of("cliconf") /\ Of("cliconf") \subseteq 1 .. n
      BY <1>1, <1>8, <2>2
    <3>2. /\ \A i \in Of("cliconf") : ClientReached(handlers[i])
          /\ Of("cliconf") = {} /\ asked.cliconf # Unknown => supplicant = {asked.cliconf}
      BY <1>10 DEF WifiInv, ClientConfigured
    <3>3. QED
      BY <1>6, <3>1, <3>2 DEF ClientReached
  <2>3. QED
    BY <2>1, <2>2
<1>13. ServiceConfigured'
  <2> SUFFICES ASSUME "apconf" \notin interrupted'
               PROVE  /\ \A i \in Of("apconf")' : ServiceReached(handlers[i])'
                      /\ Of("apconf")' = {} /\ asked'.apconf # Unknown => hostapd' = Service(asked'.apconf)
    BY DEF ServiceConfigured
  <2>1. CASE command = "apconf"
    <3>1. Of("apconf")' = {n + 1}
      BY <1>8, <1>9, <2>1
    <3>2. ServiceReached(new)'
      BY <1>4, <2>1 DEF Processes, ServiceReached
    <3>3. QED
      BY <1>6, <3>1, <3>2 DEF ServiceReached
  <2>2. CASE command # "apconf"
    BY <1>1, <1>6, <1>8, <1>10, <2>2, ZenonT(30) DEF WifiInv, ServiceConfigured, ServiceReached, Service
  <2>3. QED
    BY <2>1, <2>2
<1>14. QED
  BY <1>7, <1>11, <1>12, <1>13 DEF WifiInv

\* The innermost handler returns.
LEMMA Popped ==
  ASSUME HandlersTyped, handlers # <<>>, Pop
  PROVE  /\ Len(handlers) \in Nat \ {0} /\ Top \in Handler
         /\ handlers' \in Seq(Handler)
         /\ DOMAIN handlers = 1 .. Len(handlers)
         /\ DOMAIN handlers' = 1 .. Len(handlers) - 1
         /\ \A i \in 1 .. Len(handlers) - 1 : handlers'[i] = handlers[i]
         /\ \A c : Of(c)' = Of(c) \ {Len(handlers)}
<1> DEFINE n == Len(handlers)
<1>1. handlers \in Seq(Handler)
  BY DEF HandlersTyped
<1>2. n \in Nat \ {0} /\ DOMAIN handlers = 1 .. n /\ \A i \in 1 .. n : handlers[i] \in Handler
  BY <1>1
<1> HIDE DEF n
<1>3. handlers' = SubSeq(handlers, 1, n - 1)
  BY DEF Pop, n
<1>4. /\ handlers' \in Seq(Handler)
      /\ Len(handlers') = n - 1
      /\ \A i \in 1 .. n - 1 : handlers'[i] = handlers[i]
  <2>1. 1 \in Int /\ n - 1 \in Int /\ \A i \in 1 .. n - 1 : handlers[i] \in Handler
    BY <1>2
  <2>2. /\ SubSeq(handlers, 1, n - 1) \in Seq(Handler)
        /\ Len(SubSeq(handlers, 1, n - 1)) = IF 1 <= n - 1 THEN n - 1 - 1 + 1 ELSE 0
        /\ \A i \in 1 .. n - 1 - 1 + 1 : SubSeq(handlers, 1, n - 1)[i] = handlers[1 + i - 1]
    BY <2>1, SubSeqProperties
  <2>3. n - 1 - 1 + 1 = n - 1 /\ \A i \in 1 .. n - 1 : 1 + i - 1 = i
    BY <1>2
  <2>4. Len(handlers') = n - 1
    BY <1>2, <1>3, <2>2
  <2>5. QED
    BY <1>3, <2>2, <2>3, <2>4
<1>5. DOMAIN handlers' = 1 .. n - 1
  BY <1>4
<1>6. \A c : Of(c)' = Of(c) \ {n}
  BY <1>2, <1>4, <1>5 DEF Of
<1>7. Top \in Handler
  BY <1>2 DEF Top, n
<1>8. QED
  BY <1>2, <1>4, <1>5, <1>6, <1>7 DEF n

\* The innermost handler goes on to its next process.
LEMMA Advanced ==
  ASSUME HandlersTyped, handlers # <<>>, WaitForNext, Tail(Top.waits) \in Stages(Top.command)
  PROVE  /\ Len(handlers) \in Nat \ {0} /\ Top \in Handler
         /\ handlers' \in Seq(Handler) /\ Len(handlers') = Len(handlers)
         /\ \A i \in 1 .. Len(handlers) : /\ handlers'[i].command = handlers[i].command
                                         /\ handlers'[i].network = handlers[i].network
         /\ \A i \in 1 .. Len(handlers) - 1 : handlers'[i].waits = handlers[i].waits
         /\ handlers'[Len(handlers)].waits = Tail(Top.waits)
<1> DEFINE n == Len(handlers)
           next == [Top EXCEPT !.waits = Tail(Top.waits), !.process = "runs"]
<1>1. handlers \in Seq(Handler)
  BY DEF HandlersTyped
<1>2. n \in Nat \ {0} /\ Top = handlers[n] /\ Top \in Handler
  BY <1>1 DEF Top
<1>3. Top.command \in Commands
  BY <1>2, HandlerFacts
<1>4. /\ next \in Handler
      /\ next.command = Top.command /\ next.network = Top.network /\ next.waits = Tail(Top.waits)
  BY <1>2, <1>3, ZenonT(30) DEF Handler
<1>5. handlers' = [handlers EXCEPT ![n] = next]
  BY <1>1, <1>2 DEF WaitForNext, Handler
<1> HIDE DEF n, next
<1>6. /\ handlers' \in Seq(Handler) /\ Len(handlers') = n
      /\ \A i \in 1 .. n : handlers'[i] = IF i = n THEN next ELSE handlers[i]
  BY <1>1, <1>2, <1>4, <1>5 DEF n
<1>7. QED
  BY <1>2, <1>4, <1>6 DEF n

\* A handler of a kind of which none ran inside another is the only one.
LEMMA TopAlone ==
  ASSUME HandlersTyped, Alone, handlers # <<>>, Top.command \notin interrupted
  PROVE  Of(Top.command) = {Len(handlers)}
<1>1. Len(handlers) \in 1 .. Len(handlers) /\ DOMAIN handlers = 1 .. Len(handlers)
  BY DEF HandlersTyped
<1>2. QED
  BY <1>1 DEF Of, Top, Alone

\* The innermost handler goes on, and what it does to the file and the
\* service is what its next process needs.
LEMMA AdvanceStep ==
  ASSUME WifiInv, handlers # <<>>, WaitForNext, UNCHANGED <<asked, interrupted>>,
         Tail(Top.waits) \in Stages(Top.command),
         supplicant' \in SUBSET Settings,
         hostapd' \in [enabled : BOOLEAN, running : BOOLEAN],
         Top.command # "cliconf" => supplicant' = supplicant,
         Top.command # "apconf" => hostapd' = hostapd,
         Top.command = "cliconf" /\ "cliconf" \notin interrupted =>
            supplicant' = IF Tail(Top.waits) = <<"wpa_cli">> THEN {Top.network} ELSE {},
         Top.command = "apconf" /\ "apconf" \notin interrupted =>
            /\ Tail(Top.waits) \in {<<"stop", "disable">>, <<"disable">>} <=> Top.network = NoNetwork
            /\ Tail(Top.waits) \in {<<"disable">>, <<"enable", "start">>, <<"start">>} => ~hostapd'.running
            /\ Tail(Top.waits) = <<"start">> => hostapd'.enabled
  PROVE  WifiInv'
<1> DEFINE n == Len(handlers)
<1>1. HandlersTyped /\ Alone
  BY DEF WifiInv
<1>2. /\ n \in Nat \ {0} /\ Top \in Handler /\ Top = handlers[n]
      /\ handlers' \in Seq(Handler) /\ Len(handlers') = n
      /\ \A i \in 1 .. n : handlers'[i].command = handlers[i].command
      /\ \A i \in 1 .. n : handlers'[i].network = handlers[i].network
      /\ \A i \in 1 .. n - 1 : handlers'[i].waits = handlers[i].waits
      /\ handlers'[n].waits = Tail(Top.waits)
  BY <1>1, Advanced DEF Top
<1>3. /\ DOMAIN handlers' = DOMAIN handlers
      /\ \A c : Of(c)' = Of(c)
      /\ Alone'
  BY <1>1, <1>2, SameHandlers
<1>4. DOMAIN handlers = 1 .. n /\ \A c : Of(c) \subseteq 1 .. n
  BY <1>1 DEF HandlersTyped, Of
<1>5. \A c : c \notin interrupted /\ Top.command = c => Of(c) = {n}
  BY <1>1, TopAlone
<1>6. \A c : Top.command # c => n \notin Of(c)
  BY <1>2 DEF Of
<1>7. \A c : Top.command # c => \A i \in Of(c) : i \in 1 .. n - 1 /\ i \in 1 .. n
  BY <1>2, <1>4, <1>6
<1>8. HandlersTyped'
  BY <1>1, <1>2 DEF HandlersTyped
<1> HIDE DEF n
<1>9. ClientConfigured'
  <2>1. CASE Top.command = "cliconf"
    <3>1. SUFFICES ASSUME "cliconf" \notin interrupted
                   PROVE  supplicant' = IF handlers'[n].waits = <<"wpa_cli">> THEN {handlers'[n].network} ELSE {}
      BY <1>3, <1>5, <2>1 DEF ClientConfigured, ClientReached
    <3>2. handlers'[n].network = Top.network
      BY <1>2
    <3>3. handlers'[n].waits = Tail(Top.waits)
      BY <1>2
    <3>4. QED
      BY <2>1, <3>1, <3>2, <3>3
  <2>2. CASE Top.command # "cliconf"
    BY <1>2, <1>3, <1>7, <2>2 DEF WifiInv, ClientConfigured, ClientReached
  <2>3. QED
    BY <2>1, <2>2
<1>10. ServiceConfigured'
  <2>1. CASE Top.command = "apconf"
    <3>1. SUFFICES ASSUME "apconf" \notin interrupted
                   PROVE  /\ handlers'[n].waits \in {<<"stop", "disable">>, <<"disable">>} <=>
                                handlers'[n].network = NoNetwork
                          /\ handlers'[n].waits \in {<<"disable">>, <<"enable", "start">>, <<"start">>} =>
                                ~hostapd'.running
                          /\ handlers'[n].waits = <<"start">> => hostapd'.enabled
      BY <1>3, <1>5, <2>1 DEF ServiceConfigured, ServiceReached
    <3>2. handlers'[n].network = Top.network
      BY <1>2
    <3>3. handlers'[n].waits = Tail(Top.waits)
      BY <1>2
    <3>4. QED
      BY <2>1, <3>1, <3>2, <3>3
  <2>2. CASE Top.command # "apconf"
    BY <1>2, <1>3, <1>7, <2>2 DEF WifiInv, ServiceConfigured, ServiceReached, Service
  <2>3. QED
    BY <2>1, <2>2
<1>11. QED
  BY <1>3, <1>8, <1>9, <1>10 DEF WifiInv

\* The innermost handler returns, and the file and the service are as it
\* was asked if it answers with success.
LEMMA ReturnStep ==
  ASSUME WifiInv, handlers # <<>>, Pop, UNCHANGED interrupted,
         supplicant' \in SUBSET Settings,
         hostapd' \in [enabled : BOOLEAN, running : BOOLEAN],
         asked' \in [{"cliconf", "apconf"} -> Settings \cup {Unknown}],
         Top.command # "cliconf" => supplicant' = supplicant /\ asked'.cliconf = asked.cliconf,
         Top.command # "apconf" => hostapd' = hostapd /\ asked'.apconf = asked.apconf,
         Top.command = "cliconf" /\ "cliconf" \notin interrupted /\ asked'.cliconf # Unknown =>
            supplicant' = {asked'.cliconf},
         Top.command = "apconf" /\ "apconf" \notin interrupted /\ asked'.apconf # Unknown =>
            hostapd' = Service(asked'.apconf)
  PROVE  WifiInv'
<1> DEFINE n == Len(handlers)
<1>1. HandlersTyped /\ Alone
  BY DEF WifiInv
<1>2. /\ n \in Nat \ {0} /\ Top = handlers[n]
      /\ handlers' \in Seq(Handler)
      /\ DOMAIN handlers = 1 .. n
      /\ DOMAIN handlers' = 1 .. n - 1
      /\ \A i \in 1 .. n - 1 : handlers'[i] = handlers[i]
      /\ \A c : Of(c)' = Of(c) \ {n}
  BY <1>1, Popped DEF Top
<1>3. \A c : c \notin interrupted /\ Top.command = c => Of(c) = {n}
  BY <1>1, TopAlone
<1> HIDE DEF n
<1>4. \A c : Top.command # c => n \notin Of(c)
  BY <1>2 DEF Of
<1>5. \A c : Top.command # c => Of(c)' = Of(c)
  BY <1>2, <1>4
<1>6. \A c : \A i \in Of(c)' : i \in 1 .. n - 1
  BY <1>2 DEF Of
<1>7. \A c : c \notin interrupted /\ Top.command = c => Of(c)' = {}
  BY <1>2, <1>3
<1>8. HandlersTyped'
  BY <1>1, <1>2 DEF HandlersTyped
<1>9. Alone'
  <2>1. \A i \in 1 .. n - 1 : i \in 1 .. n
    BY <1>2
  <2>2. QED
    BY <1>1, <1>2, <2>1 DEF Alone
<1>10. ClientConfigured'
  <2>1. CASE Top.command = "cliconf"
    BY <1>7, <2>1 DEF ClientConfigured
  <2>2. CASE Top.command # "cliconf"
    BY <1>2, <1>5, <1>6, <2>2 DEF WifiInv, ClientConfigured, ClientReached
  <2>3. QED
    BY <2>1, <2>2
<1>11. ServiceConfigured'
  <2>1. CASE Top.command = "apconf"
    BY <1>7, <2>1 DEF ServiceConfigured, Service
  <2>2. CASE Top.command # "apconf"
    BY <1>2, <1>5, <1>6, <2>2 DEF WifiInv, ServiceConfigured, ServiceReached, Service
  <2>3. QED
    BY <2>1, <2>2
<1>12. QED
  BY <1>8, <1>9, <1>10, <1>11 DEF WifiInv

\* What a handler has still to wait for, one process or more.
LEMMA StageParts ==
  ASSUME NEW command \in Commands, NEW w \in Stages(command)
  PROVE  /\ command = "status" =>
              \/ w = <<"iwgetid", "grep">> /\ Len(w) > 1
              \/ w = <<"grep">> /\ ~(Len(w) > 1)
         /\ command = "cliconf" =>
              \/ w = <<"wpa_passphrase", "wpa_cli">> /\ Len(w) > 1
              \/ w = <<"wpa_cli">> /\ ~(Len(w) > 1)
         /\ command = "apconf" =>
              \/ w = <<"stop", "disable">> /\ Len(w) > 1
              \/ w = <<"disable">> /\ ~(Len(w) > 1)
              \/ w = <<"stop", "enable", "start">> /\ Len(w) > 1
              \/ w = <<"enable", "start">> /\ Len(w) > 1
              \/ w = <<"start">> /\ ~(Len(w) > 1)
<1>1. ASSUME NEW a, NEW b, NEW c
      PROVE  ~(Len(<<a>>) > 1) /\ Len(<<a, b>>) > 1 /\ Len(<<a, b, c>>) > 1
  OBVIOUS
<1>2. CASE command = "status"
  <2>1. w = <<"iwgetid", "grep">> \/ w = <<"grep">>
    BY <1>2 DEF Stages
  <2>2. QED
    BY <1>1, <1>2, <2>1
<1>3. CASE command = "cliconf"
  <2>1. w = <<"wpa_passphrase", "wpa_cli">> \/ w = <<"wpa_cli">>
    BY <1>3 DEF Stages
  <2>2. QED
    BY <1>1, <1>3, <2>1
<1>4. CASE command = "apconf"
  <2>1. \/ w = <<"stop", "disable">> \/ w = <<"disable">>
        \/ w = <<"stop", "enable", "start">> \/ w = <<"enable", "start">> \/ w = <<"start">>
    BY <1>4 DEF Stages
  <2>2. CASE w = <<"stop", "disable">>
    BY <1>1, <1>4, <2>2
  <2>3. CASE w = <<"disable">>
    BY <1>1, <1>4, <2>3
  <2>4. CASE w = <<"stop", "enable", "start">>
    BY <1>1, <1>4, <2>4
  <2>5. CASE w = <<"enable", "start">>
    BY <1>1, <1>4, <2>5
  <2>6. CASE w = <<"start">>
    BY <1>1, <1>4, <2>6
  <2>7. QED
    BY <2>1, <2>2, <2>3, <2>4, <2>5, <2>6
<1>5. QED
  BY <1>2, <1>3, <1>4 DEF Commands

\* What the process that has ended has done, whichever step is next.
LEMMA Done ==
  ASSUME WifiInv, handlers # <<>>
  PROVE  /\ Top \in Handler
         /\ Serviced(Head(Top.waits)) \in [enabled : BOOLEAN, running : BOOLEAN]
         /\ Top.command # "apconf" => Serviced(Head(Top.waits)) = hostapd
         /\ Head(Top.waits) = "wpa_passphrase" <=> Top.waits = <<"wpa_passphrase", "wpa_cli">>
         /\ Head(Top.waits) = "wpa_passphrase" => Top.command = "cliconf"
<1>1. Top \in Handler /\ hostapd \in [enabled : BOOLEAN, running : BOOLEAN]
  BY DEF WifiInv, HandlersTyped, Top
<1>2. Top.waits \in Stages(Top.command) /\ Top.command \in Commands
  BY <1>1, HandlerFacts
<1>3. ASSUME NEW process
      PROVE  Serviced(process) \in [enabled : BOOLEAN, running : BOOLEAN]
  BY <1>1 DEF Serviced
<1> DEFINE w == Top.waits
<1>4. CASE Top.command = "status"
  <2>1. w = <<"iwgetid", "grep">> \/ w = <<"grep">>
    BY <1>2, <1>4 DEF Stages
  <2>2. (w = <<"iwgetid", "grep">> /\ Head(w) = "iwgetid") \/ (w = <<"grep">> /\ Head(w) = "grep")
    BY <2>1, TupleParts
  <2> HIDE DEF w
  <2>3. Serviced(Head(w)) = hostapd
    BY <2>2 DEF Serviced
  <2>4. QED
    BY <1>1, <1>3, <1>4, <2>2, <2>3 DEF w
<1>5. CASE Top.command = "cliconf"
  <2>1. w = <<"wpa_passphrase", "wpa_cli">> \/ w = <<"wpa_cli">>
    BY <1>2, <1>5 DEF Stages
  <2>2. (w = <<"wpa_passphrase", "wpa_cli">> /\ Head(w) = "wpa_passphrase") \/ (w = <<"wpa_cli">> /\ Head(w) = "wpa_cli")
    BY <2>1, TupleParts
  <2> HIDE DEF w
  <2>3. Serviced(Head(w)) = hostapd
    BY <2>2 DEF Serviced
  <2>4. QED
    BY <1>1, <1>3, <1>5, <2>2, <2>3 DEF w
<1>6. CASE Top.command = "apconf"
  <2>1. w \in {<<"stop", "disable">>, <<"disable">>,
               <<"stop", "enable", "start">>, <<"enable", "start">>, <<"start">>}
    BY <1>2, <1>6 DEF Stages
  <2>2. Head(w) # "wpa_passphrase" /\ w # <<"wpa_passphrase", "wpa_cli">>
    BY <2>1, TupleParts
  <2>3. QED
    BY <1>1, <1>3, <1>6, <2>2
<1>7. QED
  BY <1>2, <1>4, <1>5, <1>6 DEF Commands

\* The innermost handler goes on.
LEMMA ProceedStep ==
  ASSUME WifiInv, Proceed
  PROVE  WifiInv'
<1> DEFINE w == Top.waits
           n == Len(handlers)
<1>1. /\ handlers # <<>>
      /\ IF Head(w) = "wpa_passphrase" THEN WriteNetwork(Top.network) ELSE UNCHANGED supplicant
      /\ hostapd' = Serviced(Head(w))
      /\ Len(w) > 1 => WaitForNext /\ UNCHANGED asked
      /\ ~(Len(w) > 1) => /\ Pop
                          /\ asked' = [c \in DOMAIN asked |-> IF c = Top.command THEN Top.network ELSE asked[c]]
      /\ interrupted' = interrupted
  BY DEF Proceed
<1>2. /\ Top \in Handler
      /\ hostapd' \in [enabled : BOOLEAN, running : BOOLEAN]
      /\ Top.command # "apconf" => hostapd' = hostapd
      /\ Head(w) = "wpa_passphrase" <=> w = <<"wpa_passphrase", "wpa_cli">>
      /\ Head(w) = "wpa_passphrase" => Top.command = "cliconf"
  BY <1>1, Done
<1>3. Top.command \in Commands /\ Top.network \in Settings /\ w \in Stages(Top.command)
  BY <1>2, HandlerFacts
<1>4. HandlersTyped /\ Alone
  BY DEF WifiInv
<1>5. n \in 1 .. n /\ n \in Nat /\ Top = handlers[n]
  BY <1>1, <1>4 DEF HandlersTyped, Top
<1>6. \A c : c \notin interrupted /\ Top.command = c => Of(c) = {n}
  BY <1>1, <1>4, TopAlone
<1>7. Top.command = "cliconf" /\ "cliconf" \notin interrupted =>
        supplicant = IF w = <<"wpa_cli">> THEN {Top.network} ELSE {}
  <2>1. SUFFICES ASSUME Top.command = "cliconf", "cliconf" \notin interrupted
                 PROVE  ClientReached(handlers[n])
    BY <1>5 DEF ClientReached
  <2>2. n \in Of("cliconf")
    BY <1>6, <2>1
  <2>3. QED
    BY <2>1, <2>2 DEF WifiInv, ClientConfigured
<1>8. Top.command = "apconf" /\ "apconf" \notin interrupted => ServiceReached(Top)
  <2>1. SUFFICES ASSUME Top.command = "apconf", "apconf" \notin interrupted
                 PROVE  ServiceReached(handlers[n])
    BY <1>5
  <2>2. n \in Of("apconf")
    BY <1>6, <2>1
  <2>3. QED
    BY <2>1, <2>2 DEF WifiInv, ServiceConfigured
<1>9. supplicant' \in SUBSET Settings
  BY <1>1, <1>3, <1>4 DEF WriteNetwork, HandlersTyped
<1>10. Top.command # "cliconf" => supplicant' = supplicant
  BY <1>1, <1>2
<1>11. /\ Top.command = "status" =>
            \/ w = <<"iwgetid", "grep">> /\ Len(w) > 1
            \/ w = <<"grep">> /\ ~(Len(w) > 1)
       /\ Top.command = "cliconf" =>
            \/ w = <<"wpa_passphrase", "wpa_cli">> /\ Len(w) > 1
            \/ w = <<"wpa_cli">> /\ ~(Len(w) > 1)
       /\ Top.command = "apconf" =>
            \/ w = <<"stop", "disable">> /\ Len(w) > 1
            \/ w = <<"disable">> /\ ~(Len(w) > 1)
            \/ w = <<"stop", "enable", "start">> /\ Len(w) > 1
            \/ w = <<"enable", "start">> /\ Len(w) > 1
            \/ w = <<"start">> /\ ~(Len(w) > 1)
  BY <1>3, StageParts
<1>12. CASE Len(w) > 1
  <2>1. WaitForNext /\ asked' = asked
    BY <1>1, <1>12
  <2>2. CASE Top.command = "status"
    <3>1. w = <<"iwgetid", "grep">>
      BY <1>12, <1>11, <2>2
    <3>2. Tail(w) = <<"grep">>
      BY <3>1, TupleParts
    <3>3. Tail(w) \in Stages(Top.command)
      BY <2>2, <3>2 DEF Stages
    <3>4. QED
      BY <1>1, <1>2, <1>9, <1>10, <2>1, <2>2, <3>3, AdvanceStep
  <2>3. CASE Top.command = "cliconf"
    <3>1. w = <<"wpa_passphrase", "wpa_cli">>
      BY <1>12, <1>11, <2>3
    <3>2. Tail(w) = <<"wpa_cli">>
      BY <3>1, TupleParts
    <3>3. Tail(w) \in Stages(Top.command)
      BY <2>3, <3>2 DEF Stages
    <3>4. w # <<"wpa_cli">>
      BY <1>12, TupleParts
    <3>5. "cliconf" \notin interrupted => supplicant' = {Top.network}
      BY <1>1, <1>2, <1>7, <2>3, <3>1, <3>4 DEF WriteNetwork
    <3>6. QED
      BY <1>1, <1>2, <1>9, <2>1, <2>3, <3>2, <3>3, <3>5, AdvanceStep
  <2>4. CASE Top.command = "apconf"
    <3>1. \/ w = <<"stop", "disable">> /\ Head(w) = "stop" /\ Tail(w) = <<"disable">>
          \/ w = <<"stop", "enable", "start">> /\ Head(w) = "stop" /\ Tail(w) = <<"enable", "start">>
          \/ w = <<"enable", "start">> /\ Head(w) = "enable" /\ Tail(w) = <<"start">>
      <4>1. \/ w = <<"stop", "disable">> \/ w = <<"stop", "enable", "start">> \/ w = <<"enable", "start">>
        BY <1>12, <1>11, <2>4
      <4>2. CASE w = <<"stop", "disable">>
        BY <4>2, TupleParts
      <4>3. CASE w = <<"stop", "enable", "start">>
        BY <4>3, TupleParts
      <4>4. CASE w = <<"enable", "start">>
        BY <4>4, TupleParts
      <4>5. QED
        BY <4>1, <4>2, <4>3, <4>4
    <3>2. Tail(w) \in Stages(Top.command)
      BY <2>4, <3>1 DEF Stages
    <3>3. hostapd \in [enabled : BOOLEAN, running : BOOLEAN]
      BY <1>4 DEF HandlersTyped
    <3>4. ASSUME "apconf" \notin interrupted
          PROVE  /\ Tail(w) \in {<<"stop", "disable">>, <<"disable">>} <=> Top.network = NoNetwork
                 /\ ~hostapd'.running
                 /\ Tail(w) = <<"start">> => hostapd'.enabled
      <4>1. ServiceReached(Top)
        BY <1>8, <2>4, <3>4
      <4>2. CASE w = <<"stop", "disable">> /\ Head(w) = "stop" /\ Tail(w) = <<"disable">>
        <5>1. hostapd' = [hostapd EXCEPT !.running = FALSE]
          BY <1>1, <4>2 DEF Serviced
        <5>2. Top.network = NoNetwork
          BY <4>1, <4>2 DEF ServiceReached
        <5>3. QED
          BY <3>3, <4>2, <5>1, <5>2
      <4>3. CASE w = <<"stop", "enable", "start">> /\ Head(w) = "stop" /\ Tail(w) = <<"enable", "start">>
        <5>1. hostapd' = [hostapd EXCEPT !.running = FALSE]
          BY <1>1, <4>3 DEF Serviced
        <5>2. Top.network # NoNetwork
          BY <4>1, <4>3 DEF ServiceReached
        <5>3. QED
          BY <3>3, <4>3, <5>1, <5>2
      <4>4. CASE w = <<"enable", "start">> /\ Head(w) = "enable" /\ Tail(w) = <<"start">>
        <5>1. hostapd' = [hostapd EXCEPT !.enabled = TRUE]
          BY <1>1, <4>4 DEF Serviced
        <5>2. Top.network # NoNetwork /\ ~hostapd.running
          BY <4>1, <4>4 DEF ServiceReached
        <5>3. QED
          BY <3>3, <4>4, <5>1, <5>2
      <4>5. QED
        BY <3>1, <4>2, <4>3, <4>4
    <3>5. QED
      BY <1>1, <1>2, <1>9, <1>10, <2>1, <2>4, <3>2, <3>4, AdvanceStep
  <2>5. QED
    BY <1>3, <2>2, <2>3, <2>4 DEF Commands
<1>13. CASE ~(Len(w) > 1)
  <2>1. /\ Pop
        /\ asked' = [c \in DOMAIN asked |-> IF c = Top.command THEN Top.network ELSE asked[c]]
    BY <1>1, <1>13
  <2>2. asked \in [{"cliconf", "apconf"} -> Settings \cup {Unknown}]
    BY <1>4 DEF HandlersTyped
  <2>3. /\ asked' \in [{"cliconf", "apconf"} -> Settings \cup {Unknown}]
        /\ \A c \in {"cliconf", "apconf"} : asked'[c] = IF c = Top.command THEN Top.network ELSE asked[c]
    BY <1>3, <2>1, <2>2
  <2>4. /\ asked'.cliconf = IF Top.command = "cliconf" THEN Top.network ELSE asked.cliconf
        /\ asked'.apconf = IF Top.command = "apconf" THEN Top.network ELSE asked.apconf
    BY <2>3
  <2>5. CASE Top.command = "status"
    BY <1>1, <1>2, <1>9, <1>10, <2>1, <2>3, <2>4, <2>5, ReturnStep
  <2>6. CASE Top.command = "cliconf"
    <3>1. w = <<"wpa_cli">>
      BY <1>13, <1>11, <2>6
    <3>2. Head(w) # "wpa_passphrase"
      BY <3>1, TupleParts
    <3>3. supplicant' = supplicant
      BY <1>1, <3>2
    <3>4. "cliconf" \notin interrupted => supplicant' = {asked'.cliconf}
      BY <1>7, <2>4, <2>6, <3>1, <3>3
    <3>5. QED
      BY <1>1, <1>2, <1>9, <1>10, <2>1, <2>3, <2>4, <2>6, <3>4, ReturnStep
  <2>7. CASE Top.command = "apconf"
    <3>1. \/ w = <<"disable">> /\ Head(w) = "disable"
          \/ w = <<"start">> /\ Head(w) = "start"
      <4>1. w = <<"disable">> \/ w = <<"start">>
        BY <1>13, <1>11, <2>7
      <4>2. QED
        BY <4>1, TupleParts
    <3>2. hostapd \in [enabled : BOOLEAN, running : BOOLEAN]
      BY <1>4 DEF HandlersTyped
    <3>3. asked'.apconf = Top.network
      BY <2>4, <2>7
    <3>4. ASSUME "apconf" \notin interrupted
          PROVE  hostapd' = Service(Top.network)
      <4>1. ServiceReached(Top)
        BY <1>8, <2>7, <3>4
      <4>2. CASE w = <<"disable">> /\ Head(w) = "disable"
        <5>1. hostapd' = [hostapd EXCEPT !.enabled = FALSE]
          BY <1>1, <4>2 DEF Serviced
        <5>2. Top.network = NoNetwork /\ ~hostapd.running
          BY <4>1, <4>2 DEF ServiceReached
        <5>3. QED
          BY <3>2, <5>1, <5>2 DEF Service
      <4>3. CASE w = <<"start">> /\ Head(w) = "start"
        <5>1. hostapd' = [hostapd EXCEPT !.running = TRUE]
          BY <1>1, <4>3 DEF Serviced
        <5>2. Top.network # NoNetwork /\ hostapd.enabled
          BY <4>1, <4>3 DEF ServiceReached
        <5>3. QED
          BY <3>2, <5>1, <5>2 DEF Service
      <4>4. QED
        BY <3>1, <4>2, <4>3
    <3>5. QED
      BY <1>1, <1>2, <1>9, <1>10, <2>1, <2>3, <2>4, <2>7, <3>3, <3>4, ReturnStep
  <2>8. QED
    BY <1>3, <2>5, <2>6, <2>7 DEF Commands
<1>14. QED
  BY <1>12, <1>13

\* The innermost handler answers with an error.
LEMMA FailStep ==
  ASSUME WifiInv, Fail
  PROVE  WifiInv'
<1>1. /\ handlers # <<>> /\ Top.command # "status" /\ Pop
      /\ asked' = [asked EXCEPT ![Top.command] = Unknown]
      /\ UNCHANGED <<supplicant, hostapd, interrupted>>
  BY DEF Fail
<1>2. HandlersTyped
  BY DEF WifiInv
<1>3. Top \in Handler
  BY <1>1, <1>2, Popped
<1>4. Top.command \in {"cliconf", "apconf"}
  BY <1>1, <1>3, HandlerFacts DEF Commands
<1>5. asked \in [{"cliconf", "apconf"} -> Settings \cup {Unknown}]
  BY <1>2 DEF HandlersTyped
<1>6. /\ asked' \in [{"cliconf", "apconf"} -> Settings \cup {Unknown}]
      /\ asked'.cliconf = IF Top.command = "cliconf" THEN Unknown ELSE asked.cliconf
      /\ asked'.apconf = IF Top.command = "apconf" THEN Unknown ELSE asked.apconf
  BY <1>1, <1>4, <1>5
<1>7. supplicant' \in SUBSET Settings /\ hostapd' \in [enabled : BOOLEAN, running : BOOLEAN]
  BY <1>1, <1>2 DEF HandlersTyped
<1>8. QED
  BY <1>1, <1>4, <1>6, <1>7, ReturnStep

\* The settings of the handlers and of the file, and what each handler that
\* runs alone has done so far, are inductive.
THEOREM WifiInductive == WifiInit /\ [][WifiNext]_wifiVars => []WifiInv
<1>1. WifiInit => WifiInv
  <2> SUFFICES ASSUME WifiInit
               PROVE  WifiInv
    OBVIOUS
  <2>1. /\ handlers = <<>> /\ supplicant = {NoNetwork}
        /\ hostapd = [enabled |-> FALSE, running |-> FALSE]
        /\ asked = [cliconf |-> NoNetwork, apconf |-> NoNetwork]
    BY DEF WifiInit
  <2>2. DOMAIN handlers = {} /\ handlers \in Seq(Handler)
    BY <2>1
  <2>3. HandlersTyped
    <3>1. supplicant \in SUBSET Settings
      BY <2>1 DEF Settings
    <3>2. hostapd \in [enabled : BOOLEAN, running : BOOLEAN]
      BY <2>1
    <3>3. asked \in [{"cliconf", "apconf"} -> Settings \cup {Unknown}]
      BY <2>1 DEF Settings
    <3>4. QED
      BY <2>2, <3>1, <3>2, <3>3 DEF HandlersTyped
  <2>4. Alone
    BY <2>2 DEF Alone
  <2>5. \A c : Of(c) = {}
    BY <2>2 DEF Of
  <2>6. ClientConfigured
    BY <2>1, <2>5 DEF ClientConfigured
  <2>7. ServiceConfigured
    BY <2>1, <2>5 DEF ServiceConfigured, Service
  <2>8. QED
    BY <2>3, <2>4, <2>6, <2>7 DEF WifiInv
<1>2. WifiInv /\ [WifiNext]_wifiVars => WifiInv'
  <2> SUFFICES ASSUME WifiInv, [WifiNext]_wifiVars
               PROVE  WifiInv'
    OBVIOUS
  <2>1. ASSUME NEW command \in {"status", "cliconf", "apconf"}, NEW network \in Networks \cup {NoNetwork},
               Begin(command, network)
        PROVE  WifiInv'
    BY <2>1, BeginStep DEF Commands, Settings
  <2>2. ASSUME NEW i \in DOMAIN handlers, End(i)
        PROVE  WifiInv'
    <3>1. PICK process \in {"succeeds", "fails"} : handlers' = [handlers EXCEPT ![i].process = process]
      BY <2>2 DEF End
    <3>2. UNCHANGED <<supplicant, hostapd, asked, interrupted>>
      BY <2>2 DEF End
    <3>3. QED
      BY <3>1, <3>2, ProcessEnds
  <2>3. ASSUME NEW i \in DOMAIN handlers, FailToStart(i)
        PROVE  WifiInv'
    <3>1. /\ handlers' = [handlers EXCEPT ![i].process = "unstarted"]
          /\ UNCHANGED <<supplicant, hostapd, asked, interrupted>>
      BY <2>3 DEF FailToStart
    <3>2. QED
      BY <3>1, ProcessEnds
  <2>4. CASE Proceed
    BY <2>4, ProceedStep
  <2>5. CASE Fail
    BY <2>5, FailStep
  <2>6. CASE UNCHANGED wifiVars
    BY <2>6 DEF wifiVars, WifiInv, HandlersTyped, Alone, ClientConfigured, ClientReached,
                ServiceConfigured, ServiceReached, Service, Of
  <2>7. QED
    BY <2>1, <2>2, <2>3, <2>4, <2>5, <2>6 DEF WifiNext
<1>3. QED
  BY <1>1, <1>2, PTL

\* A WiFi command that answered with success leaves what it asked for in
\* wpa_supplicant.conf and in the hostapd service, unless one of its kind
\* has run in the event loop of another.
THEOREM SuccessLeavesConfigured == WifiSpec => []SuccessIsConfigured
<1>1. WifiInv => SuccessIsConfigured
  BY DEF WifiInv, ClientConfigured, ServiceConfigured, Service, SuccessIsConfigured
<1>2. QED
  BY <1>1, WifiInductive, PTL DEF WifiSpec

=============================================================================
