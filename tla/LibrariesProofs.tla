-------------------------- MODULE LibrariesProofs ---------------------------
(***************************************************************************)
(* What Standalone promises of the three libraries, for every bound of the *)
(* runs: the bytes of an HTTP/3 stream (H3Stream), the order of the        *)
(* probes (VirtDetect) and the answers of the resolver (DnsLookup).  Each  *)
(* has its invariant; LibrariesInv is their conjunction, by part.          *)
(***************************************************************************)
EXTENDS Standalone, SequenceTheorems, WellFoundedInduction, TLAPS

----------------------------------------------------------------------------
(* HTTP/3 transport *)

\* The bytes of s are those after the first n of the stream.
Follows(s, n) == \A i \in 1 .. Len(s) : s[i] = n + i

Streams == queued \in Seq(Nat) /\ writing \in Seq(Nat) /\ buffer \in Seq(Nat) /\ got \in Seq(Nat)

\* What quinn holds follows what was read; what is still to be written is the end of what h3
\* handed over.
Numbers ==
    /\ Follows(queued, 0) /\ Follows(got, 0) /\ Follows(buffer, Len(got))
    /\ Follows(writing, Len(queued) - Len(writing))

\* Only a reset loses bytes.
Amounts ==
    /\ Len(got) + Len(buffer) + Len(writing) <= Len(queued)
    /\ closing # "reset" => Len(got) + Len(buffer) + Len(writing) = Len(queued)

\* A stream that ended well had given all that was written.
Ended == outcome = "end" => closing # "no" /\ Len(got) = Len(queued) - Len(writing)

H3Inv == Streams /\ Numbers /\ Amounts /\ Ended

LEMMA H3Init == H3!Init => H3Inv
BY DEF H3!Init, H3Inv, Streams, Numbers, Follows, Amounts, Ended

LEMMA FollowsTake ==
    ASSUME NEW s \in Seq(Nat), NEW m \in Nat, Follows(s, m), NEW n \in 0 .. Len(s)
    PROVE  LET t == H3!TakeBytes(s, n) IN t \in Seq(Nat) /\ Len(t) = n /\ Follows(t, m)
<1>1. \A i \in 1 .. n : s[i] \in Nat
  OBVIOUS
<1>2. /\ H3!TakeBytes(s, n) \in Seq(Nat) /\ Len(H3!TakeBytes(s, n)) = n
      /\ \A i \in 1 .. n : H3!TakeBytes(s, n)[i] = s[i]
  BY <1>1, SubSeqProperties DEF H3!TakeBytes
<1> QED BY <1>2 DEF Follows

LEMMA FollowsDrop ==
    ASSUME NEW s \in Seq(Nat), NEW m \in Nat, Follows(s, m), NEW n \in 0 .. Len(s)
    PROVE  LET t == H3!DropBytes(s, n)
           IN  t \in Seq(Nat) /\ Len(t) = Len(s) - n /\ Follows(t, m + n)
<1>1. \A i \in n + 1 .. Len(s) : s[i] \in Nat
  OBVIOUS
<1>2. n + 1 \in Int /\ Len(s) \in Int
  OBVIOUS
<1>3. /\ H3!DropBytes(s, n) \in Seq(Nat)
      /\ Len(H3!DropBytes(s, n)) = IF n + 1 <= Len(s) THEN Len(s) - (n + 1) + 1 ELSE 0
      /\ \A i \in 1 .. Len(s) - (n + 1) + 1 : H3!DropBytes(s, n)[i] = s[(n + 1) + i - 1]
  BY <1>1, <1>2, SubSeqProperties DEF H3!DropBytes
<1>4. Len(H3!DropBytes(s, n)) = Len(s) - n
  <2>1. Len(s) \in Nat /\ n \in Nat /\ n <= Len(s)
    OBVIOUS
  <2>2. (IF n + 1 <= Len(s) THEN Len(s) - (n + 1) + 1 ELSE 0) = Len(s) - n
    BY ONLY <2>1
  <2> QED BY <1>3, <2>2
<1>5. \A i \in 1 .. Len(s) - n : (n + 1) + i - 1 = n + i /\ n + i \in 1 .. Len(s)
  OBVIOUS
<1>6. \A i \in 1 .. Len(s) - n : H3!DropBytes(s, n)[i] = s[n + i]
  BY <1>3, <1>5
<1>7. \A i \in 1 .. Len(s) - n : s[n + i] = m + (n + i)
  BY <1>5 DEF Follows
<1> QED BY <1>3, <1>4, <1>6, <1>7 DEF Follows

LEMMA FollowsConcat ==
    ASSUME NEW s \in Seq(Nat), NEW t \in Seq(Nat), NEW m \in Nat, Follows(s, m), Follows(t, m + Len(s))
    PROVE  s \o t \in Seq(Nat) /\ Len(s \o t) = Len(s) + Len(t) /\ Follows(s \o t, m)
<1>1. /\ s \o t \in Seq(Nat) /\ Len(s \o t) = Len(s) + Len(t)
      /\ \A i \in 1 .. Len(s) + Len(t) : (s \o t)[i] = IF i <= Len(s) THEN s[i] ELSE t[i - Len(s)]
  BY ConcatProperties
<1>2. ASSUME NEW i \in 1 .. Len(s) + Len(t) PROVE (s \o t)[i] = m + i
  <2>1. CASE i <= Len(s)
    BY <1>1, <2>1 DEF Follows
  <2>2. CASE ~(i <= Len(s))
    <3>1. i - Len(s) \in 1 .. Len(t) /\ m + Len(s) + (i - Len(s)) = m + i
      BY <2>2
    <3> QED BY <1>1, <2>2, <3>1 DEF Follows
  <2> QED BY <2>1, <2>2
<1> QED BY <1>1, <1>2 DEF Follows

LEMMA FollowsNew ==
    ASSUME NEW m \in Nat, NEW n \in Nat
    PROVE  LET s == [i \in 1 .. n |-> m + i] IN s \in Seq(Nat) /\ Len(s) = n /\ Follows(s, m)
BY DEF Follows

(* Every piece that is written, and what is kept for the next poll, is in its place. *)
LEMMA H3Sending == ASSUME H3Inv, H3!Sending PROVE H3Inv'
<1>1. ASSUME NEW n \in 1 .. MaxByte, H3!SendData(n), writing = <<>> PROVE H3Inv'
  <2> DEFINE s == [i \in 1 .. n |-> Len(queued) + i]
  <2>1. /\ writing = <<>> /\ writing' = s /\ queued' = queued \o s
        /\ UNCHANGED <<closing, buffer, got, outcome>>
    BY <1>1 DEF H3!SendData, H3!Bytes, H3!receiver
  <2>2. n \in Nat /\ Len(queued) \in Nat /\ queued \in Seq(Nat) /\ Follows(queued, 0)
    BY BoundsAssumption DEF H3Inv, Streams, Numbers
  <2>3. s \in Seq(Nat) /\ Len(s) = n /\ Follows(s, Len(queued))
    BY <2>2, FollowsNew
  <2> HIDE DEF s
  <2>4. queued' \in Seq(Nat) /\ Len(queued') = Len(queued) + n /\ Follows(queued', 0)
    <3>1. 0 + Len(queued) = Len(queued)
      BY <2>2
    <3> QED BY <2>1, <2>2, <2>3, <3>1, FollowsConcat
  <2>5. Len(queued') - Len(writing') = Len(queued)
    BY <2>1, <2>2, <2>3, <2>4
  <2>6. Streams' /\ Numbers'
    BY <2>1, <2>3, <2>4, <2>5 DEF H3Inv, Streams, Numbers
  <2>7. Amounts' /\ Ended'
    <3>1. Len(got) \in Nat /\ Len(buffer) \in Nat /\ Len(writing) = 0
      BY <2>1 DEF H3Inv, Streams
    <3>2. Len(writing') = n /\ got' = got /\ buffer' = buffer
      BY <2>1, <2>3
    <3>3. Len(got') = Len(got) /\ Len(buffer') = Len(buffer) /\ Len(queued') = Len(queued) + n
      BY <2>4, <3>2
    <3>4. Len(got') + Len(buffer') + Len(writing') = Len(got) + Len(buffer) + Len(writing) + n
      BY <2>2, <3>1, <3>2, <3>3
    <3>5. Amounts'
      <4>1. Len(got) + Len(buffer) + Len(writing) \in Nat
        BY <3>1
      <4>2. /\ Len(got) + Len(buffer) + Len(writing) <= Len(queued)
            /\ closing # "reset" => Len(got) + Len(buffer) + Len(writing) = Len(queued)
        BY DEF H3Inv, Amounts
      <4>3. closing' = closing /\ Len(queued') = Len(queued) + n
        BY <2>1, <3>3
      <4> QED BY ONLY <2>2, <3>4, <4>1, <4>2, <4>3 DEF Amounts
    <3>6. Ended'
      BY <2>1, <2>2, <3>1, <3>2, <3>3 DEF H3Inv, Ended
    <3> QED BY <3>5, <3>6
  <2> QED BY <2>6, <2>7 DEF H3Inv
<1>2. CASE H3!PollReady
  <2>1. PICK n \in 0 .. Len(writing) :
           /\ H3!Takes(n)
           /\ buffer' = buffer \o H3!TakeBytes(writing, n) /\ writing' = H3!DropBytes(writing, n)
    BY <1>2 DEF H3!PollReady
  <2>2. UNCHANGED <<closing, queued, got, outcome>> /\ closing = "no"
    BY <1>2, <2>1 DEF H3!PollReady, H3!receiver, H3!Takes
  <2>3. /\ Len(queued) \in Nat /\ Len(writing) \in Nat /\ Len(buffer) \in Nat /\ Len(got) \in Nat
        /\ Len(got) + Len(buffer) + Len(writing) = Len(queued)
    BY <2>2 DEF H3Inv, Streams, Amounts
  <2>4. /\ Len(queued) - Len(writing) \in Nat
        /\ Len(got) + Len(buffer) = Len(queued) - Len(writing)
        /\ Len(queued) - Len(writing) + n = Len(queued) - (Len(writing) - n)
    BY <2>3
  <2>5. /\ H3!TakeBytes(writing, n) \in Seq(Nat) /\ Len(H3!TakeBytes(writing, n)) = n
        /\ Follows(H3!TakeBytes(writing, n), Len(got) + Len(buffer))
    BY <2>4, FollowsTake DEF H3Inv, Streams, Numbers
  <2>6. /\ writing' \in Seq(Nat) /\ Len(writing') = Len(writing) - n
        /\ Follows(writing', Len(queued) - Len(writing'))
    <3>1. Follows(writing, Len(queued) - Len(writing)) /\ writing \in Seq(Nat)
      BY DEF H3Inv, Streams, Numbers
    <3>2. /\ writing' \in Seq(Nat) /\ Len(writing') = Len(writing) - n
          /\ Follows(writing', Len(queued) - Len(writing) + n)
      BY <2>1, <2>4, <3>1, FollowsDrop
    <3> QED BY <2>4, <3>2
  <2>7. /\ buffer' \in Seq(Nat) /\ Len(buffer') = Len(buffer) + n
        /\ Follows(buffer', Len(got))
    <3>1. buffer \in Seq(Nat) /\ Follows(buffer, Len(got)) /\ Len(got) \in Nat
      BY <2>3 DEF H3Inv, Streams, Numbers
    <3> QED BY <2>1, <2>5, <3>1, FollowsConcat
  <2>8. Streams' /\ Numbers'
    BY <2>2, <2>6, <2>7 DEF H3Inv, Streams, Numbers
  <2>9. Amounts'
    <3>1. Len(buffer') = Len(buffer) + n /\ Len(writing') = Len(writing) - n
      BY <2>6, <2>7
    <3>2. Len(got) + Len(buffer') + Len(writing') = Len(queued)
      BY <2>3, <3>1
    <3> QED BY <2>2, <2>3, <3>1, <3>2 DEF Amounts
  <2>10. Ended'
    BY <2>2 DEF H3Inv, Ended
  <2> QED BY <2>8, <2>9, <2>10 DEF H3Inv
<1>3. ASSUME NEW n \in 1 .. MaxByte, H3!SendData(n), writing # <<>> PROVE H3Inv'
  BY <1>3 DEF H3!SendData, H3!receiver, H3Inv, Streams, Numbers, Amounts, Ended
<1>4. CASE H3!PollSend
  <2>1. PICK n \in 1 .. MaxByte - Len(queued) :
           /\ H3!Takes(n)
           /\ queued' = queued \o [i \in 1 .. n |-> Len(queued) + i]
           /\ buffer' = buffer \o [i \in 1 .. n |-> Len(queued) + i]
    BY <1>4 DEF H3!PollSend, H3!Bytes
  <2> DEFINE s == [i \in 1 .. n |-> Len(queued) + i]
  <2>2. UNCHANGED <<closing, writing, got, outcome>> /\ closing = "no" /\ writing = <<>>
    BY <1>4, <2>1 DEF H3!PollSend, H3!receiver, H3!Takes
  <2>3. /\ Len(queued) \in Nat /\ Len(buffer) \in Nat /\ Len(got) \in Nat /\ Len(writing) = 0 /\ n \in Nat
        /\ Len(got) + Len(buffer) = Len(queued)
    BY <2>2, BoundsAssumption DEF H3Inv, Streams, Amounts
  <2>4. s \in Seq(Nat) /\ Len(s) = n /\ Follows(s, Len(queued))
    BY <2>3, FollowsNew
  <2> HIDE DEF s
  <2>5. queued' \in Seq(Nat) /\ Len(queued') = Len(queued) + n /\ Follows(queued', 0)
    <3>1. 0 + Len(queued) = Len(queued) /\ queued \in Seq(Nat) /\ Follows(queued, 0)
      BY <2>3 DEF H3Inv, Streams, Numbers
    <3>2. queued' = queued \o s
      BY <2>1 DEF s
    <3> QED BY <2>4, <3>1, <3>2, FollowsConcat
  <2>6. buffer' \in Seq(Nat) /\ Len(buffer') = Len(buffer) + n /\ Follows(buffer', Len(got))
    <3>1. buffer \in Seq(Nat) /\ Follows(buffer, Len(got)) /\ Follows(s, Len(got) + Len(buffer))
      BY <2>3, <2>4 DEF H3Inv, Streams, Numbers
    <3>2. buffer' = buffer \o s
      BY <2>1 DEF s
    <3> QED BY <2>3, <2>4, <3>1, <3>2, FollowsConcat
  <2>7. Follows(writing', Len(queued') - Len(writing'))
    <3>1. writing' = writing /\ \A i \in 1 .. Len(writing) : FALSE
      BY <2>2, <2>3
    <3> QED BY <3>1 DEF Follows
  <2>8. Streams' /\ Numbers'
    BY <2>2, <2>5, <2>6, <2>7 DEF H3Inv, Streams, Numbers
  <2>9. Amounts'
    BY <2>2, <2>3, <2>5, <2>6 DEF Amounts
  <2>10. Ended'
    BY <2>2 DEF H3Inv, Ended
  <2> QED BY <2>8, <2>9, <2>10 DEF H3Inv
<1>5. CASE H3!PollFinish \/ H3!PollSendTooEarly
  BY <1>5 DEF H3!PollFinish, H3!PollSendTooEarly, H3!Finish, H3!receiver,
              H3Inv, Streams, Numbers, Amounts, Ended
<1>6. CASE H3!ResetStream
  <2>1. PICK n \in 0 .. Len(buffer) : buffer' = H3!TakeBytes(buffer, n)
    BY <1>6 DEF H3!ResetStream
  <2>2. closing' = "reset" /\ UNCHANGED <<queued, writing, got, outcome>>
    BY <1>6 DEF H3!ResetStream, H3!receiver
  <2>3. Len(buffer) \in Nat /\ Len(got) \in Nat /\ Len(writing) \in Nat /\ Len(queued) \in Nat
    BY DEF H3Inv, Streams
  <2>4. buffer' \in Seq(Nat) /\ Len(buffer') = n /\ Follows(buffer', Len(got))
    BY <2>1, <2>3, FollowsTake DEF H3Inv, Streams, Numbers
  <2>5. Streams' /\ Numbers'
    BY <2>2, <2>4 DEF H3Inv, Streams, Numbers
  <2>6. Amounts' /\ Ended'
    BY <2>2, <2>3, <2>4 DEF H3Inv, Amounts, Ended
  <2> QED BY <2>5, <2>6 DEF H3Inv
<1> QED BY <1>1, <1>2, <1>3, <1>4, <1>5, <1>6 DEF H3!Sending

(* What is read follows what was read. *)
LEMMA H3Reading == ASSUME H3Inv, H3!Reading PROVE H3Inv'
<1>1. CASE H3!PollData
  <2>1. UNCHANGED <<queued, writing, closing>> /\ outcome = "open"
    BY <1>1 DEF H3!PollData, H3!sender, H3!Readable
  <2>2. ASSUME NEW n \in 1 .. Len(buffer), got' = got \o H3!TakeBytes(buffer, n),
               buffer' = H3!DropBytes(buffer, n), outcome' = outcome
        PROVE  H3Inv'
    <3>1. /\ Len(buffer) \in Nat /\ Len(got) \in Nat /\ Len(writing) \in Nat /\ Len(queued) \in Nat
          /\ n \in 0 .. Len(buffer)
      BY DEF H3Inv, Streams
    <3>2. /\ H3!TakeBytes(buffer, n) \in Seq(Nat) /\ Len(H3!TakeBytes(buffer, n)) = n
          /\ Follows(H3!TakeBytes(buffer, n), Len(got))
      BY <3>1, FollowsTake DEF H3Inv, Streams, Numbers
    <3>3. 0 + Len(got) = Len(got)
      BY <3>1
    <3>4. got' \in Seq(Nat) /\ Len(got') = Len(got) + n /\ Follows(got', 0)
      BY <2>2, <3>2, <3>3, FollowsConcat DEF H3Inv, Streams, Numbers
    <3>5. buffer' \in Seq(Nat) /\ Len(buffer') = Len(buffer) - n /\ Follows(buffer', Len(got'))
      BY <2>2, <3>1, <3>4, FollowsDrop DEF H3Inv, Streams, Numbers
    <3>6. Streams' /\ Numbers'
      BY <2>1, <3>4, <3>5 DEF H3Inv, Streams, Numbers
    <3>7. Amounts'
      <4>1. Len(got') + Len(buffer') + Len(writing') = Len(got) + Len(buffer) + Len(writing)
        BY <2>1, <3>1, <3>4, <3>5
      <4> QED BY <2>1, <4>1 DEF H3Inv, Amounts
    <3>8. Ended'
      BY <2>1, <2>2 DEF H3Inv, Ended
    <3> QED BY <3>6, <3>7, <3>8 DEF H3Inv
  <2>3. CASE UNCHANGED <<got, buffer>> /\ outcome' \in {"open", "terminated", "lost"}
    BY <2>1, <2>3 DEF H3Inv, Streams, Numbers, Amounts, Ended
  <2>4. CASE UNCHANGED <<got, buffer>> /\ closing = "finish" /\ buffer = <<>> /\ outcome' = "end"
    <3>1. Len(got) = Len(queued) - Len(writing)
      BY <2>4 DEF H3Inv, Streams, Amounts
    <3> QED BY <2>1, <2>4, <3>1 DEF H3Inv, Streams, Numbers, Amounts, Ended
  <2> QED BY <1>1, <2>1, <2>2, <2>3, <2>4 DEF H3!PollData
<1>2. CASE H3!StopSending
  BY <1>2 DEF H3!StopSending, H3!Readable, H3!sender, H3Inv, Streams, Numbers, Amounts, Ended
<1> QED BY <1>1, <1>2 DEF H3!Reading

LEMMA H3Step == ASSUME H3Inv, [H3!Next]_H3!vars PROVE H3Inv'
<1>1. ASSUME UNCHANGED <<H3!sender, buffer, got, outcome>> PROVE H3Inv'
  <2>1. UNCHANGED <<queued, writing, closing, buffer, got, outcome>>
    BY <1>1 DEF H3!sender
  <2> QED BY <2>1 DEF H3Inv, Streams, Numbers, Amounts, Ended
<1>2. CASE H3!Connecting
  BY <1>1, <1>2 DEF H3!Connecting, H3!Lose, H3!Close, H3!Grant, H3!PollOpen, H3!PollAccept, H3!receiver
<1>3. CASE UNCHANGED H3!vars
  BY <1>1, <1>3 DEF H3!vars, H3!receiver
<1> QED BY <1>2, <1>3, H3Sending, H3Reading DEF H3!Next

LEMMA H3Means == H3Inv => H3!FaithfulStream
<1> SUFFICES ASSUME H3Inv PROVE H3!FaithfulStream
  OBVIOUS
<1>1. Len(got) \in 0 .. Len(queued) /\ queued \in Seq(Nat) /\ got \in Seq(Nat)
  BY DEF H3Inv, Streams, Amounts
<1>2. /\ H3!TakeBytes(queued, Len(got)) \in Seq(Nat) /\ Len(H3!TakeBytes(queued, Len(got))) = Len(got)
      /\ Follows(H3!TakeBytes(queued, Len(got)), 0)
  BY <1>1, FollowsTake DEF H3Inv, Numbers
<1>3. \A i \in 1 .. Len(got) : got[i] = H3!TakeBytes(queued, Len(got))[i]
  BY <1>1, <1>2 DEF H3Inv, Numbers, Follows
<1>4. got = H3!TakeBytes(queued, Len(got))
  BY <1>1, <1>2, <1>3, SeqEqual
<1> QED BY <1>4 DEF H3Inv, Ended, H3!FaithfulStream

----------------------------------------------------------------------------
(* Virtualization detection *)

\* What the probe at a position finds.
HitAt(i) ==
    LET path == Virt!Probes[i]
    IN  IF path \in Virt!ToSet(Virt!ContainerProbes) THEN Virt!ContainerHit(path) ELSE Virt!VmHit(path)

\* While it detects, every probe before found nothing; and the answer holds what it promises.
VirtInv ==
    /\ probe \in Nat \ {0}
    /\ Virt!Detecting => answer = "none" /\ \A i \in 1 .. probe - 1 : HitAt(i) = "none"
    /\ Virt!InnermostReported /\ Virt!ProductNamed

LEMMA VirtInit == Virt!Init => VirtInv
BY DEF Virt!Init, VirtInv, Virt!InnermostReported, Virt!ProductNamed, Virt!VmIds

(* The order of the probes. *)
LEMMA Order ==
    /\ Len(Virt!Probes) = 23
    /\ \A i \in 1 .. 8 : Virt!Probes[i] = Virt!ContainerProbes[i]
    /\ \A i \in 1 .. 5 : Virt!Probes[8 + i] = Virt!DmiPaths[i]
<1> USE DEF Virt!Probes, Virt!VmProbes, Virt!ContainerProbes, Virt!DmiPaths, Virt!DeviceTreeProbes
<1>1. Len(Virt!Probes) = 23
  OBVIOUS
<1>2. \A i \in 1 .. 8 : Virt!Probes[i] = Virt!ContainerProbes[i]
  OBVIOUS
<1>3. \A i \in 1 .. 5 : Virt!Probes[8 + i] = Virt!DmiPaths[i]
  OBVIOUS
<1> QED BY <1>1, <1>2, <1>3

LEMMA ContainerPaths ==
    /\ \A i \in 1 .. 8 : Virt!ContainerProbes[i] \in Virt!ToSet(Virt!ContainerProbes)
    /\ \A path \in Virt!ToSet(Virt!ContainerProbes) : \E i \in 1 .. 8 : path = Virt!ContainerProbes[i]
    /\ \A i \in 1 .. 5 : Virt!DmiPaths[i] \notin Virt!ToSet(Virt!ContainerProbes)
BY DEF Virt!ToSet, Virt!ContainerProbes, Virt!DmiPaths

(* A container probe names a container or nothing. *)
LEMMA ContainerHits ==
    \A path : Virt!ContainerHit(path) \in Virt!ContainerIds \cup {"none"}
BY DEF Virt!ContainerHit, Virt!ContainerIds, Virt!FromEnviron, Virt!FromManager

LEMMA NoContainerIsVm == \A id \in Virt!ContainerIds \cup {"none"} : id \notin Virt!VmIds
BY DEF Virt!ContainerIds, Virt!VmIds

(* The rules name QEMU last, and Xen after every product. *)
LEMMA Rules ==
    /\ Len(Virt!DmiRules) = 13
    /\ \A i \in 1 .. 13 : Virt!DmiRules[i].id # "none"
    /\ \A i \in 1 .. 13 : Virt!DmiRules[i].id = "qemu" <=> i = 13
    /\ \A i \in 1 .. 13 : Virt!DmiRules[i].id = "xen" <=> i = 7
    /\ \A i \in 7 .. 13 : Virt!DmiRules[i].id \notin Virt!Products
<1>1. Len(Virt!DmiRules) = 13
  BY DEF Virt!DmiRules
<1>2. /\ Virt!DmiRules[1].id = "kvm" /\ Virt!DmiRules[2].id = "amazon" /\ Virt!DmiRules[3].id = "google"
      /\ Virt!DmiRules[4].id = "vmware" /\ Virt!DmiRules[5].id = "oracle" /\ Virt!DmiRules[6].id = "oracle"
      /\ Virt!DmiRules[7].id = "xen" /\ Virt!DmiRules[8].id = "bochs" /\ Virt!DmiRules[9].id = "parallels"
      /\ Virt!DmiRules[10].id = "bhyve" /\ Virt!DmiRules[11].id = "microsoft"
      /\ Virt!DmiRules[12].id = "apple" /\ Virt!DmiRules[13].id = "qemu"
  BY DEF Virt!DmiRules, Virt!Anywhere, Virt!Both
<1>3. /\ \A i \in 1 .. 13 : Virt!DmiRules[i].id # "none"
      /\ \A i \in 1 .. 13 : Virt!DmiRules[i].id = "qemu" <=> i = 13
      /\ \A i \in 1 .. 13 : Virt!DmiRules[i].id = "xen" <=> i = 7
      /\ \A i \in 7 .. 13 : Virt!DmiRules[i].id \notin Virt!Products
  BY <1>2 DEF Virt!Products
<1> QED BY <1>1, <1>3

(* DMI is matched when the last of its fields is read. *)
LEMMA LastDmi == Virt!Last(Virt!DmiPaths) = Virt!DmiPaths[5] /\ Virt!DmiPaths[5] = "chassis_asset_tag"
BY DEF Virt!Last, Virt!DmiPaths

LEMMA OtherDmi == \A i \in 1 .. 4 : Virt!VmHit(Virt!DmiPaths[i]) = "none"
<1>1. /\ Virt!DmiPaths[1] = "sys_vendor" /\ Virt!DmiPaths[2] = "product_name"
      /\ Virt!DmiPaths[3] = "bios_vendor" /\ Virt!DmiPaths[4] = "chassis_vendor"
  BY DEF Virt!DmiPaths
<1>2. \A path \in {"sys_vendor", "product_name", "bios_vendor", "chassis_vendor"} :
          path \notin Virt!ToSet(Virt!DeviceTreeProbes)
  BY DEF Virt!ToSet, Virt!DeviceTreeProbes
<1>3. \A path \in {"sys_vendor", "product_name", "bios_vendor", "chassis_vendor"} :
          Virt!VmHit(path) = "none"
  BY <1>2, LastDmi DEF Virt!VmHit
<1> QED BY <1>1, <1>3

(* A nonempty set of naturals has a least one. *)
LEMMA Least == ASSUME NEW S \in SUBSET Nat, S # {} PROVE \E m \in S : \A k \in S : m <= k
<1>1. PICK m \in S : \A k \in S : ~(<<k, m>> \in OpToRel(<, Nat))
  BY NatLessThanWellFounded, WFMin
<1>2. \A k \in S : ~(k < m)
  BY <1>1 DEF OpToRel
<1> QED BY <1>2

(* What DMI answers is the name of its first rule that matches. *)
LEMMA DmiAnswers ==
    /\ Virt!DmiHit = "none" => Virt!DmiNames = {}
    /\ Virt!DmiHit # "none" => Virt!DmiHit \in Virt!DmiNames
    /\ Virt!DmiHit = "qemu" => Virt!DmiNames = {"qemu"}
    /\ Virt!DmiHit = "xen" => Virt!DmiNames \cap Virt!Products = {}
<1> DEFINE I == {i \in 1 .. 13 : Virt!Matches(Virt!DmiRules[i])}
<1>1. Virt!DmiHit = IF I = {} THEN "none" ELSE Virt!DmiRules[Virt!Min(I)].id
  <2>1. Virt!SelectInSeq(Virt!DmiRules, Virt!Matches) = IF I # {} THEN Virt!Min(I) ELSE 0
    BY Rules DEF Virt!SelectInSeq
  <2>2. I # {} => Virt!Min(I) \in I
    BY Least DEF Virt!Min
  <2> QED BY <2>1, <2>2 DEF Virt!DmiHit
<1>2. I # {} => Virt!Min(I) \in I /\ \A i \in I : Virt!Min(I) <= i
  BY Least DEF Virt!Min
<1>3. Virt!DmiNames = {Virt!DmiRules[i].id : i \in I}
  BY Rules DEF Virt!DmiNames
<1>4. I \subseteq 1 .. 13
  OBVIOUS
<1> HIDE DEF I
<1>5. CASE I = {}
  BY <1>1, <1>3, <1>5
<1>6. CASE I # {}
  <2>1. /\ Virt!Min(I) \in I /\ Virt!Min(I) \in 1 .. 13 /\ \A i \in I : Virt!Min(I) <= i
        /\ Virt!DmiHit = Virt!DmiRules[Virt!Min(I)].id
    BY <1>1, <1>2, <1>4, <1>6
  <2>2. Virt!DmiHit # "none" /\ Virt!DmiHit \in Virt!DmiNames
    BY <1>3, <2>1, Rules
  <2>3. ASSUME Virt!DmiHit = "qemu" PROVE Virt!DmiNames = {"qemu"}
    <3>1. Virt!Min(I) = 13
      BY <2>1, <2>3, Rules
    <3>2. \A i \in I : i = 13
      BY <1>4, <2>1, <3>1
    <3>3. \A i \in I : Virt!DmiRules[i].id = "qemu"
      BY <2>1, <2>3, <3>1, <3>2
    <3> QED BY <1>3, <1>6, <3>3
  <2>4. ASSUME Virt!DmiHit = "xen" PROVE Virt!DmiNames \cap Virt!Products = {}
    <3>1. Virt!Min(I) = 7
      BY <2>1, <2>4, Rules
    <3>2. \A i \in I : i \in 7 .. 13
      BY <1>4, <2>1, <3>1
    <3> QED BY <1>3, <3>2, Rules
  <2> QED BY <2>2, <2>3, <2>4
<1> QED BY <1>5, <1>6

(* What the probes find depends on the files alone. *)
LEMMA SameFiles ==
    ASSUME files' = files
    PROVE  /\ \A path : Virt!Field(path)' = Virt!Field(path)
           /\ \A rule : Virt!Matches(rule)' = Virt!Matches(rule)
           /\ \A path : Virt!ContainerHit(path)' = Virt!ContainerHit(path)
           /\ \A path : Virt!VmHit(path)' = Virt!VmHit(path)
           /\ \A i : HitAt(i)' = HitAt(i)
           /\ Virt!DmiNames' = Virt!DmiNames
<1>1. \A path : Virt!Exists(path)' = Virt!Exists(path) /\ Virt!Text(path)' = Virt!Text(path)
  BY DEF Virt!Exists, Virt!Text
<1>2. \A path : Virt!Field(path)' = Virt!Field(path)
  BY <1>1 DEF Virt!Field
<1>3. \A rule : Virt!Matches(rule)' = Virt!Matches(rule)
  BY <1>2 DEF Virt!Matches
<1>4. Virt!DmiHit' = Virt!DmiHit
  BY <1>3 DEF Virt!DmiHit, Virt!SelectInSeq
<1>5. \A path : Virt!ContainerHit(path)' = Virt!ContainerHit(path)
  BY <1>1 DEF Virt!ContainerHit
<1>6. \A path : Virt!DeviceTreeHit(path)' = Virt!DeviceTreeHit(path)
  BY <1>1 DEF Virt!DeviceTreeHit, Virt!NamedHit
<1>7. \A path : Virt!VmHit(path)' = Virt!VmHit(path)
  BY <1>1, <1>4, <1>6 DEF Virt!VmHit, Virt!XenHit, Virt!NamedHit
<1>8. \A i : HitAt(i)' = HitAt(i)
  BY <1>5, <1>7 DEF HitAt
<1>9. Virt!DmiNames' = Virt!DmiNames
  BY <1>3 DEF Virt!DmiNames
<1> QED BY <1>2, <1>3, <1>5, <1>7, <1>8, <1>9

LEMMA VirtStep == ASSUME VirtInv, [Virt!Next]_Virt!vars PROVE VirtInv'
<1>1. CASE Virt!Probe
  <2>1. /\ probe \in 1 .. 23 /\ files' = files /\ answer' = HitAt(probe)
        /\ answer = "none" /\ \A i \in 1 .. probe - 1 : HitAt(i) = "none"
        /\ probe' = IF answer' = "none" THEN probe + 1 ELSE 24
    BY <1>1, Order DEF Virt!Probe, Virt!Detecting, VirtInv, HitAt
  <2>2. \A i : HitAt(i)' = HitAt(i)
    BY <2>1, SameFiles
  <2>3. probe' \in Nat \ {0} /\ (Virt!Detecting' => answer' = "none" /\ \A i \in 1 .. probe' - 1 : HitAt(i)' = "none")
    BY <2>1, <2>2, Order DEF Virt!Detecting
  <2>4. \A i \in 1 .. 8 : probe > 8 => Virt!ContainerHit(Virt!ContainerProbes[i]) = "none"
    BY <2>1, Order, ContainerPaths DEF HitAt
  <2>5. probe <= 8 => answer' \in Virt!ContainerIds \cup {"none"}
    BY <2>1, Order, ContainerPaths, ContainerHits DEF HitAt
  <2>6. Virt!InnermostReported'
    <3> SUFFICES ASSUME answer' \in Virt!VmIds, NEW path \in Virt!ToSet(Virt!ContainerProbes)
                 PROVE  Virt!ContainerHit(path)' = "none"
      BY DEF Virt!InnermostReported
    <3>1. probe > 8
      BY <2>1, <2>5, NoContainerIsVm
    <3>2. Virt!ContainerHit(path)' = Virt!ContainerHit(path)
      BY <2>1, SameFiles
    <3> QED BY <2>4, <3>1, <3>2, ContainerPaths
  <2>7. Virt!ProductNamed'
    <3>1. HitAt(13) = Virt!DmiHit /\ \A i \in 9 .. 12 : HitAt(i) = "none"
      <4>1. /\ Virt!Probes[8 + 1] = Virt!DmiPaths[1] /\ Virt!Probes[8 + 2] = Virt!DmiPaths[2]
            /\ Virt!Probes[8 + 3] = Virt!DmiPaths[3] /\ Virt!Probes[8 + 4] = Virt!DmiPaths[4]
            /\ Virt!Probes[8 + 5] = Virt!DmiPaths[5]
        BY Order
      <4>2. \A i \in 1 .. 5 : HitAt(8 + i) = Virt!VmHit(Virt!DmiPaths[i])
        BY Order, ContainerPaths DEF HitAt
      <4>3. HitAt(8 + 5) = Virt!DmiHit
        <5>1. "chassis_asset_tag" \notin Virt!ToSet(Virt!DeviceTreeProbes)
          BY DEF Virt!ToSet, Virt!DeviceTreeProbes
        <5>2. Virt!VmHit("chassis_asset_tag") = Virt!DmiHit
          BY <5>1, LastDmi DEF Virt!VmHit
        <5> QED BY <4>2, <5>2, LastDmi
      <4>4. \A i \in 1 .. 4 : HitAt(8 + i) = "none"
        BY <4>2, OtherDmi
      <4> QED BY <4>3, <4>4
    <3>2. probe > 13 => Virt!DmiHit = "none"
      BY <2>1, <3>1
    <3>3. probe \in 9 .. 12 => answer' = "none"
      BY <2>1, <3>1
    <3>4. probe = 13 => answer' = Virt!DmiHit
      BY <2>1, <3>1
    <3>5. answer' \in Virt!VmIds => Virt!DmiNames = {} \/ (answer' = Virt!DmiHit /\ answer' # "none")
      BY <2>1, <2>5, <3>2, <3>3, <3>4, DmiAnswers, NoContainerIsVm
    <3>6. Virt!DmiNames' = Virt!DmiNames
      BY <2>1, SameFiles
    <3> QED BY <3>5, <3>6, DmiAnswers DEF Virt!ProductNamed
  <2> QED BY <2>3, <2>6, <2>7 DEF VirtInv
<1>2. CASE Virt!ReadError
  BY <1>2, Order DEF Virt!ReadError, Virt!Detecting, VirtInv, Virt!InnermostReported, Virt!ProductNamed, Virt!VmIds
<1>3. CASE UNCHANGED Virt!vars
  <2>1. files' = files /\ probe' = probe /\ answer' = answer
    BY <1>3 DEF Virt!vars
  <2>2. (\A path : Virt!Field(path)' = Virt!Field(path)) /\ (\A rule : Virt!Matches(rule)' = Virt!Matches(rule))
        /\ (\A path : Virt!ContainerHit(path)' = Virt!ContainerHit(path)) /\ (\A i : HitAt(i)' = HitAt(i))
        /\ Virt!DmiNames' = Virt!DmiNames
    BY <2>1, SameFiles
  <2> QED BY <2>1, <2>2 DEF VirtInv, Virt!Detecting, Virt!InnermostReported, Virt!ProductNamed
<1> QED BY <1>1, <1>2, <1>3 DEF Virt!Next

----------------------------------------------------------------------------
(* DNS resolver *)

\* Nothing is cached, and the zone that is asked is one the pending call has seen.
DnsInv ==
    /\ resolver \in {"system", "cloudflare"} => cacheSize = 0
    /\ cached = [type \in Dns!Types |-> Dns!Nothing]
    /\ call # Dns!Idle =>
           zone \in seen /\ call \in Dns!Ops /\ resolver \in {"system", "cloudflare"}

LEMMA DnsInit == Dns!Init => DnsInv
BY DEF Dns!Init, DnsInv

(* Without a cache hickory gives what a server says now, or a failure, and keeps nothing. *)
LEMMA GivenNow ==
    ASSUME DnsInv, call # Dns!Idle
    PROVE  /\ \A type \in Dns!Types : Dns!Given(type) = {Dns!Answer(zone, type)} \cup Dns!Failures
           /\ \A type, ans : Dns!Cache(type, ans) = cached
<1>1. cacheSize = 0
  BY DEF DnsInv
<1>2. \A type \in Dns!Types : cached[type] = Dns!Nothing
  BY DEF DnsInv
<1> QED BY <1>1, <1>2 DEF Dns!Given, Dns!Cache

LEMMA DnsStep == ASSUME DnsInv, [Dns!Next]_Dns!vars PROVE DnsInv'
<1>1. CASE Dns!New
  BY <1>1 DEF Dns!New, Dns!BuildResolver, Dns!NormaliseOptions, Dns!MissingSystemResolverConfig, DnsInv
<1>2. ASSUME NEW conf, Dns!Repair(conf) PROVE DnsInv'
  BY <1>2 DEF Dns!Repair, DnsInv
<1>3. ASSUME NEW c \in Dns!Ops, Dns!Call(c) PROVE DnsInv'
  BY <1>3 DEF Dns!Call, Dns!config, DnsInv
<1>4. ASSUME NEW to, NEW op, NEW type, NEW ans, call # Dns!Idle, Dns!Return(op, to),
             cached' = Dns!Cache(type, ans)
      PROVE  DnsInv'
  <2>1. call' = Dns!Idle /\ UNCHANGED <<resolver, cacheSize, cached>>
    BY <1>4, GivenNow DEF Dns!Return, Dns!config
  <2> QED BY <2>1 DEF DnsInv
<1>5. ASSUME NEW ans, call # Dns!Idle, Dns!ReturnTyped(ans) \/ Dns!ReturnQuery(ans) PROVE DnsInv'
  BY <1>4, <1>5 DEF Dns!ReturnTyped, Dns!ReturnQuery
<1>6. ASSUME NEW a, NEW aaaa, call # Dns!Idle, Dns!ReturnIp(a, aaaa) PROVE DnsInv'
  BY <1>4, <1>6 DEF Dns!ReturnIp
<1>7. ASSUME NEW z, Dns!ChangeZone(z) PROVE DnsInv'
  BY <1>7 DEF Dns!ChangeZone, Dns!config, DnsInv
<1>8. CASE UNCHANGED Dns!vars
  BY <1>8 DEF Dns!vars, Dns!config, DnsInv
<1> QED BY <1>1, <1>2, <1>3, <1>5, <1>6, <1>7, <1>8 DEF Dns!Next

(* What each kind of call makes of the answers of now. *)
Now(records, type) ==
    /\ \A r \in records : \E known \in zone.records :
           r.type = known.type /\ r.data \subseteq known.data
    /\ records = {} => Dns!Answer(zone, type).kind = "no records"

LEMMA AnswerNow ==
    ASSUME NEW type
    PROVE  LET ans == Dns!Answer(zone, type)
           IN  /\ ans.kind \in {"records", "no records"}
               /\ ans.kind = "records" =>
                      /\ ans.records \subseteq zone.records
                      /\ \E r \in ans.records : r.type = type
                      /\ \A r \in ans.records : r.type \in {type, "CNAME"}
               /\ ans.kind = "no records" /\ ans.code # "NXDomain" => zone.exists
BY DEF Dns!Answer, Dns!NoRecords

LEMMA FailureIs == \A ans \in Dns!Failures : ans.kind = "failure" /\ ans.records = {}
BY DEF Dns!Failures, Dns!Failure

LEMMA TypedNow ==
    ASSUME NEW type, NEW ans \in {Dns!Answer(zone, type)} \cup Dns!Failures,
           NEW to, to = IF type = "HTTPS" THEN Dns!Https(ans) ELSE Dns!Addresses(ans, type),
           to.kind = "ok"
    PROVE  Now(to.records, type)
<1>1. CASE ans = Dns!Answer(zone, type)
  <2>1. CASE type = "HTTPS"
    <3> DEFINE services == {x \in ans.records : x.type = "HTTPS"}
    <3>1. CASE ans.kind = "records"
      <4>1. to.records = {Dns!HttpsRecord(x) : x \in services}
        BY <2>1, <3>1 DEF Dns!Https, Dns!Found
      <4>2. \A x \in services : x \in zone.records /\ Dns!HttpsRecord(x).type = x.type
                           /\ Dns!HttpsRecord(x).data \subseteq x.data
        BY <1>1, <3>1, AnswerNow DEF Dns!HttpsRecord, Dns!Record
      <4>3. \E x \in services : TRUE
        BY <1>1, <2>1, <3>1, AnswerNow
      <4> HIDE DEF services
      <4>4. ASSUME NEW r \in to.records
            PROVE  \E known \in zone.records : r.type = known.type /\ r.data \subseteq known.data
        <5>1. PICK x \in services : r = Dns!HttpsRecord(x)
          BY <4>1
        <5> QED BY <4>2, <5>1
      <4>5. to.records # {}
        BY <4>1, <4>3
      <4> QED BY <4>4, <4>5 DEF Now
    <3>2. CASE ans.kind = "no records"
      BY <1>1, <2>1, <3>2 DEF Now, Dns!Https, Dns!Found
    <3>3. ans.kind \in {"records", "no records"}
      BY <1>1, AnswerNow
    <3> QED BY <3>1, <3>2, <3>3
  <2>2. CASE type # "HTTPS"
    BY <1>1, <2>2, AnswerNow DEF Now, Dns!Addresses, Dns!Found, Dns!LookupError
  <2> QED BY <2>1, <2>2
<1>2. CASE ans \in Dns!Failures
  BY <1>2, FailureIs DEF Dns!Https, Dns!Addresses, Dns!LookupError
<1> QED BY <1>1, <1>2

LEMMA QueryNow ==
    ASSUME NEW type, NEW ans \in {Dns!Answer(zone, type)} \cup Dns!Failures,
           Dns!Query(ans).kind = "ok"
    PROVE  /\ Now(Dns!Query(ans).records, type)
           /\ Dns!Query(ans).records = {} => zone.exists
<1>1. CASE ans = Dns!Answer(zone, type)
  BY <1>1, AnswerNow DEF Now, Dns!Query, Dns!NoDataResponse, Dns!Found, Dns!LookupError
<1>2. CASE ans \in Dns!Failures
  BY <1>2, FailureIs DEF Dns!Query, Dns!NoDataResponse, Dns!LookupError
<1> QED BY <1>1, <1>2

LEMMA IpNow ==
    ASSUME NEW a \in {Dns!Answer(zone, "A")} \cup Dns!Failures,
           NEW aaaa \in {Dns!Answer(zone, "AAAA")} \cup Dns!Failures,
           Dns!Ip(a, aaaa).kind = "ok"
    PROVE  Now(Dns!Ip(a, aaaa).records, "A")
<1> DEFINE addresses(ans) == {r \in ans.records : r.type # "CNAME"}
<1> DEFINE Is(ans, type) ==
               /\ ans.kind \in {"records", "no records", "failure"}
               /\ ans.kind # "failure" => ans = Dns!Answer(zone, type)
               /\ ans.kind # "records" => ans.records = {}
<1>1. Is(a, "A") /\ Is(aaaa, "AAAA")
  <2>1. ASSUME NEW type, NEW ans, ans = Dns!Answer(zone, type) PROVE Is(ans, type)
    BY <2>1 DEF Dns!Answer, Dns!NoRecords
  <2>2. ASSUME NEW type, NEW ans \in Dns!Failures PROVE Is(ans, type)
    BY FailureIs
  <2> QED BY <2>1, <2>2
<1>2. CASE "records" \in {a.kind, aaaa.kind}
  <2>1. Dns!Ip(a, aaaa).records = addresses(a) \cup addresses(aaaa)
    BY <1>2 DEF Dns!Ip, Dns!Found
  <2>2. addresses(a) \cup addresses(aaaa) \subseteq zone.records
    BY <1>1, AnswerNow
  <2>3. addresses(a) \cup addresses(aaaa) # {}
    <3>1. ASSUME a.kind = "records" PROVE \E r \in addresses(a) : TRUE
      BY <1>1, <3>1, AnswerNow
    <3>2. ASSUME aaaa.kind = "records" PROVE \E r \in addresses(aaaa) : TRUE
      BY <1>1, <3>2, AnswerNow
    <3> QED BY <1>2, <3>1, <3>2
  <2> QED BY <2>1, <2>2, <2>3 DEF Now
<1>3. CASE "records" \notin {a.kind, aaaa.kind}
  <2>1. a.kind = "no records" /\ Dns!Ip(a, aaaa).records = {}
    BY <1>1, <1>3 DEF Dns!Ip, Dns!Found, Dns!LookupError
  <2> QED BY <1>1, <2>1 DEF Now
<1> QED BY <1>2, <1>3

LEMMA DnsMeans == ASSUME DnsInv, [Dns!Next]_Dns!vars PROVE Dns!AnswerIsCurrent
<1> SUFFICES ASSUME call # Dns!Idle, call' = Dns!Idle, result'.kind = "ok"
             PROVE  /\ \A r \in result'.records : \E z \in seen : \E known \in z.records :
                           r.type = known.type /\ r.data \subseteq known.data
                    /\ result'.records = {} =>
                           \E z \in seen : /\ Dns!Answer(z, call.type).kind = "no records"
                                           /\ call.op = "query" => z.exists
  BY DEF Dns!AnswerIsCurrent, Dns!Returns
<1>1. zone \in seen /\ call \in Dns!Ops
  BY DEF DnsInv
<1>2. call.type \in Dns!Types /\ (call.op = "ip" => call.type = "A")
  BY <1>1 DEF Dns!Ops, Dns!Types
<1>3. ASSUME NEW ans \in Dns!Given(call.type), Dns!ReturnTyped(ans)
      PROVE  Now(result'.records, call.type) /\ call.op # "query"
  <2>1. ans \in {Dns!Answer(zone, call.type)} \cup Dns!Failures
    BY <1>2, <1>3, GivenNow
  <2>2. /\ call.op = "lookup"
        /\ result' = IF call.type = "HTTPS" THEN Dns!Https(ans) ELSE Dns!Addresses(ans, call.type)
    BY <1>3 DEF Dns!ReturnTyped, Dns!Return
  <2> QED BY <2>1, <2>2, TypedNow
<1>4. ASSUME NEW ans \in Dns!Given(call.type), Dns!ReturnQuery(ans)
      PROVE  Now(result'.records, call.type) /\ (result'.records = {} => zone.exists)
  <2>1. ans \in {Dns!Answer(zone, call.type)} \cup Dns!Failures
    BY <1>2, <1>4, GivenNow
  <2>2. result' = Dns!Query(ans)
    BY <1>4 DEF Dns!ReturnQuery, Dns!Return
  <2> QED BY <2>1, <2>2, QueryNow
<1>5. ASSUME NEW a \in Dns!Given("A"), NEW aaaa \in Dns!Given("AAAA"), Dns!ReturnIp(a, aaaa)
      PROVE  Now(result'.records, call.type) /\ call.op # "query"
  <2>1. /\ a \in {Dns!Answer(zone, "A")} \cup Dns!Failures
        /\ aaaa \in {Dns!Answer(zone, "AAAA")} \cup Dns!Failures
    BY <1>5, GivenNow DEF Dns!Types
  <2>2. call.op = "ip" /\ result' = Dns!Ip(a, aaaa)
    BY <1>5 DEF Dns!ReturnIp, Dns!Return
  <2> QED BY <1>2, <2>1, <2>2, IpNow
<1>6. Now(result'.records, call.type) /\ (call.op = "query" /\ result'.records = {} => zone.exists)
  <2>1. CASE Dns!New \/ \E conf \in {"servers", "NotFound"} : Dns!Repair(conf)
    BY <2>1 DEF Dns!New, Dns!Repair
  <2>2. CASE \E c \in Dns!Ops : Dns!Call(c)
    BY <2>2 DEF Dns!Call
  <2>3. CASE \E z \in Dns!Zones : Dns!ChangeZone(z)
    BY <2>3 DEF Dns!ChangeZone
  <2>4. CASE UNCHANGED Dns!vars
    BY <2>4 DEF Dns!vars
  <2> QED BY <1>3, <1>4, <1>5, <2>1, <2>2, <2>3, <2>4 DEF Dns!Next
<1> QED BY <1>1, <1>6 DEF Now

----------------------------------------------------------------------------
(* The libraries together: a behaviour is about one part, and stays with it. *)

Parts == {"lowering", "h3", "virt", "dns", "bootstrap", "new-submodule", "vendor-upstream", "hf-fetch"}

LibrariesInv ==
    /\ part = "h3" => H3Inv
    /\ part = "virt" => VirtInv
    /\ part = "dns" => DnsInv

LEMMA LibrariesInit == Init => LibrariesInv
<1>1. Init => \/ part = "h3" /\ H3!Init
              \/ part = "virt" /\ Virt!Init
              \/ part = "dns" /\ Dns!Init
              \/ part \in Parts \ {"h3", "virt", "dns"}
  BY DEF Init, PartInit, Parts
<1> QED BY <1>1, H3Init, VirtInit, DnsInit DEF LibrariesInv, Parts

(* A step of the whole is a step of the part the behaviour is about, or a stutter of it. *)
LEMMA LibraryStep ==
    ASSUME [Next]_vars
    PROVE  /\ part' = part
           /\ part = "h3" => [H3!Next]_H3!vars
           /\ part = "virt" => [Virt!Next]_Virt!vars
           /\ part = "dns" => [Dns!Next]_Dns!vars
<1>1. CASE UNCHANGED vars
  <2>1. UNCHANGED <<part, h3, virt, dns, files>>
    BY <1>1 DEF vars, libraries
  <2>2. UNCHANGED H3!vars /\ UNCHANGED Virt!vars /\ UNCHANGED Dns!vars
    BY <2>1 DEF h3, virt, dns, H3!vars, H3!opener, H3!sender, H3!receiver, Virt!vars, Dns!vars, Dns!config
  <2> QED BY <2>1, <2>2
<1>2. CASE Next
  <2>1. CASE PartNext
    BY <2>1 DEF PartNext, Of
  <2>2. CASE part = "lowering" /\ part' = part
    BY <2>2
  <2> QED BY <1>2, <2>1, <2>2 DEF Next, Of
<1> QED BY <1>1, <1>2

LEMMA LibrariesStep == LibrariesInv /\ [Next]_vars => LibrariesInv'
BY LibraryStep, H3Step, VirtStep, DnsStep DEF LibrariesInv

THEOREM LibrariesInvariant == Spec => []LibrariesInv
BY LibrariesInit, LibrariesStep, PTL DEF Spec

(* What the receiver of a stream was handed is a prefix of what the sender wrote, byte by   *)
(* byte, and a stream that ended well was handed whole: neither stop_sending, a reset nor    *)
(* the loss of the connection reorders, repeats or silently drops bytes.                     *)
THEOREM StreamFaithful == Spec => []FaithfulStream
<1>1. LibrariesInv => FaithfulStream
  BY H3Means DEF LibrariesInv, FaithfulStream
<1> QED BY <1>1, LibrariesInvariant, PTL

(* Whatever files there are to read, in whatever number: a virtual machine is the answer of *)
(* detect only when no file speaks for a container.                                         *)
THEOREM Innermost == Spec => []InnermostReported
<1>1. LibrariesInv => InnermostReported
  BY DEF LibrariesInv, VirtInv, InnermostReported
<1> QED BY <1>1, LibrariesInvariant, PTL

(* A machine DMI has a name for gets one of those names, QEMU's only when it has no other and *)
(* Xen's only when it names no product; a KVM mark is answered before any product.           *)
THEOREM Product == Spec => []ProductNamed
<1>1. LibrariesInv => ProductNamed
  BY DEF LibrariesInv, VirtInv, ProductNamed
<1> QED BY <1>1, LibrariesInvariant, PTL

(* Every answer of the resolver is what the zone held at some time during the call. *)
THEOREM AnswersCurrent == Spec => NoStaleAnswer
<1>1. LibrariesInv /\ [Next]_vars => [part = "dns" => Dns!AnswerIsCurrent]_vars
  BY LibraryStep, DnsMeans DEF LibrariesInv
<1> QED BY <1>1, LibrariesInvariant, PTL DEF Spec, NoStaleAnswer
=============================================================================
