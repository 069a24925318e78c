------------------------- MODULE WriteBufferProofs -------------------------
(***************************************************************************)
(* Theorems about WriteBuffer, for every set of tasks, every assignment of *)
(* idempotency keys, every buffer size, and any number of starts and of    *)
(* attempts at shutdown.                                                   *)
(***************************************************************************)
EXTENDS WriteBuffer, SequenceTheorems, TLAPS

----------------------------------------------------------------------------
(* Sequences                                                               *)

\* The elements of a sequence.
LEMMA SeqElems ==
  ASSUME NEW S, NEW s \in Seq(S)
  PROVE  /\ Len(s) \in Nat /\ DOMAIN s = 1 .. Len(s)
         /\ \A i \in DOMAIN s : s[i] \in S
         /\ ToSet(s) \subseteq S
         /\ \A x : x \in ToSet(s) <=> \E i \in DOMAIN s : s[i] = x
         /\ s = <<>> <=> Len(s) = 0
BY EmptySeq DEF ToSet

\* One more at the end.
LEMMA AppendElems ==
  ASSUME NEW S, NEW s \in Seq(S), NEW x \in S
  PROVE  /\ Append(s, x) \in Seq(S) /\ Append(s, x) # <<>>
         /\ Len(Append(s, x)) = Len(s) + 1
         /\ \A i \in 1 .. Len(s) : Append(s, x)[i] = s[i]
         /\ Append(s, x)[Len(s) + 1] = x
         /\ ToSet(Append(s, x)) = ToSet(s) \union {x}
<1> DEFINE a == Append(s, x)
<1>1. /\ a \in Seq(S) /\ a # <<>> /\ Len(a) = Len(s) + 1
      /\ \A i \in 1 .. Len(s) : a[i] = s[i]
      /\ a[Len(s) + 1] = x
  BY AppendProperties
<1>2. Len(s) \in Nat /\ DOMAIN s = 1 .. Len(s) /\ DOMAIN a = 1 .. Len(s) + 1
  BY <1>1, SeqElems
<1> HIDE DEF a
<1>3. \A y : y \in ToSet(a) <=> y \in ToSet(s) \/ y = x
  BY <1>1, <1>2 DEF ToSet
<1> QED
  BY <1>1, <1>3 DEF a

\* The first taken away.
LEMMA TailElems ==
  ASSUME NEW S, NEW s \in Seq(S), s # <<>>
  PROVE  /\ Head(s) = s[1] /\ Head(s) \in S /\ Len(s) >= 1
         /\ Tail(s) \in Seq(S) /\ Len(Tail(s)) = Len(s) - 1
         /\ \A i \in 1 .. Len(s) - 1 : Tail(s)[i] = s[i + 1]
         /\ ToSet(s) = {Head(s)} \union ToSet(Tail(s))
<1> DEFINE t == Tail(s)
<1>1. /\ Head(s) = s[1] /\ Head(s) \in S /\ Len(s) \in Nat /\ Len(s) >= 1
      /\ t \in Seq(S) /\ Len(t) = Len(s) - 1
      /\ \A i \in 1 .. Len(s) - 1 : t[i] = s[i + 1]
  BY HeadTailProperties, EmptySeq
<1>2. DOMAIN s = 1 .. Len(s) /\ DOMAIN t = 1 .. Len(s) - 1
  BY <1>1, SeqElems
<1> HIDE DEF t
<1>3. ASSUME NEW y \in ToSet(s) PROVE y = Head(s) \/ y \in ToSet(t)
  <2>1. PICK i \in 1 .. Len(s) : y = s[i]
    BY <1>2 DEF ToSet
  <2>2. i = 1 \/ (i - 1 \in 1 .. Len(s) - 1 /\ t[i - 1] = s[i])
    BY <1>1
  <2> QED
    BY <1>1, <1>2, <2>1, <2>2 DEF ToSet
<1>4. ASSUME NEW y \in ToSet(t) PROVE y \in ToSet(s)
  <2>1. PICK i \in 1 .. Len(s) - 1 : y = t[i]
    BY <1>2 DEF ToSet
  <2>2. i + 1 \in 1 .. Len(s) /\ y = s[i + 1]
    BY <1>1, <2>1
  <2> QED
    BY <1>2, <2>2 DEF ToSet
<1>5. Head(s) \in ToSet(s)
  BY <1>1, <1>2 DEF ToSet
<1> QED
  BY <1>1, <1>3, <1>4, <1>5 DEF t

\* Two in a row.
LEMMA ConcatElems ==
  ASSUME NEW S, NEW s \in Seq(S), NEW t \in Seq(S)
  PROVE  /\ s \o t \in Seq(S) /\ Len(s \o t) = Len(s) + Len(t)
         /\ \A i \in 1 .. Len(s) : (s \o t)[i] = s[i]
         /\ \A i \in 1 .. Len(t) : (s \o t)[Len(s) + i] = t[i]
         /\ ToSet(s \o t) = ToSet(s) \union ToSet(t)
<1> DEFINE a == s \o t
<1>0. /\ Len(s) \in Nat /\ DOMAIN s = 1 .. Len(s)
      /\ Len(t) \in Nat /\ DOMAIN t = 1 .. Len(t)
  BY SeqElems
<1>1. /\ a \in Seq(S) /\ Len(a) = Len(s) + Len(t)
      /\ \A i \in 1 .. Len(s) + Len(t) : a[i] = IF i <= Len(s) THEN s[i] ELSE t[i - Len(s)]
  BY ConcatProperties
<1>2. DOMAIN a = 1 .. Len(s) + Len(t)
  BY <1>1, SeqElems
<1> HIDE DEF a
<1>a. ASSUME NEW i \in 1 .. Len(t)
      PROVE  Len(s) + i \in 1 .. Len(s) + Len(t) /\ a[Len(s) + i] = t[i]
  <2>1. /\ Len(s) + i \in 1 .. Len(s) + Len(t) /\ ~(Len(s) + i <= Len(s))
        /\ (Len(s) + i) - Len(s) = i
    BY <1>0
  <2> QED
    BY <1>1, <2>1
<1>3. \A i \in 1 .. Len(s) : a[i] = s[i]
  BY <1>0, <1>1
<1>4. ASSUME NEW y \in ToSet(a) PROVE y \in ToSet(s) \/ y \in ToSet(t)
  <2>1. PICK i \in 1 .. Len(s) + Len(t) : y = a[i]
    BY <1>2 DEF ToSet
  <2>2. CASE i <= Len(s)
    BY <1>0, <1>1, <2>1, <2>2 DEF ToSet
  <2>3. CASE ~(i <= Len(s))
    <3>1. i - Len(s) \in 1 .. Len(t) /\ y = t[i - Len(s)]
      BY <1>0, <1>1, <2>1, <2>3
    <3> QED
      BY <1>0, <3>1 DEF ToSet
  <2> QED
    BY <2>2, <2>3
<1>5. ToSet(s) \subseteq ToSet(a)
  BY <1>0, <1>2, <1>3 DEF ToSet
<1>6. ToSet(t) \subseteq ToSet(a)
  BY <1>0, <1>2, <1>a DEF ToSet
<1> QED
  BY <1>1, <1>a, <1>3, <1>4, <1>5, <1>6 DEF a

\* One taken out of the middle.
LEMMA RemoveElems ==
  ASSUME NEW S, NEW s \in Seq(S), NEW k \in DOMAIN s
  PROVE  /\ RemoveAt(s, k) \in Seq(S) /\ Len(RemoveAt(s, k)) = Len(s) - 1
         /\ \A i \in 1 .. Len(s) - 1 : RemoveAt(s, k)[i] = IF i < k THEN s[i] ELSE s[i + 1]
<1> DEFINE l == SubSeq(s, 1, k - 1)
           r == SubSeq(s, k + 1, Len(s))
<1>0. /\ Len(s) \in Nat /\ DOMAIN s = 1 .. Len(s) /\ k \in 1 .. Len(s)
      /\ \A i \in 1 .. Len(s) : s[i] \in S
  BY SeqElems
<1>1. /\ l \in Seq(S) /\ Len(l) = k - 1 /\ \A i \in 1 .. k - 1 : l[i] = s[i]
  BY <1>0, SubSeqProperties
<1>2. /\ r \in Seq(S) /\ Len(r) = Len(s) - k
      /\ \A i \in 1 .. Len(s) - k : r[i] = s[k + i]
  BY <1>0, SubSeqProperties
<1> HIDE DEF l, r
<1>3. /\ l \o r \in Seq(S) /\ Len(l \o r) = (k - 1) + (Len(s) - k)
      /\ \A i \in 1 .. k - 1 : (l \o r)[i] = l[i]
      /\ \A i \in 1 .. Len(s) - k : (l \o r)[(k - 1) + i] = r[i]
  BY <1>1, <1>2, ConcatElems
<1>4. (k - 1) + (Len(s) - k) = Len(s) - 1
  BY <1>0
<1>5. ASSUME NEW i \in 1 .. Len(s) - 1
      PROVE  (l \o r)[i] = IF i < k THEN s[i] ELSE s[i + 1]
  <2>1. CASE i < k
    <3>1. i \in 1 .. k - 1
      BY <1>0, <2>1
    <3> QED
      BY <1>1, <1>3, <2>1, <3>1
  <2>2. CASE ~(i < k)
    <3>1. /\ i - (k - 1) \in 1 .. Len(s) - k /\ (k - 1) + (i - (k - 1)) = i
          /\ k + (i - (k - 1)) = i + 1
      BY <1>0, <2>2
    <3>2. (l \o r)[i] = r[i - (k - 1)]
      BY <1>3, <3>1
    <3> QED
      BY <1>2, <2>2, <3>1, <3>2
  <2> QED
    BY <2>1, <2>2
<1> QED
  BY <1>3, <1>4, <1>5 DEF RemoveAt, l, r

----------------------------------------------------------------------------
(* The lock.  Whoever stands in its queue has asked for it and not left;   *)
(* only its holder flushes; close() stands at the end, because nobody asks *)
(* once _closing is set.                                                   *)

\* c awaits a flush.
Flushing(c) == \/ c \in Tasks /\ call[c].pc = "flushing"
               \/ c = "timer" /\ timer = "flush"
               \/ c = "closer" /\ closer.pc = "flush"
               \/ c = "starter"

\* c is where it awaits the lock, or holds it.
Asked(c) == \/ c \in Tasks /\ call[c].pc \in {"waiting", "flushing"} /\ Up
            \/ c = "timer" /\ timer \in {"wait", "flush"}
            \/ c = "closer" /\ closer.pc \in {"wait", "flush"}
            \/ c = "starter" /\ boot.process = "starting" /\ boot.reading \in boot.pending

LockInv ==
  /\ lock \in Seq(Actors) /\ IsInjective(lock)
  /\ \A i \in DOMAIN lock : Asked(lock[i])
  /\ \A i \in DOMAIN lock : i # 1 => ~Flushing(lock[i])
  /\ \A i \in DOMAIN lock : lock[i] = "closer" => i = Len(lock)

\* The flush in progress is the holder's, and the buffer is empty meanwhile.
FlushInv ==
  /\ batch # <<>> <=> lock # <<>> /\ Flushing(Head(lock))
  /\ batch # <<>> => buffer = <<>>

\* A step that concerns c only, as far as the lock is concerned.
Elsewhere(c) == \A d \in Actors : Asked(d) /\ d # c =>
                  Asked(d)' /\ (Flushing(d)' <=> Flushing(d))

\* The lock's queue as positions.
LEMMA LockElems ==
  ASSUME LockInv
  PROVE  /\ Len(lock) \in Nat /\ DOMAIN lock = 1 .. Len(lock)
         /\ \A i \in 1 .. Len(lock) : lock[i] \in Actors
         /\ \A i, j \in 1 .. Len(lock) : lock[i] = lock[j] => i = j
         /\ lock = <<>> <=> Len(lock) = 0
         /\ lock # <<>> => Head(lock) = lock[1]
BY SeqElems, TailElems DEF LockInv, IsInjective

\* LockInv by positions.
LEMMA LockInvBy ==
  ASSUME lock' \in Seq(Actors),
         \A i, j \in 1 .. Len(lock') : lock'[i] = lock'[j] => i = j,
         \A i \in 1 .. Len(lock') : Asked(lock[i])',
         \A i \in 1 .. Len(lock') : i # 1 => ~Flushing(lock[i])',
         \A i \in 1 .. Len(lock') : lock'[i] = "closer" => i = Len(lock')
  PROVE  LockInv'
<1>1. DOMAIN lock' = 1 .. Len(lock')
  BY SeqElems
<1> QED
  BY <1>1 DEF LockInv, IsInjective

\* Nobody enters or leaves the queue.
LEMMA LockStays ==
  ASSUME LockInv, lock' = lock,
         \A d \in Actors : Asked(d) => Asked(d)' /\ (Flushing(d)' <=> Flushing(d))
  PROVE  LockInv' /\ (lock # <<>> => (Flushing(Head(lock))' <=> Flushing(Head(lock))))
<1>1. \A i \in DOMAIN lock : lock[i] \in Actors /\ Asked(lock[i])
  BY LockElems DEF LockInv
<1>2. \A i \in DOMAIN lock : Asked(lock[i])' /\ (Flushing(lock[i])' <=> Flushing(lock[i]))
  <2>1. ASSUME NEW i \in DOMAIN lock
        PROVE  Asked(lock[i])' /\ (Flushing(lock[i])' <=> Flushing(lock[i]))
    <3>1. PICK d \in Actors : d = lock[i]
      BY <1>1
    <3>2. Asked(d)' /\ (Flushing(d)' <=> Flushing(d))
      BY <1>1, <3>1
    <3>3. lock'[i] = d
      BY <3>1
    <3> QED
      BY <3>1, <3>2, <3>3
  <2> QED
    BY <2>1
<1>3. LockInv'
  BY <1>2 DEF LockInv
<1>4. lock # <<>> => Head(lock) = lock[1] /\ 1 \in DOMAIN lock
  BY LockElems
<1> QED
  BY <1>2, <1>3, <1>4

\* c asks for the lock, and waits, or finds it free and flushes.
LEMMA LockAsked ==
  ASSUME LockInv, NEW c \in Actors, ~Asked(c), ~Asked("closer"), lock' = Append(lock, c),
         Asked(c)', lock = <<>> \/ ~Flushing(c)', Elsewhere(c)
  PROVE  /\ LockInv' /\ lock' # <<>>
         /\ lock = <<>> => Head(lock') = c
         /\ lock # <<>> => Head(lock') = Head(lock)
                           /\ (Flushing(Head(lock))' <=> Flushing(Head(lock)))
<1> DEFINE n == Len(lock)
<1>1. /\ n \in Nat /\ DOMAIN lock = 1 .. n
      /\ \A i \in 1 .. n : lock[i] \in Actors /\ Asked(lock[i])
      /\ \A i, j \in 1 .. n : lock[i] = lock[j] => i = j
      /\ \A i \in 1 .. n : i # 1 => ~Flushing(lock[i])
      /\ lock = <<>> <=> n = 0
      /\ lock # <<>> => Head(lock) = lock[1]
  BY LockElems DEF LockInv
<1>2. /\ lock' \in Seq(Actors) /\ lock' # <<>> /\ Len(lock') = n + 1
      /\ \A i \in 1 .. n : lock'[i] = lock[i]
      /\ lock'[n + 1] = c /\ Head(lock') = lock'[1]
  <2>1. lock \in Seq(Actors)
    BY DEF LockInv
  <2>2. lock' \in Seq(Actors) /\ lock' # <<>>
    BY <2>1, AppendElems
  <2> QED
    BY <2>1, <2>2, AppendElems, TailElems
<1>3. ASSUME NEW i \in 1 .. n
      PROVE  /\ lock'[i] # c /\ lock'[i] # "closer" /\ Asked(lock[i])'
             /\ Flushing(lock[i])' <=> Flushing(lock[i])
  <2>1. PICK d \in Actors : d = lock[i]
    BY <1>1
  <2>2. Asked(d) /\ d # c /\ d # "closer"
    BY <1>1, <2>1
  <2>3. Asked(d)' /\ (Flushing(d)' <=> Flushing(d)) /\ lock'[i] = d
    BY <1>2, <2>1, <2>2 DEF Elsewhere
  <2> QED
    BY <2>1, <2>2, <2>3
<1>4. \A i \in 1 .. n + 1 : i \in 1 .. n \/ i = n + 1
  BY <1>1
<1>5. n + 1 \notin 1 .. n /\ (n + 1 # 1 => lock # <<>>)
  BY <1>1
<1>6. LockInv'
  <2>1. \A i, j \in 1 .. n + 1 : lock'[i] = lock'[j] => i = j
    BY <1>1, <1>2, <1>3, <1>4
  <2>2. \A i \in 1 .. n + 1 : Asked(lock[i])'
    BY <1>2, <1>3, <1>4
  <2>3. \A i \in 1 .. n + 1 : i # 1 => ~Flushing(lock[i])'
    BY <1>1, <1>2, <1>3, <1>4, <1>5
  <2>4. \A i \in 1 .. n + 1 : lock'[i] = "closer" => i = n + 1
    BY <1>3, <1>4
  <2> HIDE DEF n
  <2> QED
    BY <1>2, <2>1, <2>2, <2>3, <2>4, LockInvBy
<1>7. lock = <<>> => Head(lock') = c
  BY <1>1, <1>2
<1>8. ASSUME lock # <<>>
      PROVE  Head(lock') = Head(lock) /\ (Flushing(Head(lock))' <=> Flushing(Head(lock)))
  <2>1. 1 \in 1 .. n /\ Head(lock) = lock[1]
    BY <1>1, <1>8
  <2> QED
    BY <1>2, <1>3, <2>1
<1> QED
  BY <1>2, <1>6, <1>7, <1>8

\* The holder releases the lock.
LEMMA LockReleased ==
  ASSUME LockInv, NEW c \in Actors, Holds(c), lock' = Tail(lock), Elsewhere(c)
  PROVE  /\ LockInv'
         /\ lock' # <<>> => ~Flushing(Head(lock))'
         /\ c = "closer" => lock' = <<>>
<1> DEFINE n == Len(lock)
<1>1. /\ n \in Nat /\ DOMAIN lock = 1 .. n
      /\ \A i \in 1 .. n : lock[i] \in Actors /\ Asked(lock[i])
      /\ \A i, j \in 1 .. n : lock[i] = lock[j] => i = j
      /\ \A i \in 1 .. n : i # 1 => ~Flushing(lock[i])
      /\ \A i \in 1 .. n : lock[i] = "closer" => i = n
      /\ lock # <<>> /\ n >= 1 /\ lock[1] = c
  BY LockElems DEF LockInv, Holds
<1>0. n \in Nat /\ n >= 1
  BY <1>1
<1>2. /\ lock' \in Seq(Actors) /\ Len(lock') = n - 1
      /\ \A i \in 1 .. n - 1 : lock'[i] = lock[i + 1]
      /\ lock' # <<>> => Head(lock') = lock'[1] /\ 1 \in 1 .. n - 1
  <2>1. lock \in Seq(Actors)
    BY DEF LockInv
  <2>2. /\ lock' \in Seq(Actors) /\ Len(lock') = n - 1
        /\ \A i \in 1 .. n - 1 : lock'[i] = lock[i + 1]
    BY <1>1, <2>1, TailElems
  <2>3. lock' # <<>> => Head(lock') = lock'[1] /\ Len(lock') >= 1
    BY <2>2, TailElems
  <2>4. Len(lock') >= 1 => 1 \in 1 .. n - 1
    BY <1>0, <2>2
  <2> QED
    BY <2>2, <2>3, <2>4
<1> HIDE DEF n
<1>3. ASSUME NEW i \in 1 .. n - 1
      PROVE  Asked(lock[i])' /\ ~Flushing(lock[i])' /\ i + 1 \in 1 .. n
  <2>0. i + 1 \in 1 .. n /\ i + 1 # 1 /\ 1 \in 1 .. n
    BY <1>0
  <2>1. PICK d \in Actors : d = lock[i + 1]
    BY <1>1, <2>0
  <2>2. Asked(d) /\ d # c /\ ~Flushing(d)
    BY <1>1, <2>0, <2>1
  <2>3. Asked(d)' /\ ~Flushing(d)' /\ lock'[i] = d
    BY <1>2, <2>1, <2>2 DEF Elsewhere
  <2> QED
    BY <2>0, <2>3
<1>4. LockInv'
  <2>1. \A i, j \in 1 .. n - 1 : lock'[i] = lock'[j] => i = j
    <3>1. ASSUME NEW i \in 1 .. n - 1, NEW j \in 1 .. n - 1, lock'[i] = lock'[j] PROVE i = j
      <4>1. i + 1 \in 1 .. n /\ j + 1 \in 1 .. n /\ lock[i + 1] = lock[j + 1]
        BY <1>2, <1>3, <3>1
      <4>2. i + 1 = j + 1
        BY <1>1, <4>1
      <4> QED
        BY <4>2
    <3> QED
      BY <3>1
  <2>2. \A i \in 1 .. n - 1 : Asked(lock[i])' /\ ~Flushing(lock[i])'
    BY <1>3
  <2>3. \A i \in 1 .. n - 1 : lock'[i] = "closer" => i = n - 1
    <3>1. ASSUME NEW i \in 1 .. n - 1, lock'[i] = "closer" PROVE i = n - 1
      <4>1. i + 1 = n
        BY <1>1, <1>2, <1>3, <3>1
      <4> QED
        BY <1>0, <4>1
    <3> QED
      BY <3>1
  <2> QED
    BY <1>2, <2>1, <2>2, <2>3, LockInvBy
<1>5. lock' # <<>> => ~Flushing(Head(lock))'
  BY <1>2, <1>3
<1>6. c = "closer" => lock' = <<>>
  <2>1. c = "closer" => n = 1
    BY <1>0, <1>1
  <2>2. c = "closer" => Len(lock') = 0
    BY <1>2, <2>1
  <2> QED
    BY <1>2, <2>2, SeqElems
<1> QED
  BY <1>4, <1>5, <1>6

\* The holder begins or goes on with a flush.
LEMMA LockKept ==
  ASSUME LockInv, NEW c \in Actors, Holds(c), lock' = lock, Asked(c)', Elsewhere(c)
  PROVE  LockInv' /\ lock' # <<>> /\ Head(lock') = c
<1>1. /\ Len(lock) \in Nat /\ DOMAIN lock = 1 .. Len(lock)
      /\ \A i \in 1 .. Len(lock) : lock[i] \in Actors /\ Asked(lock[i])
      /\ \A i, j \in 1 .. Len(lock) : lock[i] = lock[j] => i = j
      /\ \A i \in 1 .. Len(lock) : i # 1 => ~Flushing(lock[i])
      /\ lock # <<>> /\ 1 \in 1 .. Len(lock) /\ lock[1] = c
  BY LockElems DEF LockInv, Holds
<1>2. ASSUME NEW i \in 1 .. Len(lock) PROVE Asked(lock[i])' /\ (i # 1 => ~Flushing(lock[i])')
  <2>1. PICK d \in Actors : d = lock[i]
    BY <1>1
  <2>2. lock'[i] = d /\ (i # 1 => d # c /\ ~Flushing(d)) /\ (i = 1 => d = c) /\ Asked(d)
    BY <1>1, <2>1
  <2>3. Asked(d)' /\ (i # 1 => ~Flushing(d)')
    BY <2>2 DEF Elsewhere
  <2> QED
    BY <2>2, <2>3
<1>3. LockInv'
  BY <1>1, <1>2 DEF LockInv
<1> QED
  BY <1>1, <1>3 DEF Holds

\* c is cancelled while it waits.
LEMMA LockLeft ==
  ASSUME LockInv, NEW c \in Actors, Leave(c), ~Flushing(c), Elsewhere(c)
  PROVE  /\ LockInv'
         /\ (lock # <<>> /\ Flushing(Head(lock))) <=> (lock' # <<>> /\ Flushing(Head(lock))')
         /\ lock # <<>> /\ Flushing(Head(lock)) => Head(lock') = Head(lock)
<1> DEFINE n == Len(lock)
<1>1. /\ n \in Nat /\ DOMAIN lock = 1 .. n
      /\ \A i \in 1 .. n : lock[i] \in Actors /\ Asked(lock[i])
      /\ \A i, j \in 1 .. n : lock[i] = lock[j] => i = j
      /\ \A i \in 1 .. n : i # 1 => ~Flushing(lock[i])
      /\ \A i \in 1 .. n : lock[i] = "closer" => i = n
      /\ lock = <<>> <=> n = 0
      /\ lock # <<>> => Head(lock) = lock[1]
  BY LockElems DEF LockInv
<1>0. n \in Nat
  BY <1>1
<1>2. PICK k \in 1 .. n : lock[k] = c /\ lock' = RemoveAt(lock, k)
  BY <1>1 DEF Leave
<1>3. /\ lock' \in Seq(Actors) /\ Len(lock') = n - 1
      /\ \A i \in 1 .. n - 1 : lock'[i] = IF i < k THEN lock[i] ELSE lock[i + 1]
      /\ lock' # <<>> => Head(lock') = lock'[1] /\ 1 \in 1 .. n - 1
  <2>1. lock \in Seq(Actors)
    BY DEF LockInv
  <2>2. /\ lock' \in Seq(Actors) /\ Len(lock') = n - 1
        /\ \A i \in 1 .. n - 1 : lock'[i] = IF i < k THEN lock[i] ELSE lock[i + 1]
    <3>1. k \in DOMAIN lock
      BY <1>1
    <3> QED
      BY <1>2, <2>1, <3>1, RemoveElems
  <2>3. lock' # <<>> => Head(lock') = lock'[1] /\ Len(lock') >= 1
    BY <2>2, TailElems
  <2>4. Len(lock') >= 1 => 1 \in 1 .. n - 1
    BY <1>0, <2>2
  <2> QED
    BY <2>2, <2>3, <2>4
<1> HIDE DEF n
\* Where the elements come from.
<1> DEFINE from(i) == IF i < k THEN i ELSE i + 1
<1>4. ASSUME NEW i \in 1 .. n - 1
      PROVE  from(i) \in 1 .. n /\ from(i) # k /\ lock'[i] = lock[from(i)]
  <2>1. from(i) \in 1 .. n /\ from(i) # k
    BY <1>0
  <2> QED
    BY <1>3, <2>1
<1>5. ASSUME NEW i \in 1 .. n - 1
      PROVE  Asked(lock[i])' /\ (Flushing(lock[i])' <=> from(i) = 1 /\ Flushing(lock[1]))
  <2>1. PICK d \in Actors : d = lock[from(i)]
    BY <1>1, <1>4
  <2>2. Asked(d) /\ d # c /\ lock'[i] = d /\ (from(i) # 1 => ~Flushing(d))
    BY <1>1, <1>2, <1>4, <2>1
  <2>3. Asked(d)' /\ (Flushing(d)' <=> Flushing(d))
    BY <2>2 DEF Elsewhere
  <2> QED
    BY <2>1, <2>2, <2>3
<1>6. \A i, j \in 1 .. n - 1 : from(i) = from(j) => i = j
  BY <1>0
<1>b. \A i \in 1 .. n - 1 : (i # 1 => from(i) # 1) /\ (from(i) = n => i = n - 1)
  BY <1>0
<1> HIDE DEF from
<1>7. LockInv'
  <2>1. \A i, j \in 1 .. n - 1 : lock'[i] = lock'[j] => i = j
    BY <1>1, <1>4, <1>6
  <2>2. \A i \in 1 .. n - 1 : Asked(lock[i])'
    BY <1>5
  <2>3. \A i \in 1 .. n - 1 : i # 1 => ~Flushing(lock[i])'
    BY <1>5, <1>b
  <2>4. \A i \in 1 .. n - 1 : lock'[i] = "closer" => i = n - 1
    <3>1. ASSUME NEW i \in 1 .. n - 1, lock'[i] = "closer" PROVE i = n - 1
      <4>1. from(i) = n
        BY <1>1, <1>4, <3>1
      <4> QED
        BY <1>b, <4>1
    <3> QED
      BY <3>1
  <2> QED
    BY <1>3, <2>1, <2>2, <2>3, <2>4, LockInvBy
<1>8. (lock # <<>> /\ Flushing(Head(lock)))
        => (lock' # <<>> /\ Flushing(Head(lock))' /\ Head(lock') = Head(lock))
  <2> SUFFICES ASSUME lock # <<>>, Flushing(Head(lock))
               PROVE  lock' # <<>> /\ Flushing(Head(lock))' /\ Head(lock') = Head(lock)
    OBVIOUS
  <2>1. Flushing(lock[1]) /\ k # 1
    BY <1>1, <1>2
  <2>2. 1 \in 1 .. n - 1 /\ from(1) = 1
    BY <1>0, <2>1 DEF from
  <2>3. lock' # <<>>
    BY <1>3, <2>2, EmptySeq
  <2>4. Head(lock') = Head(lock)
    BY <1>1, <1>3, <1>4, <2>2, <2>3
  <2> QED
    BY <1>3, <1>5, <2>1, <2>2, <2>3, <2>4
<1>9. (lock' # <<>> /\ Flushing(Head(lock))') => (lock # <<>> /\ Flushing(Head(lock)))
  <2>1. lock' # <<>> => lock # <<>>
    BY <1>0, <1>1, <1>3
  <2> QED
    BY <1>1, <1>3, <1>5, <2>1
<1> QED
  BY <1>7, <1>8, <1>9

----------------------------------------------------------------------------
(* The control invariant: shapes, the lock, the flush in progress, and     *)
(* what is over once _closing is set.                                      *)

CallShape == call = [t \in Tasks |-> [pc |-> call[t].pc, answer |-> call[t].answer]]

Shape ==
  /\ files \subseteq Seq(Tasks) \ {<<>>}
  /\ buffer \in Seq(Tasks) /\ batch \in Seq(Tasks) /\ todo \in Seq(Tasks)
  /\ CallShape
  /\ timer \in {"off", "sleep", "wait", "flush"}
  /\ closer \in [pc : {"none", "enter", "wait", "flush", "closed", "failed"},
                 attempt : 0 .. CloseAttempts]
  /\ boot \in [process : {"down", "starting", "up"}, pending : SUBSET files,
               reading : Seq(Tasks), starts : 0 .. MaxStarts]

CloseInv ==
  /\ ~Open => Up /\ timer = "off"
  /\ closer.pc \in {"closed", "failed"} => lock = <<>>
  /\ closer.pc = "closed" => buffer = <<>>

CtrlInv == Shape /\ LockInv /\ FlushInv /\ CloseInv

\* What Goto and Returns do to the submit calls.
LEMMA CallMoves ==
  ASSUME CallShape, NEW t \in Tasks
  PROVE  /\ \A pc : Goto(t, pc) =>
              /\ CallShape' /\ call'[t].pc = pc /\ call'[t].answer = call[t].answer
              /\ \A u \in Tasks : u # t => call'[u] = call[u]
         /\ \A id : Returns(t, id) =>
              /\ CallShape' /\ call'[t].pc = "done" /\ call'[t].answer = id
              /\ \A u \in Tasks : u # t => call'[u] = call[u]
<1>1. \A u \in Tasks : call[u] = [pc |-> call[u].pc, answer |-> call[u].answer]
  BY DEF CallShape
<1>2. DOMAIN call = Tasks
  BY DEF CallShape
<1>3. ASSUME NEW r, call' = [call EXCEPT ![t] = r], r = [pc |-> r.pc, answer |-> r.answer]
      PROVE  CallShape' /\ call'[t] = r /\ \A u \in Tasks : u # t => call'[u] = call[u]
  <2>1. /\ call'[t] = r /\ \A u \in Tasks : u # t => call'[u] = call[u]
        /\ call' = [u \in Tasks |-> call'[u]]
    BY <1>2, <1>3
  <2>2. \A u \in Tasks : call'[u] = [pc |-> call'[u].pc, answer |-> call'[u].answer]
    BY <1>1, <1>3, <2>1
  <2>3. call' = [u \in Tasks |-> [pc |-> call'[u].pc, answer |-> call'[u].answer]]
    BY <2>1, <2>2
  <2> QED
    BY <2>1, <2>3 DEF CallShape
<1>4. ASSUME NEW pc, Goto(t, pc)
      PROVE  /\ CallShape' /\ call'[t].pc = pc /\ call'[t].answer = call[t].answer
             /\ \A u \in Tasks : u # t => call'[u] = call[u]
  <2> DEFINE r == [call[t] EXCEPT !.pc = pc]
  <2>1. call' = [call EXCEPT ![t] = r]
    BY <1>4 DEF Goto
  <2>2. r = [pc |-> pc, answer |-> call[t].answer]
    <3>1. PICK p, a : call[t] = [pc |-> p, answer |-> a]
      BY <1>1
    <3> QED
      BY <3>1
  <2>3. r.pc = pc /\ r.answer = call[t].answer /\ r = [pc |-> r.pc, answer |-> r.answer]
    BY <2>2
  <2> HIDE DEF r
  <2> QED
    BY <1>3, <2>1, <2>3
<1>5. ASSUME NEW id, Returns(t, id)
      PROVE  /\ CallShape' /\ call'[t].pc = "done" /\ call'[t].answer = id
             /\ \A u \in Tasks : u # t => call'[u] = call[u]
  <2> DEFINE r == [pc |-> "done", answer |-> id]
  <2>1. call' = [call EXCEPT ![t] = r]
    BY <1>5 DEF Returns
  <2>2. r.pc = "done" /\ r.answer = id /\ r = [pc |-> r.pc, answer |-> r.answer]
    OBVIOUS
  <2> HIDE DEF r
  <2> QED
    BY <1>3, <2>1, <2>2
<1> QED
  BY <1>4, <1>5

\* A step of c that leaves the other coroutines where they are.
LEMMA OthersStay ==
  ASSUME NEW c, \A u \in Tasks : u # c => call'[u].pc = call[u].pc,
         c = "timer" \/ timer' = timer \/ timer \notin {"wait", "flush"},
         c = "closer" \/ closer'.pc = closer.pc \/ closer.pc \notin {"wait", "flush"},
         Up => Up', c = "starter" \/ boot' = boot
  PROVE  Elsewhere(c)
<1>1. Tasks \intersect {"timer", "closer", "starter"} = {}
  BY BufferAssumption
<1>2. Actors = Tasks \union {"timer", "closer", "starter"}
  BY DEF Actors
<1>3. ASSUME NEW d \in Tasks, Asked(d), d # c
      PROVE  Asked(d)' /\ (Flushing(d)' <=> Flushing(d))
  BY <1>1, <1>3 DEF Asked, Flushing
<1>4. ASSUME Asked("timer"), "timer" # c
      PROVE  Asked("timer")' /\ (Flushing("timer")' <=> Flushing("timer"))
  BY <1>1, <1>4 DEF Asked, Flushing
<1>5. ASSUME Asked("closer"), "closer" # c
      PROVE  Asked("closer")' /\ (Flushing("closer")' <=> Flushing("closer"))
  BY <1>1, <1>5 DEF Asked, Flushing
<1>6. ASSUME Asked("starter"), "starter" # c
      PROVE  Asked("starter")' /\ (Flushing("starter")' <=> Flushing("starter"))
  BY <1>1, <1>6 DEF Asked, Flushing
<1> QED
  BY <1>2, <1>3, <1>4, <1>5, <1>6 DEF Elsewhere

\* A flush begins, and the holder awaits it.
LEMMA FlushBegun ==
  ASSUME CtrlInv, NEW c \in Actors, Holds(c), lock' = lock, Asked(c)', Flushing(c)', Elsewhere(c),
         NEW tasks \in Seq(Tasks), tasks # <<>>, BeginFlush(tasks)
  PROVE  LockInv' /\ FlushInv'
<1>1. LockInv' /\ lock' # <<>> /\ Head(lock') = c
  BY LockKept DEF CtrlInv
<1>2. batch' # <<>> /\ buffer' = <<>>
  BY DEF BeginFlush
<1> QED
  BY <1>1, <1>2 DEF FlushInv

\* The holder releases the lock; the flush, if there was one, is over.
LEMMA LockFreed ==
  ASSUME CtrlInv, NEW c \in Actors, Holds(c), Release, Elsewhere(c), batch' = <<>>
  PROVE  LockInv' /\ FlushInv' /\ (c = "closer" => lock' = <<>>)
<1>1. /\ LockInv'
      /\ lock' # <<>> => ~Flushing(Head(lock))'
      /\ c = "closer" => lock' = <<>>
  BY LockReleased DEF CtrlInv, Release
<1> QED
  BY <1>1 DEF FlushInv

\* A coroutine asks for the lock, and nothing else happens.
LEMMA LockWanted ==
  ASSUME CtrlInv, NEW c \in Actors, ~Asked(c), ~Asked("closer"), Ask(c), Asked(c)', ~Flushing(c)',
         Elsewhere(c), batch' = batch, buffer' = buffer
  PROVE  LockInv' /\ FlushInv'
<1>1. /\ LockInv' /\ lock' # <<>>
      /\ lock = <<>> => Head(lock') = c
      /\ lock # <<>> => Head(lock') = Head(lock)
                        /\ (Flushing(Head(lock))' <=> Flushing(Head(lock)))
  BY LockAsked DEF CtrlInv, Ask
<1>2. lock = <<>> => ~Flushing(Head(lock))'
  BY <1>1
<1> QED
  BY <1>1, <1>2 DEF FlushInv, CtrlInv

\* A coroutine leaves the queue in which it waits.
LEMMA LockUnwanted ==
  ASSUME CtrlInv, NEW c \in Actors, Leave(c), ~Flushing(c), Elsewhere(c), batch' = batch,
         buffer' = buffer
  PROVE  LockInv' /\ FlushInv' /\ (lock = <<>> => lock' = <<>>)
<1>1. /\ LockInv'
      /\ (lock # <<>> /\ Flushing(Head(lock))) <=> (lock' # <<>> /\ Flushing(Head(lock))')
  BY LockLeft DEF CtrlInv
<1>2. lock # <<>>
  <2>1. DOMAIN lock # {}
    BY DEF Leave
  <2> QED
    BY <2>1, LockElems DEF CtrlInv
<1> QED
  BY <1>1, <1>2 DEF FlushInv, CtrlInv

\* A step that concerns nobody in the queue.
LEMMA LockUntouched ==
  ASSUME CtrlInv, NEW c, ~Asked(c), Elsewhere(c), lock' = lock, batch' = batch, buffer' = buffer
  PROVE  LockInv' /\ FlushInv'
<1>1. \A d \in Actors : Asked(d) => Asked(d)' /\ (Flushing(d)' <=> Flushing(d))
  BY DEF Elsewhere
<1>2. LockInv' /\ (lock # <<>> => (Flushing(Head(lock))' <=> Flushing(Head(lock))))
  BY <1>1, LockStays DEF CtrlInv
<1> QED
  BY <1>2 DEF FlushInv, CtrlInv

\* The sequences that the steps build.
LEMMA Buffers ==
  ASSUME Shape
  PROVE  /\ \A t \in Tasks : Append(buffer, t) \in Seq(Tasks) /\ Append(buffer, t) # <<>>
         /\ batch \o buffer \in Seq(Tasks)
         /\ todo # <<>> => Tail(todo) \in Seq(Tasks)
         /\ <<>> \in Seq(Tasks)
         /\ \A f \in files : buffer \o f \in Seq(Tasks) /\ buffer \o f # <<>>
<1>1. buffer \in Seq(Tasks) /\ batch \in Seq(Tasks) /\ todo \in Seq(Tasks)
  BY DEF Shape
<1>2. \A t \in Tasks : Append(buffer, t) \in Seq(Tasks) /\ Append(buffer, t) # <<>>
  BY <1>1, AppendElems
<1>3. batch \o buffer \in Seq(Tasks) /\ <<>> \in Seq(Tasks)
  BY <1>1, ConcatElems, EmptySeq
<1>4. todo # <<>> => Tail(todo) \in Seq(Tasks)
  BY <1>1, TailElems
<1>5. ASSUME NEW f \in files PROVE buffer \o f \in Seq(Tasks) /\ buffer \o f # <<>>
  <2>1. f \in Seq(Tasks) /\ f # <<>>
    BY DEF Shape
  <2> QED
    BY <1>1, <2>1, ConcatElems, ConcatEqualIffEmpty
<1> QED
  BY <1>2, <1>3, <1>4, <1>5

\* What a caller's step does to the shape and to the coroutines of the others.
LEMMA CallStep ==
  ASSUME CtrlInv, NEW t \in Tasks, UNCHANGED <<files, closer, boot>>,
         timer' = timer \/ (timer = "off" /\ timer' = "sleep" /\ Open),
         \/ \E pc : Goto(t, pc)
         \/ \E id : Returns(t, id)
  PROVE  /\ CallShape' /\ Elsewhere(t) /\ t \in Actors
         /\ (buffer \in Seq(Tasks) /\ batch \in Seq(Tasks) /\ todo \in Seq(Tasks))' => Shape'
         /\ (closer.pc \in {"closed", "failed"} => lock' = <<>>)
              /\ (closer.pc = "closed" => buffer' = <<>>) => CloseInv'
<1>1. CallShape' /\ \A u \in Tasks : u # t => call'[u] = call[u]
  BY CallMoves DEF CtrlInv, Shape
<1>2. timer = "off" \/ timer' = timer
  OBVIOUS
<1>3. Elsewhere(t)
  BY <1>1, <1>2, OthersStay DEF Up
<1> QED
  BY <1>1, <1>3 DEF CtrlInv, Shape, CloseInv, Open, Up, Actors

\* A submit call takes a step on its own.
LEMMA SubmitCtrl ==
  ASSUME CtrlInv, NEW t \in Tasks, LookUpKey(t) \/ ScanBuffer(t) \/ EnterAdd(t) \/ Add(t)
  PROVE  CtrlInv'
<1> t \in Actors /\ t \notin {"timer", "closer", "starter"}
  BY BufferAssumption DEF Actors
<1>1. ASSUME call[t].pc \in {"new", "keyChecked", "scanned"}, UNCHANGED <<files, timer, closer, boot>>,
             (\E pc : Goto(t, pc)) \/ (\E id : Returns(t, id)),
             UNCHANGED <<buffer, batch, todo, lock>>
      PROVE  CtrlInv'
  <2>1. /\ Elsewhere(t)
        /\ (buffer \in Seq(Tasks) /\ batch \in Seq(Tasks) /\ todo \in Seq(Tasks))' => Shape'
        /\ (closer.pc \in {"closed", "failed"} => lock' = <<>>)
             /\ (closer.pc = "closed" => buffer' = <<>>) => CloseInv'
    BY <1>1, CallStep
  <2>2. ~Asked(t)
    BY <1>1 DEF Asked
  <2>3. LockInv' /\ FlushInv'
    BY <1>1, <2>1, <2>2, LockUntouched
  <2> QED
    BY <1>1, <2>1, <2>3 DEF CtrlInv, Shape, CloseInv
<1>2. CASE LookUpKey(t)
  BY <1>1, <1>2 DEF LookUpKey
<1>3. CASE ScanBuffer(t)
  BY <1>1, <1>3 DEF ScanBuffer
<1>4. CASE EnterAdd(t)
  <2>1. CASE ~Open
    BY <1>1, <1>4, <2>1 DEF EnterAdd, Raises
  <2>2. CASE Open
    <3>1. /\ Up /\ call[t].pc = "scanned" /\ Ask(t) /\ Goto(t, "waiting")
          /\ UNCHANGED <<files, buffer, batch, todo, timer, closer, boot>>
      BY <1>4, <2>2 DEF EnterAdd
    <3>2. /\ Elsewhere(t)
          /\ (buffer \in Seq(Tasks) /\ batch \in Seq(Tasks) /\ todo \in Seq(Tasks))' => Shape'
          /\ (closer.pc \in {"closed", "failed"} => lock' = <<>>)
               /\ (closer.pc = "closed" => buffer' = <<>>) => CloseInv'
      BY <3>1, CallStep
    <3>3. call'[t].pc = "waiting"
      BY <3>1, CallMoves DEF CtrlInv, Shape
    <3>4. ~Asked(t) /\ ~Asked("closer") /\ Asked(t)' /\ ~Flushing(t)'
      BY <2>2, <3>1, <3>3, BufferAssumption DEF Asked, Flushing, Open, Up
    <3>5. LockInv' /\ FlushInv'
      BY <3>1, <3>2, <3>4, LockWanted
    <3> QED
      BY <2>2, <3>1, <3>2, <3>5 DEF CtrlInv, Shape, Open
  <2> QED
    BY <2>1, <2>2
<1>5. CASE Add(t)
  <2>0. /\ Holds(t) /\ call[t].pc = "waiting" /\ UNCHANGED <<files, closer, boot>>
        /\ timer' = timer \/ (timer = "off" /\ timer' = "sleep" /\ Open)
    BY <1>5 DEF Add
  <2>1. closer.pc \notin {"closed", "failed"} /\ ~Flushing(t) /\ batch = <<>>
    BY <2>0, BufferAssumption DEF CtrlInv, CloseInv, FlushInv, Holds, Flushing
  <2>u. Asked(t) /\ Up
    <3>1. lock # <<>> /\ Head(lock) = t /\ LockInv
      BY <2>0 DEF Holds, CtrlInv
    <3>2. lock[1] = t /\ 1 \in DOMAIN lock
      BY <3>1, LockElems
    <3> QED
      BY <3>1, <3>2, BufferAssumption DEF LockInv, Asked
  <2>2. CASE /\ buffer' = Append(buffer, t) /\ Returns(t, t) /\ Release
             /\ UNCHANGED <<batch, todo>>
    <3>1. /\ Elsewhere(t)
          /\ (buffer \in Seq(Tasks) /\ batch \in Seq(Tasks) /\ todo \in Seq(Tasks))' => Shape'
          /\ (closer.pc \in {"closed", "failed"} => lock' = <<>>)
               /\ (closer.pc = "closed" => buffer' = <<>>) => CloseInv'
      BY <2>0, <2>2, CallStep
    <3>2. LockInv' /\ FlushInv'
      BY <2>0, <2>1, <2>2, <3>1, LockFreed
    <3> QED
      BY <2>1, <2>2, <3>1, <3>2, Buffers DEF CtrlInv, Shape
  <2>3. CASE BeginFlush(Append(buffer, t)) /\ Goto(t, "flushing") /\ UNCHANGED lock
    <3>1. /\ Elsewhere(t)
          /\ (buffer \in Seq(Tasks) /\ batch \in Seq(Tasks) /\ todo \in Seq(Tasks))' => Shape'
          /\ (closer.pc \in {"closed", "failed"} => lock' = <<>>)
               /\ (closer.pc = "closed" => buffer' = <<>>) => CloseInv'
      BY <2>0, <2>3, CallStep
    <3>2. call'[t].pc = "flushing"
      BY <2>3, CallMoves DEF CtrlInv, Shape
    <3>3. Asked(t)' /\ Flushing(t)'
      BY <2>0, <2>u, <3>2 DEF Asked, Flushing, Up
    <3>4. PICK tasks \in Seq(Tasks) : tasks = Append(buffer, t) /\ tasks # <<>>
      BY Buffers DEF CtrlInv
    <3>5. LockInv' /\ FlushInv'
      BY <2>0, <2>3, <3>1, <3>3, <3>4, FlushBegun
    <3>6. (buffer \in Seq(Tasks) /\ batch \in Seq(Tasks) /\ todo \in Seq(Tasks))'
      BY <2>3, <3>4, Buffers DEF BeginFlush, CtrlInv
    <3> QED
      BY <2>1, <3>1, <3>5, <3>6 DEF CtrlInv
  <2> QED
    BY <1>5, <2>2, <2>3 DEF Add
<1> QED
  BY <1>2, <1>3, <1>4, <1>5

\* A flush ends in one of the three ways; what follows for everyone else.
LEMMA FlushEnds ==
  ASSUME CtrlInv, NEW c \in Actors, Flushed(c) \/ FlushRaises(c) \/ FlushCancelled(c), Elsewhere(c)
  PROVE  /\ LockInv' /\ FlushInv' /\ (c = "closer" => lock' = <<>>)
         /\ (buffer \in Seq(Tasks) /\ batch \in Seq(Tasks) /\ todo \in Seq(Tasks))'
         /\ closer.pc \notin {"closed", "failed"} /\ Flushing(c) /\ Asked(c)
         /\ batch # <<>> /\ buffer = <<>> /\ (buffer' = <<>> \/ FlushRaises(c))
<1>1. Holds(c) /\ Release /\ batch' = <<>> /\ batch # <<>>
  BY DEF Flushed, FlushRaises, FlushCancelled
<1>2. LockInv' /\ FlushInv' /\ (c = "closer" => lock' = <<>>)
  BY <1>1, LockFreed
<1>3. (buffer \in Seq(Tasks) /\ batch \in Seq(Tasks) /\ todo \in Seq(Tasks))'
  BY Buffers DEF Flushed, FlushRaises, FlushCancelled, CtrlInv, Shape, Refilled
<1>4. closer.pc \notin {"closed", "failed"} /\ Flushing(c) /\ buffer = <<>>
  BY <1>1 DEF Holds, CtrlInv, CloseInv, FlushInv
<1>5. Asked(c)
  <2>1. lock # <<>> /\ Head(lock) = c /\ LockInv
    BY <1>1 DEF Holds, CtrlInv
  <2>2. lock[1] = c /\ 1 \in DOMAIN lock
    BY <2>1, LockElems
  <2> QED
    BY <2>1, <2>2 DEF LockInv
<1> QED
  BY <1>1, <1>2, <1>3, <1>4, <1>5 DEF Flushed, FlushCancelled

\* A submit call's flush ends, or the call is cancelled.
LEMMA SubmitEndsCtrl ==
  ASSUME CtrlInv, NEW t \in Tasks, AddFlushed(t) \/ AddRaises(t) \/ CancelSubmit(t)
  PROVE  CtrlInv'
<1>0. /\ \E id : Returns(t, id)
      /\ UNCHANGED <<files, timer, closer, boot>>
      /\ \/ Flushed(t) \/ FlushRaises(t) \/ FlushCancelled(t)
         \/ call[t].pc = "waiting" /\ Leave(t) /\ UNCHANGED <<buffer, batch, todo>>
  BY DEF AddFlushed, AddRaises, CancelSubmit, Raises
<1>1. /\ t \in Actors /\ Elsewhere(t)
      /\ (buffer \in Seq(Tasks) /\ batch \in Seq(Tasks) /\ todo \in Seq(Tasks))' => Shape'
      /\ (closer.pc \in {"closed", "failed"} => lock' = <<>>)
           /\ (closer.pc = "closed" => buffer' = <<>>) => CloseInv'
  BY <1>0, CallStep
<1>2. CASE Flushed(t) \/ FlushRaises(t) \/ FlushCancelled(t)
  BY <1>1, <1>2, FlushEnds DEF CtrlInv
<1>3. CASE call[t].pc = "waiting" /\ Leave(t) /\ UNCHANGED <<buffer, batch, todo>>
  <2>1. ~Flushing(t)
    BY <1>3, BufferAssumption DEF Flushing
  <2>2. LockInv' /\ FlushInv' /\ (lock = <<>> => lock' = <<>>)
    BY <1>1, <1>3, <2>1, LockUnwanted
  <2> QED
    BY <1>1, <1>3, <2>2 DEF CtrlInv, Shape, CloseInv
<1> QED
  BY <1>0, <1>2, <1>3

\* The timer.
LEMMA TimerCtrl ==
  ASSUME CtrlInv, TimerWakes \/ TimerRuns \/ TimerFlushed \/ TimerFlushRaises
  PROVE  CtrlInv'
<1>0. "timer" \in Actors /\ "timer" \notin Tasks
  BY BufferAssumption DEF Actors
<1>1. UNCHANGED <<files, call, closer, boot>>
  BY DEF TimerWakes, TimerRuns, TimerFlushed, TimerFlushRaises
<1>2. Elsewhere("timer")
  BY <1>1, OthersStay DEF Up
<1>3. timer' \in {"off", "sleep", "wait", "flush"}
  BY DEF TimerWakes, TimerRuns, TimerFlushed, TimerFlushRaises
<1>4. (buffer \in Seq(Tasks) /\ batch \in Seq(Tasks) /\ todo \in Seq(Tasks))' => Shape'
  BY <1>1, <1>3 DEF Shape, CallShape, CtrlInv
<1>5. timer # "off" => Open /\ CloseInv'
  BY <1>1 DEF CtrlInv, CloseInv, Open
<1>6. CASE TimerWakes
  <2>1. timer = "sleep" /\ timer' = "wait" /\ Ask("timer") /\ UNCHANGED <<buffer, batch, todo>>
    BY <1>6 DEF TimerWakes
  <2>2. ~Asked("timer") /\ ~Asked("closer") /\ Asked("timer")' /\ ~Flushing("timer")'
    BY <1>0, <1>5, <2>1, BufferAssumption DEF Asked, Flushing, Open
  <2>3. LockInv' /\ FlushInv'
    BY <1>0, <1>2, <2>1, <2>2, LockWanted
  <2> QED
    BY <1>4, <1>5, <2>1, <2>3 DEF CtrlInv, Shape
<1>7. CASE TimerRuns
  <2>0. Holds("timer") /\ timer = "wait"
    BY <1>7 DEF TimerRuns
  <2>1. CASE buffer = <<>>
    <3>1. Release /\ UNCHANGED <<buffer, batch, todo>>
      BY <1>7, <2>1 DEF TimerRuns
    <3>2. ~Flushing("timer")
      BY <1>0, <2>0, BufferAssumption DEF Flushing
    <3>3. batch = <<>>
      BY <2>0, <3>2 DEF CtrlInv, FlushInv, Holds
    <3>4. LockInv' /\ FlushInv'
      BY <1>0, <1>2, <2>0, <3>1, <3>3, LockFreed
    <3> QED
      BY <1>4, <1>5, <2>0, <3>1, <3>4 DEF CtrlInv, Shape
  <2>2. CASE buffer # <<>>
    <3>1. timer' = "flush" /\ BeginFlush(buffer) /\ lock' = lock
      BY <1>7, <2>2 DEF TimerRuns
    <3>2. Asked("timer")' /\ Flushing("timer")' /\ buffer \in Seq(Tasks)
      BY <3>1 DEF Asked, Flushing, CtrlInv, Shape
    <3>3. LockInv' /\ FlushInv'
      <4> PICK tasks \in Seq(Tasks) : tasks = buffer
        BY <3>2
      <4> QED
        BY <1>0, <1>2, <2>0, <2>2, <3>1, <3>2, FlushBegun
    <3>4. (buffer \in Seq(Tasks) /\ batch \in Seq(Tasks) /\ todo \in Seq(Tasks))'
      BY <3>1, <3>2, Buffers DEF BeginFlush, CtrlInv
    <3> QED
      BY <1>4, <1>5, <2>0, <3>3, <3>4 DEF CtrlInv
  <2> QED
    BY <2>1, <2>2
<1>8. CASE TimerFlushed \/ TimerFlushRaises
  <2>1. Flushed("timer") \/ FlushRaises("timer")
    BY <1>8 DEF TimerFlushed, TimerFlushRaises
  <2>2. /\ LockInv' /\ FlushInv' /\ Flushing("timer")
        /\ (buffer \in Seq(Tasks) /\ batch \in Seq(Tasks) /\ todo \in Seq(Tasks))'
    BY <1>0, <1>2, <2>1, FlushEnds
  <2>3. timer = "flush"
    BY <1>0, <2>2 DEF Flushing
  <2> QED
    BY <1>4, <1>5, <2>2, <2>3 DEF CtrlInv
<1> QED
  BY <1>6, <1>7, <1>8

\* close().
LEMMA CloseCtrl ==
  ASSUME CtrlInv, BeginClose \/ EnterClose \/ CloseRuns \/ CloseFlushed \/ CloseFlushRaises
  PROVE  CtrlInv'
<1>0. /\ "closer" \in Actors /\ "closer" \notin Tasks /\ "timer" \in Actors /\ "timer" \notin Tasks
      /\ CloseAttempts \in Nat \ {0}
  BY BufferAssumption DEF Actors
<1>1. UNCHANGED <<call, boot>>
  BY DEF BeginClose, EnterClose, CloseRuns, CloseFlushed, CloseFlushRaises
<1>2. Shape
  BY DEF CtrlInv
<1>3. /\ closer \in [pc : {"none", "enter", "wait", "flush", "closed", "failed"},
                     attempt : 0 .. CloseAttempts]
      /\ closer.attempt \in 0 .. CloseAttempts
  BY <1>2 DEF Shape
<1>4. closer' \in [pc : {"none", "enter", "wait", "flush", "closed", "failed"},
                   attempt : 0 .. CloseAttempts]
  <2>1. CASE BeginClose
    <3>1. 1 \in 0 .. CloseAttempts
      BY <1>0
    <3> QED
      BY <2>1, <3>1 DEF BeginClose
  <2>2. CASE CloseFlushRaises
    <3>1. closer.attempt < CloseAttempts => closer.attempt + 1 \in 0 .. CloseAttempts
      BY <1>0, <1>3
    <3> QED
      BY <1>3, <2>2, <3>1 DEF CloseFlushRaises
  <2>3. CASE EnterClose \/ CloseRuns \/ CloseFlushed
    BY <1>3, <2>3 DEF EnterClose, CloseRuns, CloseFlushed
  <2> QED
    BY <2>1, <2>2, <2>3
<1>5. timer' \in {"off", "sleep", "wait", "flush"} /\ (timer' = "off" \/ ~BeginClose)
  BY <1>2 DEF BeginClose, EnterClose, CloseRuns, CloseFlushed, CloseFlushRaises, Shape
<1>6. ASSUME (buffer \in Seq(Tasks) /\ batch \in Seq(Tasks) /\ todo \in Seq(Tasks))',
             files' = files \/ (files' = files \union {batch} /\ batch # <<>>)
      PROVE  Shape'
  BY <1>1, <1>2, <1>4, <1>5, <1>6 DEF Shape, CallShape
<1>7. CASE BeginClose
  <2>1. /\ Up /\ Open /\ timer' = "off" /\ closer' = [pc |-> "enter", attempt |-> 1]
        /\ files' = files
        /\ \/ timer \in {"off", "sleep"} /\ UNCHANGED <<buffer, batch, todo, lock>>
           \/ timer = "wait" /\ Leave("timer") /\ UNCHANGED <<buffer, batch, todo>>
           \/ FlushCancelled("timer")
    BY <1>7 DEF BeginClose
  <2>2. Elsewhere("timer")
    BY <1>1, <2>1, OthersStay DEF Up, Open
  <2>3. CloseInv'
    BY <1>1, <2>1 DEF CloseInv, Up, Open
  <2>4. CASE timer \in {"off", "sleep"} /\ UNCHANGED <<buffer, batch, todo, lock>>
    <3>1. ~Asked("timer")
      BY <1>0, <2>4, BufferAssumption DEF Asked
    <3>2. LockInv' /\ FlushInv'
      BY <1>0, <2>2, <2>4, <3>1, LockUntouched
    <3> QED
      BY <1>2, <1>6, <2>1, <2>3, <2>4, <3>2 DEF CtrlInv, Shape
  <2>5. CASE timer = "wait" /\ Leave("timer") /\ UNCHANGED <<buffer, batch, todo>>
    <3>1. ~Flushing("timer")
      BY <1>0, <2>5, BufferAssumption DEF Flushing
    <3>2. LockInv' /\ FlushInv'
      BY <1>0, <2>2, <2>5, <3>1, LockUnwanted
    <3> QED
      BY <1>2, <1>6, <2>1, <2>3, <2>5, <3>2 DEF CtrlInv, Shape
  <2>6. CASE FlushCancelled("timer")
    <3>1. /\ LockInv' /\ FlushInv'
          /\ (buffer \in Seq(Tasks) /\ batch \in Seq(Tasks) /\ todo \in Seq(Tasks))'
      BY <1>0, <2>2, <2>6, FlushEnds
    <3> QED
      BY <1>6, <2>1, <2>3, <3>1 DEF CtrlInv
  <2> QED
    BY <2>1, <2>4, <2>5, <2>6
<1>8. CASE EnterClose
  <2>1. /\ closer.pc = "enter" /\ closer'.pc = "wait" /\ Ask("closer")
        /\ UNCHANGED <<files, buffer, batch, todo, timer>>
    BY <1>3, <1>8 DEF EnterClose
  <2>2. Elsewhere("closer")
    BY <1>1, <2>1, OthersStay DEF Up
  <2>3. ~Asked("closer") /\ Asked("closer")' /\ ~Flushing("closer")'
    BY <1>0, <2>1, BufferAssumption DEF Asked, Flushing
  <2>4. LockInv' /\ FlushInv'
    BY <1>0, <2>1, <2>2, <2>3, LockWanted
  <2>5. CloseInv'
    BY <1>1, <2>1 DEF CtrlInv, CloseInv, Up, Open
  <2> QED
    BY <1>2, <1>6, <2>1, <2>4, <2>5 DEF CtrlInv, Shape
<1>9. CASE CloseRuns
  <2>1. Holds("closer") /\ closer.pc = "wait" /\ UNCHANGED <<files, timer>>
    BY <1>9 DEF CloseRuns
  <2>2. Elsewhere("closer")
    BY <1>1, <2>1, OthersStay DEF Up
  <2>3. CASE buffer = <<>>
    <3>1. closer'.pc = "closed" /\ Release /\ UNCHANGED <<buffer, batch, todo>>
      BY <1>3, <1>9, <2>3 DEF CloseRuns
    <3>2. ~Flushing("closer")
      BY <1>0, <2>1, BufferAssumption DEF Flushing
    <3>3. batch = <<>>
      BY <2>1, <3>2 DEF CtrlInv, FlushInv, Holds
    <3>4. LockInv' /\ FlushInv' /\ lock' = <<>>
      BY <1>0, <2>1, <2>2, <3>1, <3>3, LockFreed
    <3>5. CloseInv'
      BY <1>1, <2>1, <2>3, <3>1, <3>4 DEF CtrlInv, CloseInv, Up, Open
    <3> QED
      BY <1>2, <1>6, <2>1, <3>1, <3>4, <3>5 DEF CtrlInv, Shape
  <2>4. CASE buffer # <<>>
    <3>1. closer'.pc = "flush" /\ BeginFlush(buffer) /\ lock' = lock
      BY <1>3, <1>9, <2>4 DEF CloseRuns
    <3>2. Asked("closer")' /\ Flushing("closer")' /\ buffer \in Seq(Tasks)
      BY <1>2, <3>1 DEF Asked, Flushing, Shape
    <3>3. LockInv' /\ FlushInv'
      <4> PICK tasks \in Seq(Tasks) : tasks = buffer
        BY <3>2
      <4> QED
        BY <1>0, <2>1, <2>2, <2>4, <3>1, <3>2, FlushBegun
    <3>4. (buffer \in Seq(Tasks) /\ batch \in Seq(Tasks) /\ todo \in Seq(Tasks))'
      BY <3>1, <3>2, Buffers DEF BeginFlush, CtrlInv
    <3>5. CloseInv'
      BY <1>1, <2>1, <3>1 DEF CtrlInv, CloseInv, Up, Open
    <3> QED
      BY <1>6, <2>1, <3>3, <3>4, <3>5 DEF CtrlInv
  <2> QED
    BY <2>3, <2>4
<1>10. CASE CloseFlushed \/ CloseFlushRaises
  <2>1. /\ \/ Flushed("closer") /\ closer'.pc = "closed" /\ files' = files
           \/ /\ FlushRaises("closer") /\ closer'.pc \in {"enter", "failed"}
              /\ files' = files \/ (files' = files \union {batch} /\ batch # <<>>)
        /\ UNCHANGED timer
    BY <1>3, <1>10 DEF CloseFlushed, CloseFlushRaises, FlushRaises
  <2>2. Elsewhere("closer")
    BY <1>1, <2>1, OthersStay DEF Up
  <2>3. /\ LockInv' /\ FlushInv' /\ lock' = <<>> /\ Flushing("closer")
        /\ (buffer \in Seq(Tasks) /\ batch \in Seq(Tasks) /\ todo \in Seq(Tasks))'
        /\ buffer = <<>>
    BY <1>0, <2>1, <2>2, FlushEnds
  <2>4. closer.pc = "flush"
    BY <1>0, <2>3 DEF Flushing
  <2>5. closer'.pc = "closed" => buffer' = <<>>
    BY <2>1, <2>3 DEF Flushed
  <2>6. CloseInv'
    BY <1>1, <2>1, <2>3, <2>4, <2>5 DEF CtrlInv, CloseInv, Up, Open
  <2> QED
    BY <1>6, <2>1, <2>3, <2>6 DEF CtrlInv
<1> QED
  BY <1>7, <1>8, <1>9, <1>10

\* The process starts, reads the backups, and ends.
LEMMA BootCtrl ==
  ASSUME CtrlInv,
         \/ Exit \/ Crash \/ Start \/ RecoverFile
         \/ RecoverFlushed \/ RecoverFlushRaises \/ Started
  PROVE  CtrlInv'
<1>0. /\ "starter" \in Actors /\ "starter" \notin Tasks /\ CloseAttempts \in Nat \ {0}
      /\ Actors = Tasks \union {"timer", "closer", "starter"}
      /\ "timer" \notin Tasks /\ "closer" \notin Tasks
  BY BufferAssumption DEF Actors
<1>1. Shape
  BY DEF CtrlInv
<1>2. /\ boot \in [process : {"down", "starting", "up"}, pending : SUBSET files,
                   reading : Seq(Tasks), starts : 0 .. MaxStarts]
      /\ boot.starts \in 0 .. MaxStarts /\ boot.reading \in Seq(Tasks)
      /\ boot.pending \subseteq files
  BY <1>1 DEF Shape
<1>3. ~Up => Open
  BY DEF CtrlInv, CloseInv
<1>4. CASE Exit \/ Crash
  <2>1. Gone
    BY <1>4 DEF Exit, Crash
  <2>2. /\ buffer' = <<>> /\ batch' = <<>> /\ todo' = <<>> /\ lock' = <<>> /\ timer' = "off"
        /\ closer' = NotClosing /\ files' = files
    BY <2>1 DEF Gone
  <2>3. CallShape'
    <3>1. \A t \in Tasks : call[t] = [pc |-> call[t].pc, answer |-> call[t].answer]
      BY <1>1 DEF Shape, CallShape
    <3>2. ASSUME NEW t \in Tasks
          PROVE  call'[t] = [pc |-> call'[t].pc, answer |-> call'[t].answer]
      <4>1. PICK p, a : call[t] = [pc |-> p, answer |-> a]
        BY <3>1
      <4>2. call'[t] = IF call[t].pc = "new" THEN call[t] ELSE [call[t] EXCEPT !.pc = "done"]
        BY <2>1 DEF Gone
      <4>3. [call[t] EXCEPT !.pc = "done"] = [pc |-> "done", answer |-> a]
        BY <4>1
      <4>4. call'[t] = [pc |-> p, answer |-> a] \/ call'[t] = [pc |-> "done", answer |-> a]
        BY <4>1, <4>2, <4>3
      <4> QED
        BY <4>4
    <3>3. call' = [t \in Tasks |-> call'[t]]
      BY <2>1 DEF Gone
    <3> QED
      BY <3>2, <3>3 DEF CallShape
  <2>4. boot' \in [process : {"down", "starting", "up"}, pending : SUBSET files,
                   reading : Seq(Tasks), starts : 0 .. MaxStarts]
    <3>1. <<>> \in Seq(Tasks)
      BY EmptySeq
    <3> QED
      BY <1>2, <2>1, <3>1 DEF Gone
  <2>5. closer' \in [pc : {"none", "enter", "wait", "flush", "closed", "failed"},
                     attempt : 0 .. CloseAttempts] /\ Open'
    BY <1>0, <2>2 DEF NotClosing, Open
  <2>6. Shape'
    BY <1>1, <2>2, <2>3, <2>4, <2>5, EmptySeq DEF Shape
  <2>7. LockInv' /\ FlushInv'
    <3>1. lock' \in Seq(Actors) /\ Len(lock') = 0 /\ lock' = <<>> /\ batch' = <<>>
      BY <2>2, EmptySeq
    <3>2. LockInv'
      BY <3>1, LockInvBy
    <3> QED
      BY <3>1, <3>2 DEF FlushInv
  <2>8. CloseInv'
    BY <2>2, <2>5 DEF CloseInv
  <2> QED
    BY <2>6, <2>7, <2>8 DEF CtrlInv
<1>5. CASE Start
  <2>1. /\ boot.process = "down" /\ boot.starts < MaxStarts
        /\ boot' = [process |-> "starting", pending |-> files, reading |-> <<>>,
                    starts |-> boot.starts + 1]
        /\ UNCHANGED <<files, buffer, batch, todo, lock, call, timer, closer>>
    BY <1>5 DEF Start
  <2>2. Shape'
    <3>1. boot.starts + 1 \in 0 .. MaxStarts /\ <<>> \in Seq(Tasks)
      BY <1>2, <2>1, BufferAssumption, EmptySeq
    <3> QED
      BY <1>1, <2>1, <3>1 DEF Shape, CallShape
  <2>3. ~Asked("starter") /\ Elsewhere("starter")
    <3>1. ~Asked("starter") /\ ~Up
      BY <1>0, <2>1 DEF Asked, Up
    <3> QED
      BY <2>1, <3>1, OthersStay
  <2>4. LockInv' /\ FlushInv'
    BY <1>0, <2>1, <2>3, LockUntouched
  <2>5. CloseInv'
    BY <1>3, <2>1 DEF CloseInv, Up, Open
  <2> QED
    BY <2>2, <2>4, <2>5 DEF CtrlInv
<1>6. CASE Started
  <2>1. /\ boot.process = "starting" /\ boot.pending = {} /\ boot'.process = "up"
        /\ boot' \in [process : {"down", "starting", "up"}, pending : SUBSET files,
                      reading : Seq(Tasks), starts : 0 .. MaxStarts]
        /\ UNCHANGED <<files, buffer, batch, todo, lock, call, timer, closer>>
    BY <1>2, <1>6 DEF Started
  <2>2. ~Asked("starter") /\ Elsewhere("starter")
    <3>1. ~Asked("starter") /\ ~Up
      BY <1>0, <2>1 DEF Asked, Up
    <3> QED
      BY <2>1, <3>1, OthersStay
  <2>3. LockInv' /\ FlushInv'
    BY <1>0, <2>1, <2>2, LockUntouched
  <2>4. CloseInv' /\ Shape'
    BY <1>1, <1>3, <2>1 DEF CloseInv, Up, Open, Shape, CallShape
  <2> QED
    BY <2>3, <2>4 DEF CtrlInv
<1>7. CASE RecoverFile
  <2>1. PICK f \in boot.pending :
          /\ boot.process = "starting" /\ lock = <<>> /\ BeginFlush(buffer \o f)
          /\ boot' = [boot EXCEPT !.reading = f]
          /\ Ask("starter") /\ UNCHANGED <<files, call, timer, closer>>
    BY <1>7 DEF RecoverFile
  <2>2. f \in files /\ f \in Seq(Tasks)
    BY <1>1, <1>2 DEF Shape
  <2>3. /\ boot' \in [process : {"down", "starting", "up"}, pending : SUBSET files,
                      reading : Seq(Tasks), starts : 0 .. MaxStarts]
        /\ boot'.process = "starting" /\ boot'.reading \in boot'.pending
    BY <1>2, <2>1, <2>2
  <2>4. Shape'
    BY <1>1, <2>1, <2>2, <2>3, Buffers DEF BeginFlush, Shape, CallShape
  <2>5. LockInv' /\ FlushInv'
    <3>1. Asked("starter")' /\ Flushing("starter")' /\ Elsewhere("starter")
      <4>1. ~Up
        BY <2>1 DEF Up
      <4> QED
        BY <2>1, <2>3, <4>1, OthersStay DEF Asked, Flushing
    <3>2. LockInv /\ lock = <<>> /\ ~Asked("closer")
      BY <1>0, <1>3, <2>1 DEF CtrlInv, Asked, Up, Open
    <3>3. lock' = <<"starter">>
      BY <2>1, <3>2 DEF Ask
    <3>4. lock' \in Seq(Actors) /\ Len(lock') = 1 /\ lock'[1] = "starter" /\ Head(lock') = "starter"
          /\ lock' # <<>>
      <4> HIDE <3>3
      <4>1. <<"starter">> \in Seq(Actors) /\ Len(<<"starter">>) = 1
            /\ <<"starter">>[1] = "starter" /\ Head(<<"starter">>) = "starter"
            /\ <<"starter">> # <<>>
        BY <1>0
      <4> QED
        BY <3>3, <4>1
    <3>5. \A i \in 1 .. Len(lock') : i = 1
      BY <3>4
    <3>6. LockInv'
      <4>1. \A i \in 1 .. Len(lock') : Asked(lock[i])'
        BY <3>1, <3>4, <3>5
      <4> QED
        BY <3>4, <3>5, <4>1, LockInvBy
    <3>7. batch' # <<>> /\ buffer' = <<>>
      BY <1>1, <2>1, <2>2, Buffers DEF BeginFlush
    <3> QED
      BY <3>1, <3>4, <3>6, <3>7 DEF FlushInv
  <2>6. CloseInv'
    BY <1>3, <2>1 DEF CloseInv, Up, Open
  <2> QED
    BY <2>4, <2>5, <2>6 DEF CtrlInv
<1>8. CASE RecoverFlushed \/ RecoverFlushRaises
  <2>1. /\ \/ Flushed("starter") /\ files' = files \ {boot.reading}
           \/ FlushRaises("starter") /\ files' = files
        /\ boot' = [boot EXCEPT !.pending = @ \ {boot.reading}, !.reading = <<>>]
        /\ UNCHANGED <<call, timer, closer>>
    BY <1>8 DEF RecoverFlushed, RecoverFlushRaises, ReadOn
  <2>2. /\ boot' \in [process : {"down", "starting", "up"}, pending : SUBSET files',
                      reading : Seq(Tasks), starts : 0 .. MaxStarts]
        /\ boot'.process = boot.process /\ files' \subseteq files
    <3>1. boot.pending \ {boot.reading} \in SUBSET files'
      BY <1>2, <2>1
    <3>2. <<>> \in Seq(Tasks)
      BY EmptySeq
    <3> QED
      BY <1>2, <2>1, <3>1, <3>2
  <2>3. Elsewhere("starter")
    BY <2>1, <2>2, OthersStay DEF Up
  <2>4. /\ LockInv' /\ FlushInv' /\ Asked("starter")
        /\ (buffer \in Seq(Tasks) /\ batch \in Seq(Tasks) /\ todo \in Seq(Tasks))'
    BY <1>0, <2>1, <2>3, FlushEnds
  <2>5. Open
    BY <1>0, <1>3, <2>4, BufferAssumption DEF Asked, Up
  <2>6. Shape' /\ CloseInv'
    BY <1>1, <2>1, <2>2, <2>4, <2>5 DEF Shape, CallShape, CloseInv, Open
  <2> QED
    BY <2>4, <2>6 DEF CtrlInv
<1> QED
  BY <1>4, <1>5, <1>6, <1>7, <1>8

\* A row is stored, or nothing happens.
LEMMA IdleCtrl ==
  ASSUME CtrlInv, InsertRow \/ UNCHANGED vars
  PROVE  CtrlInv'
<1>1. /\ UNCHANGED <<files, buffer, batch, lock, call, timer, closer, boot>>
      /\ todo' = todo \/ (todo # <<>> /\ todo' = Tail(todo))
  BY DEF InsertRow, vars
<1>2. Shape'
  BY <1>1, Buffers DEF CtrlInv, Shape, CallShape
<1>3. \A d \in Actors : Asked(d) => Asked(d)' /\ (Flushing(d)' <=> Flushing(d))
  BY <1>1 DEF Asked, Flushing, Up
<1>4. LockInv' /\ (lock # <<>> => (Flushing(Head(lock))' <=> Flushing(Head(lock))))
  BY <1>1, <1>3, LockStays DEF CtrlInv
<1> QED
  BY <1>1, <1>2, <1>4 DEF CtrlInv, FlushInv, CloseInv, Up, Open

\* The control invariant holds at first.
LEMMA InitCtrlInv == Init => CtrlInv
<1> SUFFICES ASSUME Init PROVE CtrlInv
  OBVIOUS
<1>1. Shape
  BY BufferAssumption, EmptySeq DEF Init, Shape, CallShape, NotClosing
<1>2. LockInv
  BY EmptySeq DEF Init, LockInv, IsInjective
<1> QED
  BY <1>1, <1>2 DEF Init, CtrlInv, FlushInv, CloseInv, NotClosing, Open

\* Every step keeps the control invariant.
LEMMA NextCtrlInv == CtrlInv /\ [Next]_vars => CtrlInv'
<1> SUFFICES ASSUME CtrlInv, [Next]_vars PROVE CtrlInv'
  OBVIOUS
<1>1. CASE InsertRow \/ UNCHANGED vars
  BY <1>1, IdleCtrl
<1>2. CASE \E t \in Tasks : SubmitStep(t)
  BY <1>2, SubmitCtrl, SubmitEndsCtrl DEF SubmitStep
<1>3. CASE \E t \in Tasks : AddRaises(t) \/ CancelSubmit(t)
  BY <1>3, SubmitEndsCtrl
<1>4. CASE TimerStep \/ TimerFlushRaises
  BY <1>4, TimerCtrl DEF TimerStep
<1>5. CASE BeginClose \/ CloseStep \/ CloseFlushRaises
  BY <1>5, CloseCtrl DEF CloseStep
<1>6. CASE Exit \/ Crash \/ BootStep \/ RecoverFlushRaises
  BY <1>6, BootCtrl DEF BootStep
<1> QED
  BY <1>1, <1>2, <1>3, <1>4, <1>5, <1>6 DEF Next, Undisturbed, Fault

\* Only the lock's holder flushes, the buffer is empty meanwhile, and nobody
\* asks for the lock behind close().
THEOREM Controlled == Spec => []CtrlInv
BY InitCtrlInv, NextCtrlInv, PTL DEF Spec

\* ClosedIsEmpty: when SafeWriteBuffer.close has returned, the buffer is empty
\* and no call of add waits for the lock, cancelled flushes or not.
THEOREM ClosedLeavesNothing == Spec => []ClosedIsEmpty
<1>1. CtrlInv => ClosedIsEmpty
  BY DEF CtrlInv, CloseInv, ClosedIsEmpty
<1> QED
  BY <1>1, Controlled, PTL

----------------------------------------------------------------------------
(* What is kept, and in which order, while no flush is cancelled.          *)

\* u entered the buffer before v.
Earlier(u, v) == \E i, j \in DOMAIN order : i < j /\ order[i] = u /\ order[j] = v

\* The pending tasks that must get their rows before x.
Ahead(x) == {v \in Tasks : Pending(v) /\ Earlier(v, x)}

\* Whoever inserts the tasks of q, first to last, overtakes nobody.
InOrder(q) == \A i \in DOMAIN q : ~Settled(q[i]) =>
                \A v \in Ahead(q[i]) : \E j \in DOMAIN q : j < i /\ q[j] = v

SortInv ==
  /\ stored \in Seq(Tasks) /\ order \in Seq(Tasks) /\ IsInjective(order)
  /\ \A t \in Tasks : InPipe(t) \/ t \in ToSet(stored) => t \in ToSet(order)
  /\ \A i, j \in DOMAIN stored : i < j => Earlier(stored[i], stored[j])
  /\ \A u \in ToSet(stored), v \in Tasks : Pending(v) => Earlier(u, v)
  /\ \A f \in files : InOrder(f)
  /\ InOrder(buffer) /\ InOrder(batch) /\ InOrder(todo)

\* The statement has still to insert what it has not inserted.
BatchInv ==
  /\ \A t \in ToSet(batch) : t \in ToSet(todo) \/ Settled(t)
  /\ ToSet(todo) \subseteq ToSet(batch)

\* The order of entry is strict and total.
LEMMA EarlierIsStrict ==
  ASSUME order \in Seq(Tasks), IsInjective(order)
  PROVE  \A u, v : /\ Earlier(u, v) => u \in ToSet(order) /\ v \in ToSet(order) /\ ~Earlier(v, u)
                   /\ u \in ToSet(order) /\ v \in ToSet(order) /\ u # v => Earlier(u, v) \/ Earlier(v, u)
<1>1. Len(order) \in Nat /\ DOMAIN order = 1 .. Len(order)
  BY SeqElems
<1>2. \A i, j \in 1 .. Len(order) : order[i] = order[j] => i = j
  BY <1>1 DEF IsInjective
<1>3. ASSUME NEW u, NEW v, Earlier(u, v)
      PROVE  u \in ToSet(order) /\ v \in ToSet(order) /\ ~Earlier(v, u)
  <2>1. PICK i, j \in 1 .. Len(order) : i < j /\ order[i] = u /\ order[j] = v
    BY <1>1, <1>3 DEF Earlier
  <2>2. ASSUME NEW k \in 1 .. Len(order), NEW l \in 1 .. Len(order), k < l, order[k] = v, order[l] = u
        PROVE  FALSE
    <3>1. k = j /\ l = i
      BY <1>2, <2>1, <2>2
    <3> QED
      BY <2>1, <2>2, <3>1
  <2>3. ~Earlier(v, u)
    BY <1>1, <2>2 DEF Earlier
  <2> QED
    BY <1>1, <2>1, <2>3 DEF ToSet
<1>4. ASSUME NEW u \in ToSet(order), NEW v \in ToSet(order), u # v
      PROVE  Earlier(u, v) \/ Earlier(v, u)
  <2>1. PICK i \in 1 .. Len(order) : order[i] = u
    BY <1>1 DEF ToSet
  <2>2. PICK j \in 1 .. Len(order) : order[j] = v
    BY <1>1 DEF ToSet
  <2>3. i < j \/ j < i
    BY <1>4, <2>1, <2>2
  <2> QED
    BY <1>1, <2>1, <2>2, <2>3 DEF Earlier
<1> QED
  BY <1>3, <1>4

\* A task that enters comes after all that have entered.
LEMMA EarlierAppend ==
  ASSUME order \in Seq(Tasks), IsInjective(order), NEW t \in Tasks, t \notin ToSet(order),
         order' = Append(order, t)
  PROVE  /\ order' \in Seq(Tasks) /\ IsInjective(order)' /\ ToSet(order') = ToSet(order) \union {t}
         /\ \A u, v : Earlier(u, v)' <=> Earlier(u, v) \/ (u \in ToSet(order) /\ v = t)
<1> DEFINE n == Len(order)
<1>1. /\ n \in Nat /\ DOMAIN order = 1 .. n
      /\ \A i, j \in 1 .. n : order[i] = order[j] => i = j
      /\ \A i \in 1 .. n : order[i] # t
      /\ \A x : x \in ToSet(order) <=> \E i \in 1 .. n : order[i] = x
  BY SeqElems DEF IsInjective
<1>2. /\ order' \in Seq(Tasks) /\ Len(order') = n + 1 /\ ToSet(order') = ToSet(order) \union {t}
      /\ \A i \in 1 .. n : order'[i] = order[i]
      /\ order'[n + 1] = t /\ DOMAIN order' = 1 .. n + 1
  <2>1. order' \in Seq(Tasks) /\ Len(order') = n + 1
    BY AppendElems
  <2> QED
    BY <2>1, AppendElems, SeqElems
<1>3. \A i \in 1 .. n + 1 : i \in 1 .. n \/ i = n + 1
  BY <1>1
<1>4. n + 1 \in 1 .. n + 1 /\ \A i \in 1 .. n : i \in 1 .. n + 1 /\ i < n + 1 /\ ~(n + 1 < i)
  BY <1>1
<1>n. n \in Nat
  BY <1>1
<1> HIDE DEF n
<1>5. IsInjective(order)'
  <2>1. \A i, j \in 1 .. n + 1 : order'[i] = order'[j] => i = j
    BY <1>1, <1>2, <1>3
  <2> QED
    BY <1>2, <2>1 DEF IsInjective
<1>6. ASSUME NEW u, NEW v, Earlier(u, v)' PROVE Earlier(u, v) \/ (u \in ToSet(order) /\ v = t)
  <2>1. PICK i, j \in 1 .. n + 1 : i < j /\ order'[i] = u /\ order'[j] = v
    BY <1>2, <1>6 DEF Earlier
  <2>2. i \in 1 .. n
    BY <1>n, <2>1
  <2>3. CASE j \in 1 .. n
    BY <1>1, <1>2, <2>1, <2>2, <2>3 DEF Earlier
  <2>4. CASE j = n + 1
    BY <1>1, <1>2, <2>1, <2>2, <2>4
  <2> QED
    BY <1>3, <2>3, <2>4
<1>7. ASSUME NEW u, NEW v, Earlier(u, v) \/ (u \in ToSet(order) /\ v = t) PROVE Earlier(u, v)'
  <2>1. CASE Earlier(u, v)
    <3>1. PICK i, j \in 1 .. n : i < j /\ order[i] = u /\ order[j] = v
      BY <1>1, <2>1 DEF Earlier
    <3>2. order'[i] = u /\ order'[j] = v /\ i \in 1 .. n + 1 /\ j \in 1 .. n + 1
      BY <1>2, <1>4, <3>1
    <3> QED
      BY <1>2, <3>1, <3>2 DEF Earlier
  <2>2. CASE u \in ToSet(order) /\ v = t
    <3>1. PICK i \in 1 .. n : order[i] = u
      BY <1>1, <2>2
    <3>2. order'[i] = u /\ i < n + 1 /\ i \in 1 .. n + 1
      BY <1>2, <1>4, <3>1
    <3> QED
      BY <1>2, <1>4, <2>2, <3>2 DEF Earlier
  <2> QED
    BY <1>7, <2>1, <2>2
<1> QED
  BY <1>2, <1>5, <1>6, <1>7

\* A list stays in order when its pending predecessors only become fewer.
LEMMA StaysInOrder ==
  ASSUME NEW q, InOrder(q),
         \A x : x \in ToSet(q) /\ ~Settled(x)' => ~Settled(x) /\ Ahead(x)' \subseteq Ahead(x)
  PROVE  InOrder(q)'
<1>1. ASSUME NEW i \in DOMAIN q, ~Settled(q[i])', NEW v \in Ahead(q[i])'
      PROVE  \E j \in DOMAIN q : j < i /\ q[j] = v
  <2>1. PICK x : x = q[i]
    OBVIOUS
  <2>2. x \in ToSet(q) /\ ~Settled(x)' /\ v \in Ahead(x)'
    BY <1>1, <2>1 DEF ToSet
  <2>3. ~Settled(x) /\ v \in Ahead(x)
    BY <2>2
  <2> QED
    BY <2>1, <2>3 DEF InOrder
<1> QED
  BY <1>1 DEF InOrder

\* The empty list is in order.
LEMMA EmptyInOrder == InOrder(<<>>)
BY EmptySeq DEF InOrder

\* The lists in the next state, one by one.
LEMMA InOrderNext ==
  \A q : /\ InOrder(q)' /\ buffer' = q => InOrder(buffer)'
         /\ InOrder(q)' /\ batch' = q => InOrder(batch)'
         /\ InOrder(q)' /\ todo' = q => InOrder(todo)'
BY DEF InOrder

\* The buffer, then a backup.
LEMMA ConcatInOrder ==
  ASSUME NEW q \in Seq(Tasks), NEW r \in Seq(Tasks), InOrder(q), InOrder(r)
  PROVE  InOrder(q \o r)
<1> DEFINE a == q \o r
<1>1. /\ Len(q) \in Nat /\ DOMAIN q = 1 .. Len(q)
      /\ Len(r) \in Nat /\ DOMAIN r = 1 .. Len(r)
      /\ DOMAIN a = 1 .. Len(q) + Len(r)
      /\ \A i \in 1 .. Len(q) : a[i] = q[i]
      /\ \A i \in 1 .. Len(r) : a[Len(q) + i] = r[i]
  <2>1. a \in Seq(Tasks) /\ Len(a) = Len(q) + Len(r)
    BY ConcatElems
  <2> QED
    BY <2>1, ConcatElems, SeqElems
<1> HIDE DEF a
<1>2. ASSUME NEW i \in DOMAIN a, ~Settled(a[i]), NEW v \in Ahead(a[i])
      PROVE  \E j \in DOMAIN a : j < i /\ a[j] = v
  <2>1. CASE i \in 1 .. Len(q)
    <3>1. a[i] = q[i]
      BY <1>1, <2>1
    <3>2. PICK j \in 1 .. Len(q) : j < i /\ q[j] = v
      BY <1>1, <1>2, <2>1, <3>1 DEF InOrder
    <3>3. j \in 1 .. Len(q) + Len(r)
      BY <1>1, <3>2
    <3> QED
      BY <1>1, <3>2, <3>3
  <2>2. CASE i \notin 1 .. Len(q)
    <3>1. PICK k \in 1 .. Len(r) : i = Len(q) + k
      <4>1. i - Len(q) \in 1 .. Len(r) /\ i = Len(q) + (i - Len(q))
        BY <1>1, <2>2
      <4> QED
        BY <4>1
    <3>2. a[i] = r[k]
      BY <1>1, <3>1
    <3>3. PICK j \in 1 .. Len(r) : j < k /\ r[j] = v
      BY <1>1, <1>2, <3>2 DEF InOrder
    <3>4. Len(q) + j \in 1 .. Len(q) + Len(r) /\ Len(q) + j < i
      BY <1>1, <3>1, <3>3
    <3> QED
      BY <1>1, <3>3, <3>4
  <2> QED
    BY <2>1, <2>2
<1> QED
  BY <1>2 DEF InOrder, a

\* Rows are only added.
LEMMA InsertAdds ==
  ASSUME stored \in Seq(Tasks), NEW h \in Tasks, stored' = Insert(stored, h)
  PROVE  /\ stored' \in Seq(Tasks)
         /\ Settled(h) => stored' = stored
         /\ ~Settled(h) => stored' = Append(stored, h) /\ ToSet(stored') = ToSet(stored) \union {h}
         /\ Settled(h)'
         /\ \A t : Settled(t) => Settled(t)'
<1>1. CASE Settled(h)
  BY <1>1 DEF Settled, Insert, KeyIn
<1>2. CASE ~Settled(h)
  <2>1. stored' = Append(stored, h)
    BY <1>2 DEF Settled, Insert
  <2>2. stored' \in Seq(Tasks) /\ ToSet(stored') = ToSet(stored) \union {h}
    BY <2>1, AppendElems
  <2> QED
    BY <1>2, <2>1, <2>2 DEF Settled, KeyIn
<1> QED
  BY <1>1, <1>2

\* The rows, the order and what is pending stay; the lists that have still to
\* be inserted are rearranged.
LEMMA Rearranged ==
  ASSUME SortInv, UNCHANGED <<stored, order>>,
         \A v : InPipe(v)' => InPipe(v),
         \A f \in files' : f \in files \/ f = batch,
         NEW b, NEW d, NEW e, buffer' = b, batch' = d, todo' = e,
         InOrder(b), InOrder(d), InOrder(e)
  PROVE  SortInv'
<1>1. \A v : Settled(v)' <=> Settled(v)
  BY DEF Settled, KeyIn
<1>2. \A v : Pending(v)' => Pending(v)
  BY <1>1 DEF Pending
<1>3. \A u, v : Earlier(u, v)' <=> Earlier(u, v)
  BY DEF Earlier
<1>4. \A x : Ahead(x)' \subseteq Ahead(x)
  BY <1>2, <1>3 DEF Ahead
<1>5. \A q : InOrder(q) => InOrder(q)'
  BY <1>1, <1>4, StaysInOrder
<1>6. InOrder(buffer)' /\ InOrder(batch)' /\ InOrder(todo)'
  <2>1. InOrder(b)' /\ InOrder(d)' /\ InOrder(e)'
    BY <1>5
  <2> QED
    BY <2>1 DEF InOrder
<1>7. ASSUME NEW f \in files' PROVE InOrder(f)'
  <2>1. InOrder(f)
    BY DEF SortInv
  <2> QED
    BY <1>5, <2>1
<1>8. stored' \in Seq(Tasks) /\ order' \in Seq(Tasks) /\ IsInjective(order)'
  BY DEF SortInv, IsInjective
<1>9. (\A t \in Tasks : InPipe(t) \/ t \in ToSet(stored) => t \in ToSet(order))'
  BY DEF SortInv
<1>10. (\A i, j \in DOMAIN stored : i < j => Earlier(stored[i], stored[j]))'
  <2>1. ASSUME NEW i \in DOMAIN stored, NEW j \in DOMAIN stored, i < j
        PROVE  Earlier(stored[i], stored[j])'
    <3>1. PICK u, v : stored[i] = u /\ stored[j] = v
      OBVIOUS
    <3>2. Earlier(u, v)'
      BY <1>3, <2>1, <3>1 DEF SortInv
    <3> QED
      BY <3>1, <3>2 DEF Earlier
  <2> QED
    BY <2>1
<1>11. (\A u \in ToSet(stored), v \in Tasks : Pending(v) => Earlier(u, v))'
  BY <1>2, <1>3 DEF SortInv
<1> QED
  BY <1>6, <1>7, <1>8, <1>9, <1>10, <1>11 DEF SortInv

\* The statement inserts the next row.
LEMMA RowInserted ==
  ASSUME Shape, SortInv, BatchInv, InsertRow
  PROVE  /\ SortInv' /\ BatchInv'
         /\ \A t : (Settled(t) => Settled(t)') /\ (InPipe(t)' <=> InPipe(t))
<1> todo \in Seq(Tasks) /\ todo # <<>> /\ stored \in Seq(Tasks)
  BY DEF Shape, InsertRow, SortInv
<1>1. PICK h \in Tasks : h = Head(todo)
  BY TailElems
<1>2. /\ stored' = Insert(stored, h) /\ todo' = Tail(todo)
      /\ UNCHANGED <<files, buffer, batch, order>>
  BY <1>1 DEF InsertRow, history
<1>3. /\ stored' \in Seq(Tasks)
      /\ Settled(h) => stored' = stored
      /\ ~Settled(h) => stored' = Append(stored, h) /\ ToSet(stored') = ToSet(stored) \union {h}
      /\ Settled(h)'
      /\ \A t : Settled(t) => Settled(t)'
  BY <1>2, InsertAdds
<1>4. \A t : InPipe(t)' <=> InPipe(t)
  BY <1>2 DEF InPipe, InMemory, InFile
<1>5. \A t : Pending(t)' => Pending(t) /\ t # h
  BY <1>3, <1>4 DEF Pending
<1>6. \A u, v : Earlier(u, v)' <=> Earlier(u, v)
  BY <1>2 DEF Earlier
<1>7. \A x : Ahead(x)' \subseteq Ahead(x) \ {h}
  BY <1>5, <1>6 DEF Ahead
<1>8. \A q : InOrder(q) => InOrder(q)'
  BY <1>3, <1>7, StaysInOrder
<1>9. /\ ToSet(todo) = {h} \union ToSet(todo')
      /\ todo' \in Seq(Tasks) /\ Len(todo') = Len(todo) - 1
      /\ \A i \in 1 .. Len(todo) - 1 : todo'[i] = todo[i + 1]
      /\ todo[1] = h /\ DOMAIN todo = 1 .. Len(todo) /\ Len(todo) \in Nat /\ Len(todo) >= 1
      /\ DOMAIN todo' = 1 .. Len(todo) - 1
  <2>1. /\ ToSet(todo) = {h} \union ToSet(todo')
        /\ todo' \in Seq(Tasks) /\ Len(todo') = Len(todo) - 1
        /\ \A i \in 1 .. Len(todo) - 1 : todo'[i] = todo[i + 1]
        /\ todo[1] = h /\ Len(todo) >= 1
    BY <1>1, <1>2, TailElems
  <2> QED
    BY <2>1, SeqElems
<1>10. BatchInv'
  BY <1>2, <1>3, <1>9 DEF BatchInv
<1>11. InOrder(todo)'
  <2> DEFINE n == Len(todo)
  <2>1. ASSUME NEW i \in DOMAIN todo', ~Settled(todo[i])', NEW v \in Ahead(todo[i])'
        PROVE  \E j \in DOMAIN todo' : j < i /\ todo'[j] = v
    <3>n. n \in Nat /\ n >= 1 /\ i \in 1 .. n - 1
      BY <1>9
    <3>1. PICK x : x = todo'[i]
      OBVIOUS
    <3>2. i + 1 \in 1 .. n /\ todo[i + 1] = x
      BY <1>9, <3>n, <3>1
    <3>3. ~Settled(x)' /\ v \in Ahead(x)'
      BY <2>1, <3>1 DEF Settled, KeyIn, Ahead, Pending, Earlier, InPipe, InMemory, InFile
    <3>4. ~Settled(x) /\ v \in Ahead(x) /\ v # h
      BY <1>3, <1>7, <3>3
    <3>5. PICK k \in 1 .. n : k < i + 1 /\ todo[k] = v
      <4>1. InOrder(todo)
        BY DEF SortInv
      <4>2. i + 1 \in DOMAIN todo /\ ~Settled(todo[i + 1]) /\ v \in Ahead(todo[i + 1])
        BY <1>9, <3>2, <3>4
      <4>3. PICK k \in DOMAIN todo : k < i + 1 /\ todo[k] = v
        BY <4>1, <4>2 DEF InOrder
      <4> QED
        BY <1>9, <4>3
    <3>6. k # 1
      BY <1>9, <3>4, <3>5
    <3> HIDE DEF n
    <3>7. PICK j \in 1 .. n - 1 : k = j + 1 /\ j < i
      <4>1. k - 1 \in 1 .. n - 1 /\ k = (k - 1) + 1 /\ k - 1 < i
        BY <3>n, <3>5, <3>6
      <4> QED
        BY <4>1
    <3>8. todo'[j] = v
      BY <1>9, <3>5, <3>7 DEF n
    <3> QED
      BY <1>9, <3>7, <3>8 DEF n
  <2> QED
    BY <2>1 DEF InOrder
<1>12. ~Settled(h) => Pending(h) /\ \A v \in Tasks : ~Earlier(v, h) \/ ~Pending(v)
  <2> SUFFICES ASSUME ~Settled(h)
               PROVE  Pending(h) /\ \A v \in Tasks : ~Earlier(v, h) \/ ~Pending(v)
    OBVIOUS
  <2>1. h \in ToSet(batch)
    BY <1>9 DEF BatchInv
  <2>2. Pending(h)
    BY <2>1 DEF Pending, InPipe, InMemory
  <2>3. ASSUME NEW v \in Tasks, Earlier(v, h), Pending(v) PROVE FALSE
    <3>1. 1 \in DOMAIN todo /\ v \in Ahead(todo[1])
      BY <1>9, <2>3 DEF Ahead
    <3>2. PICK j \in DOMAIN todo : j < 1
      BY <1>9, <3>1 DEF SortInv, InOrder
    <3> QED
      BY <1>9, <3>2
  <2> QED
    BY <2>2, <2>3
<1>13. h \in ToSet(order)
  <2>1. h \in ToSet(batch)
    BY <1>9 DEF BatchInv
  <2> QED
    BY <2>1 DEF SortInv, InPipe, InMemory
<1>14. (\A i, j \in DOMAIN stored : i < j => Earlier(stored[i], stored[j]))'
  <2>1. ASSUME NEW i \in DOMAIN stored', NEW j \in DOMAIN stored', i < j
        PROVE  \E u, v : stored'[i] = u /\ stored'[j] = v /\ Earlier(u, v)
    <3>1. CASE Settled(h)
      BY <1>3, <2>1, <3>1 DEF SortInv
    <3>2. CASE ~Settled(h)
      <4> DEFINE n == Len(stored)
      <4>1. /\ n \in Nat /\ DOMAIN stored = 1 .. n /\ DOMAIN stored' = 1 .. n + 1
            /\ \A m \in 1 .. n : stored'[m] = stored[m]
            /\ stored'[n + 1] = h
        BY <1>3, <3>2, AppendElems, SeqElems
      <4>2. i \in 1 .. n
        BY <2>1, <4>1
      <4>3. CASE j \in 1 .. n
        BY <2>1, <4>1, <4>2, <4>3 DEF SortInv
      <4>4. CASE j = n + 1
        <5>1. PICK u \in ToSet(stored) : u = stored[i]
          BY <4>1, <4>2 DEF ToSet
        <5>2. Earlier(u, h)
          BY <1>12, <3>2 DEF SortInv
        <5> QED
          BY <4>1, <4>2, <4>4, <5>1, <5>2
      <4> QED
        BY <2>1, <4>1, <4>3, <4>4
    <3> QED
      BY <3>1, <3>2
  <2>2. ASSUME NEW i \in DOMAIN stored', NEW j \in DOMAIN stored', i < j
        PROVE  Earlier(stored[i], stored[j])'
    <3>1. PICK u, v : stored'[i] = u /\ stored'[j] = v /\ Earlier(u, v)
      BY <2>1, <2>2
    <3>2. Earlier(u, v)'
      BY <1>6, <3>1
    <3> QED
      BY <3>1, <3>2 DEF Earlier
  <2> QED
    BY <2>2
<1>15. (\A u \in ToSet(stored), v \in Tasks : Pending(v) => Earlier(u, v))'
  <2>1. ASSUME NEW u \in ToSet(stored'), NEW v \in Tasks, Pending(v)' PROVE Earlier(u, v)
    <3>1. Pending(v) /\ v # h
      BY <1>5, <2>1
    <3>2. CASE u \in ToSet(stored)
      BY <3>1, <3>2 DEF SortInv
    <3>3. CASE u \notin ToSet(stored)
      <4>1. u = h /\ ~Settled(h)
        BY <1>3, <3>3
      <4>2. v \in ToSet(order) /\ ~Earlier(v, h)
        BY <1>12, <3>1, <4>1 DEF SortInv, Pending
      <4> QED
        BY <1>13, <3>1, <4>1, <4>2, EarlierIsStrict DEF SortInv
    <3> QED
      BY <3>2, <3>3
  <2> QED
    BY <1>6, <2>1
<1>16. (\A t \in Tasks : InPipe(t) \/ t \in ToSet(stored) => t \in ToSet(order))'
  BY <1>2, <1>3, <1>4, <1>13 DEF SortInv
<1>17. InOrder(buffer)' /\ InOrder(batch)' /\ \A f \in files' : InOrder(f)'
  <2>1. PICK b, d : b = buffer /\ d = batch
    OBVIOUS
  <2>2. InOrder(b)' /\ InOrder(d)'
    BY <1>8, <2>1 DEF SortInv
  <2>3. InOrder(buffer)' /\ InOrder(batch)'
    BY <1>2, <2>1, <2>2 DEF InOrder
  <2> QED
    BY <1>2, <1>8, <2>3 DEF SortInv
<1>18. order' \in Seq(Tasks) /\ IsInjective(order)'
  BY <1>2 DEF SortInv, IsInjective
<1> QED
  BY <1>3, <1>4, <1>10, <1>11, <1>14, <1>15, <1>16, <1>17, <1>18 DEF SortInv

\* A task enters the buffer, which holds all that is pending, and may be
\* flushed at once.
LEMMA Entered ==
  ASSUME Shape, SortInv, NEW t \in Tasks, t \notin ToSet(order),
         \A v : Pending(v) => v \in ToSet(buffer),
         order' = Append(order, t), UNCHANGED <<stored, files>>,
         batch = <<>>, todo = <<>>,
         NEW a, a = Append(buffer, t),
         \/ buffer' = a /\ batch' = <<>> /\ todo' = <<>>
         \/ buffer' = <<>> /\ batch' = a /\ todo' = a
  PROVE  /\ SortInv' /\ BatchInv'
         /\ \A v : (InPipe(v)' <=> InPipe(v) \/ v = t) /\ (InMemory(v) => InMemory(v)')
                   /\ (Settled(v)' <=> Settled(v))
         /\ InMemory(t)'
<1>1. /\ order' \in Seq(Tasks) /\ IsInjective(order)' /\ ToSet(order') = ToSet(order) \union {t}
      /\ \A u, v : Earlier(u, v)' <=> Earlier(u, v) \/ (u \in ToSet(order) /\ v = t)
  BY EarlierAppend DEF SortInv
<1>2. /\ buffer \in Seq(Tasks) /\ a \in Seq(Tasks) /\ ToSet(a) = ToSet(buffer) \union {t}
      /\ Len(buffer) \in Nat /\ DOMAIN buffer = 1 .. Len(buffer)
      /\ DOMAIN a = 1 .. Len(buffer) + 1
      /\ \A i \in 1 .. Len(buffer) : a[i] = buffer[i]
      /\ a[Len(buffer) + 1] = t
  <2>1. buffer \in Seq(Tasks)
    BY DEF Shape
  <2>2. a \in Seq(Tasks) /\ Len(a) = Len(buffer) + 1
    BY <2>1, AppendElems
  <2> QED
    BY <2>1, <2>2, AppendElems, SeqElems
<1>3. \A x : x \notin ToSet(<<>>)
  BY EmptySeq DEF ToSet
<1>4. \A v : Settled(v)' <=> Settled(v)
  BY DEF Settled, KeyIn
<1>5. \A v : /\ InPipe(v)' <=> InPipe(v) \/ v = t
             /\ InMemory(v)' <=> InMemory(v) \/ v = t
  <2>1. \A v : InMemory(v)' <=> InMemory(v) \/ v = t
    BY <1>2, <1>3 DEF InMemory
  <2> QED
    BY <2>1 DEF InPipe, InFile
<1>6. ASSUME NEW x, x # t PROVE Ahead(x)' \subseteq Ahead(x)
  <2>1. ASSUME NEW v \in Tasks, Pending(v)', Earlier(v, x)' PROVE Pending(v) /\ Earlier(v, x)
    <3>1. Earlier(v, x)
      BY <1>1, <1>6, <2>1
    <3>2. v # t
      BY <3>1, EarlierIsStrict DEF SortInv
    <3> QED
      BY <1>4, <1>5, <2>1, <3>1, <3>2 DEF Pending
  <2> QED
    BY <2>1 DEF Ahead
<1>7. ASSUME NEW q, InOrder(q), t \notin ToSet(q) PROVE InOrder(q)'
  BY <1>4, <1>6, <1>7, StaysInOrder
<1>8. \A f \in files' : InOrder(f)'
  <2>1. ASSUME NEW f \in files PROVE InOrder(f) /\ t \notin ToSet(f)
    BY DEF SortInv, InPipe, InFile
  <2> QED
    BY <1>7, <2>1
<1>9. InOrder(a)'
  <2>1. ASSUME NEW i \in DOMAIN a, ~Settled(a[i])', NEW v \in Ahead(a[i])'
        PROVE  \E j \in DOMAIN a : j < i /\ a[j] = v
    <3>1. PICK x : x = a[i]
      OBVIOUS
    <3>2. ~Settled(x) /\ v \in Ahead(x)'
      BY <1>4, <2>1, <3>1
    <3>3. CASE i \in 1 .. Len(buffer)
      <4>1. x = buffer[i] /\ x # t
        <5>1. x = buffer[i] /\ x \in ToSet(buffer) /\ x \in Tasks
          BY <1>2, <3>1, <3>3, SeqElems DEF ToSet
        <5> QED
          BY <5>1 DEF SortInv, InPipe, InMemory
      <4>2. v \in Ahead(x) /\ InOrder(buffer)
        BY <1>6, <3>2, <4>1 DEF SortInv
      <4>3. PICK j \in 1 .. Len(buffer) : j < i /\ buffer[j] = v
        BY <1>2, <3>2, <3>3, <4>1, <4>2 DEF InOrder
      <4>4. j \in 1 .. Len(buffer) + 1
        BY <1>2, <4>3
      <4> QED
        BY <1>2, <4>3, <4>4
    <3>4. CASE i = Len(buffer) + 1
      <4>1. x = t /\ v \in Tasks /\ Pending(v)' /\ Earlier(v, t)'
        BY <1>2, <3>1, <3>2, <3>4 DEF Ahead
      <4>2. v \in ToSet(order)
        BY <1>1, <4>1, EarlierIsStrict DEF SortInv
      <4>3. Pending(v)
        BY <1>4, <1>5, <4>1, <4>2 DEF Pending
      <4>4. PICK j \in 1 .. Len(buffer) : buffer[j] = v
        BY <1>2, <4>3 DEF ToSet
      <4>5. j \in 1 .. Len(buffer) + 1 /\ j < i
        BY <1>2, <3>4, <4>4
      <4> QED
        BY <1>2, <4>4, <4>5
    <3> QED
      BY <1>2, <3>3, <3>4
  <2> QED
    BY <2>1 DEF InOrder
<1>10. InOrder(buffer)' /\ InOrder(batch)' /\ InOrder(todo)'
  <2>1. InOrder(<<>>)'
    BY EmptySeq DEF InOrder
  <2>2. CASE buffer' = a /\ batch' = <<>> /\ todo' = <<>>
    BY <1>9, <2>1, <2>2, InOrderNext
  <2>3. CASE buffer' = <<>> /\ batch' = a /\ todo' = a
    BY <1>9, <2>1, <2>3, InOrderNext
  <2> QED
    BY <2>2, <2>3
<1>11. (\A v \in Tasks : InPipe(v) \/ v \in ToSet(stored) => v \in ToSet(order))'
  BY <1>1, <1>5 DEF SortInv
<1>12. (\A i, j \in DOMAIN stored : i < j => Earlier(stored[i], stored[j]))'
  <2>1. ASSUME NEW i \in DOMAIN stored, NEW j \in DOMAIN stored, i < j
        PROVE  Earlier(stored[i], stored[j])'
    <3>1. PICK u, v : stored[i] = u /\ stored[j] = v
      OBVIOUS
    <3>2. Earlier(u, v)'
      BY <1>1, <2>1, <3>1 DEF SortInv
    <3> QED
      BY <3>1, <3>2 DEF Earlier
  <2> QED
    BY <2>1
<1>13. (\A u \in ToSet(stored), v \in Tasks : Pending(v) => Earlier(u, v))'
  <2>1. ASSUME NEW u \in ToSet(stored), NEW v \in Tasks, Pending(v)' PROVE Earlier(u, v)'
    <3>1. CASE v = t
      <4>1. u \in ToSet(order)
        <5>1. u \in Tasks
          BY SeqElems DEF SortInv
        <5> QED
          BY <5>1 DEF SortInv
      <4> QED
        BY <1>1, <3>1, <4>1
    <3>2. CASE v # t
      BY <1>1, <1>4, <1>5, <2>1, <3>2 DEF SortInv, Pending
    <3> QED
      BY <3>1, <3>2
  <2> QED
    BY <2>1
<1>14. SortInv'
  BY <1>1, <1>8, <1>10, <1>11, <1>12, <1>13 DEF SortInv
<1>15. BatchInv'
  BY <1>3 DEF BatchInv
<1> QED
  BY <1>4, <1>5, <1>14, <1>15

----------------------------------------------------------------------------
(* The invariant behind AcceptedIsKept and StoredInOrder.                  *)

Kept(t) == Settled(t) \/ InPipe(t) \/ t \in crashed

\* What the holder's flush carries.
HolderInv == batch # <<>> =>
  /\ Head(lock) \in Tasks => Head(lock) \in ToSet(batch)
  /\ Head(lock) = "starter" => ToSet(boot.reading) \subseteq ToSet(batch)

\* A process has read the backups before it takes calls, and leaves one.
BackupInv ==
  /\ closer.pc = "failed" => buffer \in files
  /\ boot.process # "down" =>
       \A f \in files \ boot.pending : \A v \in ToSet(f) : Settled(v) \/ InMemory(v)
  /\ Up => boot.pending = {}

CallInv ==
  /\ \A t \in Tasks : /\ call[t].pc \in {"new", "keyChecked", "scanned", "waiting", "flushing", "done"}
                      /\ call[t].answer \in Tasks \union {None}
                      /\ t \in ToSet(order) => call[t].pc \in {"flushing", "done"}
  /\ crashed \subseteq Tasks

KeptInv == \A t \in Tasks : call[t].answer # None => Kept(call[t].answer)

CalmInv == CtrlInv /\ SortInv /\ BatchInv /\ HolderInv /\ BackupInv /\ CallInv /\ KeptInv

\* AcceptedIsKept, task by task.
LEMMA KeptIsKept == KeptInv => AcceptedIsKept
BY DEF KeptInv, Kept, Settled, InPipe, InFile, AcceptedIsKept, Promised, OnDisk

\* The holder that flushes keeps the lock, whoever asks for it or leaves.
LEMMA HolderStays ==
  ASSUME CtrlInv, CtrlInv', NEW c \in Actors, batch' = batch, batch # <<>>,
         lock' = lock \/ Ask(c) \/ (Leave(c) /\ ~Flushing(c) /\ Elsewhere(c))
  PROVE  lock # <<>> /\ lock' # <<>> /\ Head(lock') = Head(lock)
<1>1. lock # <<>> /\ Flushing(Head(lock)) /\ lock' # <<>>
  BY DEF CtrlInv, FlushInv
<1>2. CASE Ask(c)
  <2>1. lock \in Seq(Actors) /\ lock' = Append(lock, c)
    BY <1>2 DEF CtrlInv, LockInv, Ask
  <2>2. Len(lock) \in Nat /\ Len(lock) # 0 /\ Head(lock) = lock[1]
    BY <1>1, <2>1, SeqElems, TailElems
  <2>3. lock'[1] = lock[1] /\ lock' \in Seq(Actors)
    BY <2>1, <2>2, AppendElems
  <2> QED
    BY <1>1, <2>2, <2>3, TailElems
<1>3. CASE Leave(c) /\ ~Flushing(c) /\ Elsewhere(c)
  BY <1>1, <1>3, LockLeft DEF CtrlInv
<1> QED
  BY <1>1, <1>2, <1>3

\* What a step without a crash owes to every task.
NothingLost == \A v : /\ Settled(v) => Settled(v)'
                      /\ InMemory(v) => Settled(v)' \/ InMemory(v)'
                      /\ Kept(v) => Kept(v)'

\* Nothing happens to the rows and to the lists.
LEMMA IdleData ==
  ASSUME SortInv, BatchInv, UNCHANGED <<stored, files, buffer, batch, todo, order, crashed>>
  PROVE  SortInv' /\ BatchInv' /\ NothingLost
<1>1. \A v : /\ InPipe(v)' <=> InPipe(v)
             /\ InMemory(v)' <=> InMemory(v)
             /\ Settled(v)' <=> Settled(v)
  BY DEF InPipe, InFile, InMemory, Settled, KeyIn
<1>2. NothingLost
  BY <1>1 DEF NothingLost, Kept
<1>3. BatchInv'
  BY <1>1 DEF BatchInv
<1>4. PICK b, d, e : b = buffer /\ d = batch /\ e = todo
  OBVIOUS
<1>5. InOrder(b) /\ InOrder(d) /\ InOrder(e)
  BY <1>4 DEF SortInv
<1>6. SortInv'
  BY <1>1, <1>4, <1>5, Rearranged
<1> QED
  BY <1>2, <1>3, <1>6

\* A flush begins with the buffer, and perhaps a backup.
LEMMA BegunData ==
  ASSUME SortInv, batch = <<>>, UNCHANGED <<stored, files, order, crashed>>,
         NEW q, InOrder(q), BeginFlush(q), ToSet(buffer) \subseteq ToSet(q),
         \A v \in ToSet(q) : InPipe(v)
  PROVE  SortInv' /\ BatchInv' /\ NothingLost
<1>1. batch' = q /\ todo' = q /\ buffer' = <<>>
  BY DEF BeginFlush
<1>2. \A v : v \notin ToSet(<<>>)
  BY EmptySeq DEF ToSet
<1>3. \A v : /\ InPipe(v)' <=> InPipe(v)
             /\ InMemory(v) => InMemory(v)'
             /\ Settled(v)' <=> Settled(v)
  BY <1>1, <1>2 DEF InPipe, InFile, InMemory, Settled, KeyIn
<1>4. NothingLost
  BY <1>3 DEF NothingLost, Kept
<1>5. BatchInv'
  BY <1>1 DEF BatchInv
<1>6. PICK e : e = <<>>
  OBVIOUS
<1>7. InOrder(e)
  BY <1>6, EmptyInOrder
<1>8. SortInv'
  BY <1>1, <1>3, <1>6, <1>7, Rearranged
<1> QED
  BY <1>4, <1>5, <1>8

\* What has still to get a row stays the same.
SameQueue == \A v : Pending(v)' <=> Pending(v)

\* A flush ends: its tasks have their rows, or they are back in the buffer.
LEMMA EndedData ==
  ASSUME CtrlInv, SortInv, BatchInv, NEW c \in Actors, UNCHANGED crashed,
         \/ /\ Flushed(c)
            /\ files' = files \/ \E f : files' = files \ {f} /\ ToSet(f) \subseteq ToSet(batch)
         \/ FlushRaises(c) /\ files' \in {files, files \union {batch}}
  PROVE  /\ SortInv' /\ BatchInv' /\ NothingLost /\ SameQueue
         /\ Flushed(c) => \A v \in ToSet(batch) : Settled(v)
         /\ FlushRaises(c) => buffer' = batch /\ \A v \in ToSet(batch) : InMemory(v)'
<1>0. /\ batch' = <<>> /\ todo' = <<>> /\ UNCHANGED <<stored, order>> /\ buffer = <<>>
      /\ batch # <<>> /\ buffer \in Seq(Tasks) /\ batch \in Seq(Tasks)
  BY DEF Flushed, FlushRaises, history, CtrlInv, FlushInv, Shape
<1>1. \A v : v \notin ToSet(<<>>)
  BY EmptySeq DEF ToSet
<1>2. Flushed(c) => buffer' = buffer /\ \A v \in ToSet(batch) : Settled(v)
  BY <1>1 DEF Flushed, BatchInv
<1>3. FlushRaises(c) => buffer' = batch
  <2>1. batch \o <<>> = batch
    BY <1>0, ConcatEmptySeq
  <2> QED
    BY <1>0, <2>1 DEF FlushRaises, Refilled
<1>4. \A v : Settled(v)' <=> Settled(v)
  BY <1>0 DEF Settled, KeyIn
<1>5. ASSUME NEW v
      PROVE  /\ InPipe(v)' => InPipe(v)
             /\ InMemory(v) => InMemory(v)' \/ Settled(v)
             /\ InPipe(v) => InPipe(v)' \/ Settled(v)
  <2>1. CASE /\ Flushed(c)
             /\ files' = files \/ \E f : files' = files \ {f} /\ ToSet(f) \subseteq ToSet(batch)
    <3>1. InMemory(v) <=> v \in ToSet(batch)
      BY <1>0, <1>1 DEF InMemory
    <3>2. ~InMemory(v)'
      BY <1>0, <1>1, <1>2, <2>1 DEF InMemory
    <3>3. (InFile(v)' => InFile(v)) /\ (InFile(v) => InFile(v)' \/ Settled(v))
      <4>1. \A g \in files' : g \in files
        BY <2>1
      <4>2. \A g \in files : g \in files' \/ ToSet(g) \subseteq ToSet(batch)
        BY <2>1
      <4> QED
        BY <1>2, <2>1, <4>1, <4>2 DEF InFile
    <3> QED
      BY <1>2, <2>1, <3>1, <3>2, <3>3 DEF InPipe
  <2>2. CASE FlushRaises(c) /\ files' \in {files, files \union {batch}}
    <3>1. InMemory(v)' <=> InMemory(v)
      BY <1>0, <1>3, <2>2 DEF InMemory
    <3>2. (InFile(v) => InFile(v)') /\ (InFile(v)' => InFile(v) \/ v \in ToSet(batch))
      BY <2>2 DEF InFile
    <3> QED
      BY <3>1, <3>2 DEF InPipe, InMemory
  <2> QED
    BY <2>1, <2>2
<1>6. NothingLost /\ SameQueue
  BY <1>4, <1>5 DEF NothingLost, Kept, SameQueue, Pending
<1>7. BatchInv'
  BY <1>0, <1>1 DEF BatchInv
<1>8. PICK b, e : b = buffer' /\ e = <<>>
  OBVIOUS
<1>9. InOrder(b) /\ InOrder(e)
  BY <1>0, <1>2, <1>3, <1>8, EmptyInOrder DEF SortInv
<1>10. \A f \in files' : f \in files \/ f = batch
  OBVIOUS
<1>11. SortInv'
  BY <1>0, <1>5, <1>8, <1>9, <1>10, Rearranged
<1>12. FlushRaises(c) => \A v \in ToSet(batch) : InMemory(v)'
  BY <1>3 DEF InMemory
<1> QED
  BY <1>2, <1>3, <1>6, <1>7, <1>11, <1>12

\* What the holder's flush carries stays when the lock and the flush do.
LEMMA HolderKept ==
  ASSUME CtrlInv, CtrlInv', HolderInv, NEW c \in Actors, batch' = batch,
         boot'.reading = boot.reading,
         lock' = lock \/ Ask(c) \/ (Leave(c) /\ ~Flushing(c) /\ Elsewhere(c))
  PROVE  HolderInv'
<1>1. batch # <<>> => Head(lock') = Head(lock)
  BY HolderStays
<1> QED
  BY <1>1 DEF HolderInv

\* The backups and who has read them, when neither changes.
LEMMA BackupStays ==
  ASSUME BackupInv, NothingLost, UNCHANGED <<files, boot>>,
         closer'.pc = "failed" => closer.pc = "failed" /\ buffer' = buffer
  PROVE  BackupInv'
BY DEF BackupInv, NothingLost, Up

\* The submit calls when none of them moves.
LEMMA CallStays ==
  ASSUME CallInv, KeptInv, NothingLost, UNCHANGED <<call, order, crashed>>
  PROVE  CallInv' /\ KeptInv'
<1>1. CallInv'
  BY DEF CallInv
<1>2. KeptInv'
  BY DEF KeptInv, NothingLost
<1> QED
  BY <1>1, <1>2

\* The submit calls when one of them moves or returns.
LEMMA CallGoes ==
  ASSUME CtrlInv, CallInv, KeptInv, NothingLost, NEW t \in Tasks, UNCHANGED crashed,
         ToSet(order') = ToSet(order) \/ ToSet(order') = ToSet(order) \union {t},
         \/ \E pc \in {"keyChecked", "scanned", "waiting"} : Goto(t, pc) /\ t \notin ToSet(order')
         \/ Goto(t, "flushing")
         \/ \E id \in Tasks \union {None} : Returns(t, id) /\ (id # None => Kept(id)')
  PROVE  CallInv' /\ KeptInv'
<1>0. CallShape
  BY DEF CtrlInv, Shape
<1>1. \A u \in Tasks : u # t => call'[u] = call[u]
  BY <1>0, CallMoves
<1>2. CASE \E pc \in {"keyChecked", "scanned", "waiting"} : Goto(t, pc) /\ t \notin ToSet(order')
  <2>1. /\ call'[t].pc \in {"keyChecked", "scanned", "waiting"} /\ t \notin ToSet(order')
        /\ call'[t].answer = call[t].answer
    BY <1>0, <1>2, CallMoves
  <2>2. CallInv'
    BY <1>1, <2>1 DEF CallInv
  <2>3. KeptInv'
    BY <1>1, <2>1 DEF KeptInv, NothingLost
  <2> QED
    BY <2>2, <2>3
<1>3. CASE Goto(t, "flushing")
  <2>1. call'[t].pc = "flushing" /\ call'[t].answer = call[t].answer
    BY <1>0, <1>3, CallMoves
  <2>2. CallInv'
    BY <1>1, <2>1 DEF CallInv
  <2>3. KeptInv'
    BY <1>1, <2>1 DEF KeptInv, NothingLost
  <2> QED
    BY <2>2, <2>3
<1>4. CASE \E id \in Tasks \union {None} : Returns(t, id) /\ (id # None => Kept(id)')
  <2>1. PICK id \in Tasks \union {None} : Returns(t, id) /\ (id # None => Kept(id)')
    BY <1>4
  <2>2. call'[t].pc = "done" /\ call'[t].answer = id
    BY <1>0, <2>1, CallMoves
  <2>3. CallInv'
    BY <1>1, <2>2 DEF CallInv
  <2>4. KeptInv'
    BY <1>1, <2>1, <2>2 DEF KeptInv, NothingLost
  <2> QED
    BY <2>3, <2>4
<1> QED
  BY <1>2, <1>3, <1>4

\* Who holds the lock has asked for it.
LEMMA HolderAsked ==
  ASSUME CtrlInv, NEW c \in Actors, Holds(c)
  PROVE  Asked(c) /\ closer.pc \notin {"closed", "failed"}
<1>1. lock # <<>> /\ Head(lock) = c /\ LockInv
  BY DEF Holds, CtrlInv
<1>2. lock[1] = c /\ 1 \in DOMAIN lock
  BY <1>1, LockElems
<1> QED
  BY <1>1, <1>2 DEF LockInv, CtrlInv, CloseInv

\* A submit call looks, asks for the lock, or gives up waiting.
LEMMA SubmitLooksCalm ==
  ASSUME CalmInv, CtrlInv', NEW t \in Tasks,
         \/ LookUpKey(t) \/ ScanBuffer(t) \/ EnterAdd(t)
         \/ /\ call[t].pc = "waiting" /\ Leave(t) /\ Raises(t)
            /\ UNCHANGED <<stored, buffer, batch, todo, history, files, timer, closer, boot>>
  PROVE  CalmInv'
<1>0. t \in Actors /\ t \notin {"timer", "closer", "starter"} /\ None \notin Tasks
  BY BufferAssumption DEF Actors
<1>1. /\ CtrlInv /\ SortInv /\ BatchInv /\ HolderInv /\ BackupInv /\ CallInv /\ KeptInv
      /\ CallShape
  BY DEF CalmInv, CtrlInv, Shape
<1>2. UNCHANGED <<stored, files, buffer, batch, todo, order, crashed, timer, closer, boot>>
  BY DEF LookUpKey, ScanBuffer, EnterAdd, history
<1>3. SortInv' /\ BatchInv' /\ NothingLost
  BY <1>1, <1>2, IdleData
<1>4. BackupInv'
  BY <1>1, <1>2, <1>3, BackupStays
<1>5. \/ \E pc \in {"keyChecked", "scanned", "waiting"} : Goto(t, pc) /\ t \notin ToSet(order')
      \/ \E id \in Tasks \union {None} : Returns(t, id) /\ (id # None => Kept(id)')
  <2>1. CASE LookUpKey(t)
    <3>1. CASE KeyIn(stored, t)
      <4>1. PICK id \in ToSet(stored) : Returns(t, id)
        <5>1. \E u \in ToSet(stored) : Key[u] = Key[t]
          BY <3>1 DEF KeyIn
        <5>2. (CHOOSE u \in ToSet(stored) : Key[u] = Key[t]) \in ToSet(stored)
          BY <5>1
        <5> QED
          BY <2>1, <3>1, <5>2 DEF LookUpKey
      <4>2. id \in Tasks /\ Kept(id)
        BY <1>1, SeqElems DEF SortInv, Kept, Settled
      <4>3. Kept(id)'
        BY <1>3, <4>2 DEF NothingLost
      <4> QED
        BY <4>1, <4>2, <4>3
    <3>2. CASE ~KeyIn(stored, t)
      <4>1. t \notin ToSet(order)
        BY <1>1, <2>1 DEF LookUpKey, CallInv
      <4> QED
        BY <1>2, <2>1, <3>2, <4>1 DEF LookUpKey
    <3> QED
      BY <3>1, <3>2
  <2>2. CASE ScanBuffer(t)
    <3>1. t \notin ToSet(order')
      BY <1>1, <1>2, <2>2 DEF ScanBuffer, CallInv
    <3>2. ASSUME NEW i \in DOMAIN buffer, Returns(t, buffer[i])
          PROVE  \E id \in Tasks \union {None} : Returns(t, id) /\ (id # None => Kept(id)')
      <4>1. PICK id : id = buffer[i]
        OBVIOUS
      <4>2. id \in ToSet(buffer)
        BY <4>1 DEF ToSet
      <4>3. id \in Tasks /\ Kept(id)
        BY <1>1, <4>2, SeqElems DEF CtrlInv, Shape, Kept, InPipe, InMemory
      <4>4. Kept(id)'
        BY <1>3, <4>3 DEF NothingLost
      <4> QED
        BY <3>2, <4>1, <4>3, <4>4
    <3> QED
      BY <2>2, <3>1, <3>2 DEF ScanBuffer
  <2>3. CASE EnterAdd(t)
    <3>1. t \notin ToSet(order')
      BY <1>1, <1>2, <2>3 DEF EnterAdd, CallInv
    <3> QED
      BY <2>3, <3>1 DEF EnterAdd, Raises
  <2> QED
    BY <2>1, <2>2, <2>3 DEF Raises
<1>6. CallInv' /\ KeptInv'
  <2>1. ToSet(order') = ToSet(order) /\ UNCHANGED crashed
    BY <1>2
  <2> QED
    BY <1>1, <1>3, <1>5, <2>1, CallGoes
<1>7. HolderInv'
  <2>1. lock' = lock \/ Ask(t) \/ (Leave(t) /\ call[t].pc = "waiting")
    BY DEF LookUpKey, ScanBuffer, EnterAdd
  <2>2. call[t].pc = "waiting" => ~Flushing(t)
    BY <1>0 DEF Flushing
  <2>3. Elsewhere(t)
    <3>1. \A u \in Tasks : u # t => call'[u] = call[u]
      BY <1>1, <1>5, CallMoves
    <3> QED
      BY <1>2, <3>1, OthersStay DEF Up
  <2> QED
    BY <1>0, <1>1, <1>2, <2>1, <2>2, <2>3, HolderKept
<1> QED
  BY <1>3, <1>4, <1>6, <1>7 DEF CalmInv

\* A task enters the buffer.
LEMMA AddCalm ==
  ASSUME CalmInv, CtrlInv', NEW t \in Tasks, Add(t)
  PROVE  CalmInv'
<1>0. t \in Actors /\ t \notin {"timer", "closer", "starter"} /\ None \notin Tasks
  BY BufferAssumption DEF Actors
<1>1. /\ CtrlInv /\ SortInv /\ BatchInv /\ HolderInv /\ BackupInv /\ CallInv /\ KeptInv
      /\ CallShape /\ Shape
  BY DEF CalmInv, CtrlInv, Shape
<1>2. /\ Holds(t) /\ call[t].pc = "waiting" /\ order' = Append(order, t)
      /\ UNCHANGED <<stored, files, closer, boot, crashed>>
  BY DEF Add
<1>3. Up /\ closer.pc # "failed"
  BY <1>0, <1>1, <1>2, HolderAsked DEF Asked
<1>4. batch = <<>> /\ todo = <<>>
  <2>1. batch = <<>>
    BY <1>0, <1>1, <1>2 DEF CtrlInv, FlushInv, Holds, Flushing
  <2>2. ToSet(todo) = {} /\ todo \in Seq(Tasks)
    BY <1>1, <2>1, EmptySeq DEF BatchInv, ToSet, Shape
  <2>3. ASSUME todo # <<>> PROVE FALSE
    <3>1. ToSet(todo) = {Head(todo)} \union ToSet(Tail(todo))
      BY <2>2, <2>3, TailElems
    <3> QED
      BY <2>2, <3>1
  <2> QED
    BY <2>1, <2>2, <2>3
<1>5. \A v : Pending(v) => v \in ToSet(buffer)
  <2>1. \A v : v \notin ToSet(batch)
    BY <1>4, EmptySeq DEF ToSet
  <2>2. \A v : InFile(v) => Settled(v) \/ InMemory(v)
    BY <1>1, <1>3 DEF BackupInv, InFile, Up
  <2> QED
    BY <2>1, <2>2 DEF Pending, InPipe, InMemory
<1>6. t \notin ToSet(order)
  BY <1>1, <1>2 DEF CallInv
<1>7. PICK a : a = Append(buffer, t)
  OBVIOUS
<1>8. \/ /\ buffer' = a /\ batch' = <<>> /\ todo' = <<>>
         /\ Returns(t, t)
      \/ /\ buffer' = <<>> /\ batch' = a /\ todo' = a
         /\ Goto(t, "flushing") /\ lock' = lock
  BY <1>4, <1>7 DEF Add, BeginFlush
<1>9. /\ SortInv' /\ BatchInv' /\ InMemory(t)'
      /\ \A v : (InPipe(v)' <=> InPipe(v) \/ v = t) /\ (InMemory(v) => InMemory(v)')
                /\ (Settled(v)' <=> Settled(v))
  BY <1>1, <1>2, <1>4, <1>5, <1>6, <1>7, <1>8, Entered
<1>10. NothingLost
  BY <1>2, <1>9 DEF NothingLost, Kept
<1>11. BackupInv'
  BY <1>1, <1>2, <1>3, <1>10, BackupStays
<1>12. CallInv' /\ KeptInv'
  <2>1. ToSet(order') = ToSet(order) \union {t}
    BY <1>1, <1>2, AppendElems DEF SortInv
  <2>2. Kept(t)'
    BY <1>9 DEF Kept, InPipe
  <2>3. \/ Goto(t, "flushing")
        \/ \E id \in Tasks \union {None} : Returns(t, id) /\ (id # None => Kept(id)')
    BY <1>8, <2>2
  <2> QED
    BY <1>1, <1>2, <1>10, <2>1, <2>3, CallGoes
<1>13. HolderInv'
  <2>1. CASE batch' = <<>>
    BY <2>1 DEF HolderInv
  <2>2. CASE batch' = a /\ lock' = lock
    <3>1. Head(lock') = t /\ t \in ToSet(batch')
      <4>1. t \in ToSet(a)
        BY <1>1, <1>7, AppendElems DEF Shape
      <4> QED
        BY <1>2, <2>2, <4>1 DEF Holds
    <3> QED
      BY <1>0, <3>1 DEF HolderInv
  <2> QED
    BY <1>8, <2>1, <2>2
<1> QED
  BY <1>9, <1>11, <1>12, <1>13 DEF CalmInv

\* A submit call's flush ends.
LEMMA SubmitEndsCalm ==
  ASSUME CalmInv, CtrlInv', NEW t \in Tasks, AddFlushed(t) \/ AddRaises(t)
  PROVE  CalmInv'
<1>0. t \in Actors /\ t \notin {"timer", "closer", "starter"} /\ None \notin Tasks
  BY BufferAssumption DEF Actors
<1>1. /\ CtrlInv /\ SortInv /\ BatchInv /\ HolderInv /\ BackupInv /\ CallInv /\ KeptInv
  BY DEF CalmInv
<1>2. /\ \/ Flushed(t) /\ Returns(t, t)
         \/ FlushRaises(t) /\ Returns(t, None)
      /\ UNCHANGED <<files, timer, closer, boot>>
  BY DEF AddFlushed, AddRaises, Raises
<1>3. Holds(t) /\ batch # <<>> /\ batch' = <<>> /\ UNCHANGED <<order, crashed>>
  BY <1>2 DEF Flushed, FlushRaises, history
<1>4. /\ SortInv' /\ BatchInv' /\ NothingLost
      /\ Flushed(t) => \A v \in ToSet(batch) : Settled(v)
  BY <1>0, <1>1, <1>2, <1>3, EndedData
<1>5. BackupInv'
  <2>1. closer.pc # "failed"
    BY <1>0, <1>1, <1>3, HolderAsked
  <2> QED
    BY <1>1, <1>2, <1>4, <2>1, BackupStays
<1>6. CallInv' /\ KeptInv'
  <2>1. t \in ToSet(batch)
    BY <1>1, <1>3 DEF HolderInv, Holds
  <2>2. Flushed(t) => Kept(t)'
    BY <1>4, <2>1 DEF NothingLost, Kept
  <2>3. \E id \in Tasks \union {None} : Returns(t, id) /\ (id # None => Kept(id)')
    BY <1>2, <2>2
  <2>4. ToSet(order') = ToSet(order)
    BY <1>3
  <2> QED
    BY <1>1, <1>3, <1>4, <2>3, <2>4, CallGoes
<1>7. HolderInv'
  BY <1>3 DEF HolderInv
<1> QED
  BY <1>4, <1>5, <1>6, <1>7 DEF CalmInv

\* The timer.
LEMMA TimerCalm ==
  ASSUME CalmInv, CtrlInv', TimerWakes \/ TimerRuns \/ TimerFlushed \/ TimerFlushRaises
  PROVE  CalmInv'
<1>0. "timer" \in Actors /\ "timer" \notin Tasks
  BY BufferAssumption DEF Actors
<1>1. /\ CtrlInv /\ SortInv /\ BatchInv /\ HolderInv /\ BackupInv /\ CallInv /\ KeptInv
  BY DEF CalmInv
<1>2. UNCHANGED <<files, call, closer, boot, order, crashed>>
  BY DEF TimerWakes, TimerRuns, TimerFlushed, TimerFlushRaises, Flushed, FlushRaises, history
<1>3. ASSUME SortInv', BatchInv', NothingLost, HolderInv', closer.pc # "failed" \/ buffer' = buffer
      PROVE  CalmInv'
  <2>1. BackupInv'
    BY <1>1, <1>2, <1>3, BackupStays
  <2>2. CallInv' /\ KeptInv'
    BY <1>1, <1>2, <1>3, CallStays
  <2> QED
    BY <1>3, <2>1, <2>2 DEF CalmInv
<1>4. CASE TimerWakes
  <2>1. Ask("timer") /\ UNCHANGED <<stored, buffer, batch, todo>>
    BY <1>4 DEF TimerWakes
  <2>2. HolderInv'
    BY <1>0, <1>1, <1>2, <2>1, HolderKept
  <2> QED
    BY <1>1, <1>2, <1>3, <2>1, <2>2, IdleData
<1>5. CASE TimerRuns
  <2>0. Holds("timer") /\ timer = "wait" /\ stored' = stored
    BY <1>5 DEF TimerRuns
  <2>1. batch = <<>> /\ closer.pc # "failed"
    <3>1. ~Flushing("timer")
      BY <1>0, <2>0 DEF Flushing
    <3> QED
      BY <1>0, <1>1, <2>0, <3>1, HolderAsked DEF CtrlInv, FlushInv, Holds
  <2>2. CASE buffer = <<>>
    <3>1. UNCHANGED <<buffer, batch, todo>>
      BY <1>5, <2>2 DEF TimerRuns
    <3>2. HolderInv'
      BY <2>1, <3>1 DEF HolderInv
    <3> QED
      BY <1>1, <1>2, <1>3, <2>0, <3>1, <3>2, IdleData
  <2>3. CASE buffer # <<>>
    <3>1. BeginFlush(buffer) /\ lock' = lock
      BY <1>5, <2>3 DEF TimerRuns
    <3>2. PICK q : q = buffer
      OBVIOUS
    <3>3. InOrder(q) /\ \A v \in ToSet(q) : InPipe(v)
      BY <1>1, <3>2 DEF SortInv, InPipe, InMemory
    <3>4. SortInv' /\ BatchInv' /\ NothingLost
      BY <1>1, <1>2, <2>0, <2>1, <3>1, <3>2, <3>3, BegunData
    <3>5. HolderInv'
      BY <1>0, <2>0, <3>1 DEF HolderInv, Holds
    <3> QED
      BY <1>3, <2>1, <3>4, <3>5
  <2> QED
    BY <2>2, <2>3
<1>6. CASE TimerFlushed \/ TimerFlushRaises
  <2>1. (Flushed("timer") \/ FlushRaises("timer")) /\ Holds("timer") /\ batch' = <<>>
    BY <1>6 DEF TimerFlushed, TimerFlushRaises, Flushed, FlushRaises
  <2>2. SortInv' /\ BatchInv' /\ NothingLost
    BY <1>0, <1>1, <1>2, <2>1, EndedData
  <2>3. HolderInv' /\ closer.pc # "failed"
    BY <1>0, <1>1, <2>1, HolderAsked DEF HolderInv
  <2> QED
    BY <1>3, <2>2, <2>3
<1> QED
  BY <1>4, <1>5, <1>6

\* close(), which cancels no flush.
LEMMA CloseCalm ==
  ASSUME Calm = TRUE, CalmInv, CtrlInv',
         BeginClose \/ EnterClose \/ CloseRuns \/ CloseFlushed \/ CloseFlushRaises
  PROVE  CalmInv'
<1>0. /\ "timer" \in Actors /\ "timer" \notin Tasks /\ "closer" \in Actors /\ "closer" \notin Tasks
  BY BufferAssumption DEF Actors
<1>1. /\ CtrlInv /\ SortInv /\ BatchInv /\ HolderInv /\ BackupInv /\ CallInv /\ KeptInv
      /\ closer \in [pc : {"none", "enter", "wait", "flush", "closed", "failed"},
                     attempt : 0 .. CloseAttempts]
  BY DEF CalmInv, CtrlInv, Shape
<1>2. UNCHANGED <<call, boot, order, crashed>>
  BY DEF BeginClose, EnterClose, CloseRuns, CloseFlushed, CloseFlushRaises, Flushed, FlushRaises,
         FlushCancelled, history
<1>3. ASSUME SortInv', BatchInv', NothingLost, HolderInv', BackupInv' PROVE CalmInv'
  <2>1. CallInv' /\ KeptInv'
    BY <1>1, <1>2, <1>3, CallStays
  <2> QED
    BY <1>3, <2>1 DEF CalmInv
<1>4. CASE BeginClose
  <2>1. /\ UNCHANGED <<stored, files, buffer, batch, todo>> /\ closer'.pc = "enter" /\ Open
        /\ lock' = lock \/ (Leave("timer") /\ timer = "wait")
    BY <1>4 DEF BeginClose, FlushCancelled
  <2>2. SortInv' /\ BatchInv' /\ NothingLost
    BY <1>1, <1>2, <2>1, IdleData
  <2>3. BackupInv'
    BY <1>1, <1>2, <2>1, <2>2, BackupStays
  <2>4. HolderInv'
    <3>1. timer = "wait" => ~Flushing("timer")
      BY <1>0 DEF Flushing
    <3>2. Elsewhere("timer")
      BY <1>2, <2>1, OthersStay DEF Up, Open
    <3> QED
      BY <1>0, <1>1, <1>2, <2>1, <3>1, <3>2, HolderKept
  <2> QED
    BY <1>3, <2>2, <2>3, <2>4
<1>5. CASE EnterClose
  <2>1. /\ Ask("closer") /\ UNCHANGED <<stored, files, buffer, batch, todo>> /\ closer'.pc = "wait"
    BY <1>1, <1>5 DEF EnterClose
  <2>2. SortInv' /\ BatchInv' /\ NothingLost
    BY <1>1, <1>2, <2>1, IdleData
  <2>3. BackupInv'
    BY <1>1, <1>2, <2>1, <2>2, BackupStays
  <2>4. HolderInv'
    BY <1>0, <1>1, <1>2, <2>1, HolderKept
  <2> QED
    BY <1>3, <2>2, <2>3, <2>4
<1>6. CASE CloseRuns
  <2>0. Holds("closer") /\ closer.pc = "wait" /\ stored' = stored /\ files' = files
        /\ closer'.pc # "failed"
    BY <1>1, <1>6 DEF CloseRuns
  <2>1. batch = <<>>
    <3>1. ~Flushing("closer")
      BY <1>0, <2>0 DEF Flushing
    <3> QED
      BY <1>1, <2>0, <3>1 DEF CtrlInv, FlushInv, Holds
  <2>2. CASE buffer = <<>>
    <3>1. UNCHANGED <<buffer, batch, todo>>
      BY <1>6, <2>2 DEF CloseRuns
    <3>2. HolderInv'
      BY <2>1, <3>1 DEF HolderInv
    <3>3. SortInv' /\ BatchInv' /\ NothingLost
      BY <1>1, <1>2, <2>0, <3>1, IdleData
    <3>4. BackupInv'
      BY <1>1, <1>2, <2>0, <3>3, BackupStays
    <3> QED
      BY <1>3, <3>2, <3>3, <3>4
  <2>3. CASE buffer # <<>>
    <3>1. BeginFlush(buffer) /\ lock' = lock
      BY <1>6, <2>3 DEF CloseRuns
    <3>2. PICK q : q = buffer
      OBVIOUS
    <3>3. InOrder(q) /\ \A v \in ToSet(q) : InPipe(v)
      BY <1>1, <3>2 DEF SortInv, InPipe, InMemory
    <3>4. SortInv' /\ BatchInv' /\ NothingLost
      BY <1>1, <1>2, <2>0, <2>1, <3>1, <3>2, <3>3, BegunData
    <3>5. HolderInv'
      BY <1>0, <2>0, <3>1 DEF HolderInv, Holds
    <3>6. BackupInv'
      BY <1>1, <1>2, <2>0, <3>4, BackupStays
    <3> QED
      BY <1>3, <3>4, <3>5, <3>6
  <2> QED
    BY <2>2, <2>3
<1>7. CASE CloseFlushed
  <2>1. /\ Flushed("closer") /\ Holds("closer") /\ batch' = <<>> /\ closer'.pc = "closed"
        /\ files' = files
    BY <1>1, <1>7 DEF CloseFlushed, Flushed
  <2>2. SortInv' /\ BatchInv' /\ NothingLost
    BY <1>0, <1>1, <1>2, <2>1, EndedData
  <2>3. HolderInv'
    BY <2>1 DEF HolderInv
  <2>4. BackupInv'
    BY <1>1, <1>2, <2>1, <2>2, BackupStays
  <2> QED
    BY <1>3, <2>2, <2>3, <2>4
<1>8. CASE CloseFlushRaises
  <2>1. /\ FlushRaises("closer") /\ batch' = <<>>
        /\ \/ closer'.pc = "enter" /\ files' = files
           \/ closer'.pc = "failed" /\ files' = files \union {batch}
    BY <1>1, <1>8 DEF CloseFlushRaises, FlushRaises
  <2>2. /\ SortInv' /\ BatchInv' /\ NothingLost
        /\ buffer' = batch /\ \A v \in ToSet(batch) : InMemory(v)'
    BY <1>0, <1>1, <1>2, <2>1, EndedData
  <2>3. HolderInv'
    BY <2>1 DEF HolderInv
  <2>4. BackupInv'
    <3>1. (closer.pc = "failed" => buffer \in files)'
      BY <2>1, <2>2
    <3>2. ASSUME boot.process # "down", NEW f \in files' \ boot.pending, NEW v \in ToSet(f)
          PROVE  Settled(v)' \/ InMemory(v)'
      <4>1. CASE f \in files
        <5>1. Settled(v) \/ InMemory(v)
          BY <1>1, <3>2, <4>1 DEF BackupInv
        <5> QED
          BY <2>2, <5>1 DEF NothingLost
      <4>2. CASE f = batch
        BY <2>2, <3>2, <4>2
      <4> QED
        BY <2>1, <4>1, <4>2
    <3>3. (Up => boot.pending = {})'
      BY <1>1, <1>2 DEF BackupInv, Up
    <3> QED
      BY <1>2, <3>1, <3>2, <3>3 DEF BackupInv
  <2> QED
    BY <1>3, <2>2, <2>3, <2>4
<1> QED
  BY <1>4, <1>5, <1>6, <1>7, <1>8

\* The process starts and reads the backups.
LEMMA BootCalm ==
  ASSUME CalmInv, CtrlInv',
         Start \/ RecoverFile \/ RecoverFlushed \/ RecoverFlushRaises \/ Started
  PROVE  CalmInv'
<1>0. /\ "starter" \in Actors /\ "starter" \notin Tasks
  BY BufferAssumption DEF Actors
<1>1. /\ CtrlInv /\ SortInv /\ BatchInv /\ HolderInv /\ BackupInv /\ CallInv /\ KeptInv
      /\ boot \in [process : {"down", "starting", "up"}, pending : SUBSET files,
                   reading : Seq(Tasks), starts : 0 .. MaxStarts]
      /\ Shape
  BY DEF CalmInv, CtrlInv, Shape
<1>2. UNCHANGED <<call, closer, order, crashed>>
  BY DEF Start, RecoverFile, RecoverFlushed, RecoverFlushRaises, Started, Flushed, FlushRaises,
         history
<1>3. ASSUME SortInv', BatchInv', NothingLost, HolderInv', BackupInv' PROVE CalmInv'
  <2>1. CallInv' /\ KeptInv'
    BY <1>1, <1>2, <1>3, CallStays
  <2> QED
    BY <1>3, <2>1 DEF CalmInv
<1>4. CASE Start
  <2>1. /\ UNCHANGED <<stored, files, buffer, batch, todo, lock>>
        /\ boot'.process = "starting" /\ boot'.pending = files /\ boot'.reading = <<>>
    BY <1>4 DEF Start
  <2>2. SortInv' /\ BatchInv' /\ NothingLost
    BY <1>1, <1>2, <2>1, IdleData
  <2>3. HolderInv'
    <3>1. ToSet(<<>>) = {}
      BY EmptySeq DEF ToSet
    <3> QED
      BY <1>1, <2>1, <3>1 DEF HolderInv
  <2>4. BackupInv'
    BY <1>1, <1>2, <2>1 DEF BackupInv, Up
  <2> QED
    BY <1>3, <2>2, <2>3, <2>4
<1>5. CASE Started
  <2>1. /\ UNCHANGED <<stored, files, buffer, batch, todo, lock>>
        /\ boot.process = "starting" /\ boot.pending = {} /\ boot'.pending = {}
        /\ boot'.reading = boot.reading
    BY <1>1, <1>5 DEF Started
  <2>2. SortInv' /\ BatchInv' /\ NothingLost
    BY <1>1, <1>2, <2>1, IdleData
  <2>3. HolderInv'
    BY <1>1, <2>1 DEF HolderInv
  <2>4. BackupInv'
    BY <1>1, <1>2, <2>1, <2>2 DEF BackupInv, NothingLost
  <2> QED
    BY <1>3, <2>2, <2>3, <2>4
<1>6. CASE RecoverFile
  <2>1. PICK f \in boot.pending :
          /\ BeginFlush(buffer \o f) /\ boot' = [boot EXCEPT !.reading = f]
          /\ boot.process = "starting" /\ lock = <<>> /\ Ask("starter")
          /\ UNCHANGED <<stored, files>>
    BY <1>6 DEF RecoverFile
  <2>2. f \in files /\ f \in Seq(Tasks) /\ buffer \in Seq(Tasks)
    BY <1>1 DEF Shape
  <2>3. PICK q : q = buffer \o f
    OBVIOUS
  <2>4. ToSet(q) = ToSet(buffer) \union ToSet(f)
    BY <2>2, <2>3, ConcatElems
  <2>5. InOrder(q)
    <3>1. PICK b \in Seq(Tasks) : b = buffer
      BY <2>2
    <3>2. InOrder(b) /\ InOrder(f)
      BY <1>1, <2>2, <3>1 DEF SortInv
    <3> QED
      BY <2>2, <2>3, <3>1, <3>2, ConcatInOrder
  <2>6. \A v \in ToSet(q) : InPipe(v)
    BY <2>2, <2>4 DEF InPipe, InMemory, InFile
  <2>7. batch = <<>>
    BY <1>1, <2>1 DEF CtrlInv, FlushInv
  <2>8. SortInv' /\ BatchInv' /\ NothingLost
    BY <1>1, <1>2, <2>1, <2>3, <2>4, <2>5, <2>6, <2>7, BegunData
  <2>9. HolderInv'
    <3>1. lock' = <<"starter">>
      BY <2>1 DEF Ask
    <3>2. Head(lock') = "starter"
      BY <3>1
    <3>3. boot'.reading = f /\ batch' = q
      BY <1>1, <2>1, <2>3 DEF BeginFlush
    <3> QED
      BY <1>0, <2>4, <3>2, <3>3 DEF HolderInv
  <2>10. BackupInv'
    <3>1. boot'.process = "starting" /\ boot'.pending = boot.pending /\ Open
      BY <1>1, <2>1 DEF CtrlInv, CloseInv, Up
    <3> QED
      BY <1>1, <1>2, <2>1, <2>8, <3>1 DEF BackupInv, NothingLost, Up, Open
  <2> QED
    BY <1>3, <2>8, <2>9, <2>10
<1>7. CASE RecoverFlushed \/ RecoverFlushRaises
  <2> DEFINE f == boot.reading
  <2>1. /\ \/ Flushed("starter") /\ files' = files \ {f}
           \/ FlushRaises("starter") /\ files' = files
        /\ batch' = <<>> /\ batch # <<>> /\ Holds("starter")
        /\ boot'.process = boot.process /\ boot'.pending = boot.pending \ {f}
    BY <1>1, <1>7 DEF RecoverFlushed, RecoverFlushRaises, ReadOn, Flushed, FlushRaises
  <2>2. ToSet(f) \subseteq ToSet(batch)
    BY <1>1, <2>1 DEF HolderInv, Holds
  <2>3. /\ SortInv' /\ BatchInv' /\ NothingLost
        /\ FlushRaises("starter") => \A v \in ToSet(batch) : InMemory(v)'
    BY <1>0, <1>1, <1>2, <2>1, <2>2, EndedData
  <2>4. HolderInv'
    BY <2>1 DEF HolderInv
  <2>5. BackupInv'
    <3>1. closer.pc # "failed"
      BY <1>0, <1>1, <2>1, HolderAsked
    <3>2. ASSUME boot.process # "down", NEW g \in files' \ boot'.pending, NEW v \in ToSet(g)
          PROVE  Settled(v)' \/ InMemory(v)'
      <4>1. CASE g \in files \ boot.pending
        <5>1. Settled(v) \/ InMemory(v)
          BY <1>1, <3>2, <4>1 DEF BackupInv
        <5> QED
          BY <2>3, <5>1 DEF NothingLost
      <4>2. CASE g = f /\ FlushRaises("starter")
        BY <2>2, <2>3, <3>2, <4>2
      <4> QED
        BY <2>1, <4>1, <4>2
    <3>3. (Up => boot.pending = {})'
      BY <1>1, <2>1 DEF BackupInv, Up
    <3> QED
      BY <1>2, <2>1, <3>1, <3>2, <3>3 DEF BackupInv
  <2> QED
    BY <1>3, <2>3, <2>4, <2>5
<1> QED
  BY <1>4, <1>5, <1>6, <1>7

\* The process ends; what was only in its memory is lost in a crash.
LEMMA GoneCalm ==
  ASSUME CalmInv, CtrlInv', Exit \/ Crash
  PROVE  CalmInv'
<1>1. /\ CtrlInv /\ SortInv /\ BatchInv /\ HolderInv /\ BackupInv /\ CallInv /\ KeptInv
      /\ Shape
  BY DEF CalmInv, CtrlInv
<1>2. /\ buffer' = <<>> /\ batch' = <<>> /\ todo' = <<>> /\ closer' = NotClosing
      /\ UNCHANGED <<stored, files, order>>
      /\ \A t \in Tasks : call'[t] = IF call[t].pc = "new" THEN call[t]
                                                          ELSE [call[t] EXCEPT !.pc = "done"]
      /\ boot' = [boot EXCEPT !.process = "down", !.pending = {}, !.reading = <<>>]
  BY DEF Exit, Crash, Gone
<1>3. boot'.process = "down" /\ boot'.pending = {}
  <2>1. boot \in [process : {"down", "starting", "up"}, pending : SUBSET files,
                  reading : Seq(Tasks), starts : 0 .. MaxStarts]
    BY <1>1 DEF Shape
  <2> QED
    BY <1>2, <2>1
<1>4. \A v : v \notin ToSet(<<>>)
  BY EmptySeq DEF ToSet
<1>5. \A v : /\ Settled(v)' <=> Settled(v)
             /\ InPipe(v)' <=> InFile(v)
  BY <1>2, <1>4 DEF Settled, KeyIn, InPipe, InMemory, InFile
<1>6. SortInv'
  <2>1. PICK e : e = <<>>
    OBVIOUS
  <2>2. InOrder(e)
    BY <2>1, EmptyInOrder
  <2> QED
    BY <1>1, <1>2, <1>5, <2>1, <2>2, Rearranged DEF InPipe
<1>7. BatchInv' /\ HolderInv'
  BY <1>2, <1>4 DEF BatchInv, HolderInv
<1>8. BackupInv'
  BY <1>2, <1>3 DEF BackupInv, NotClosing, Up
<1>9. crashed' \subseteq Tasks
  <2>1. ToSet(buffer) \subseteq Tasks /\ ToSet(batch) \subseteq Tasks
    BY <1>1, SeqElems DEF Shape
  <2> QED
    BY <1>1, <2>1 DEF Exit, Crash, CallInv
<1>10. \A t : Kept(t) => Kept(t)'
  <2>1. CASE Exit
    <3>1. UNCHANGED crashed /\ closer.pc \in {"closed", "failed"}
      BY <2>1 DEF Exit
    <3>2. batch = <<>> /\ (buffer = <<>> \/ buffer \in files)
      BY <1>1, <3>1 DEF CtrlInv, CloseInv, FlushInv, BackupInv
    <3>3. \A t : InMemory(t) => InFile(t)
      BY <1>4, <3>2 DEF InMemory, InFile
    <3> QED
      BY <1>5, <3>1, <3>3 DEF Kept, InPipe
  <2>2. CASE Crash
    <3>1. crashed' = crashed \union ToSet(buffer) \union ToSet(batch)
      BY <2>2 DEF Crash
    <3> QED
      BY <1>5, <3>1 DEF Kept, InPipe, InMemory
  <2> QED
    BY <2>1, <2>2
<1>11. \A t \in Tasks : /\ call'[t].answer = call[t].answer
                        /\ call'[t].pc = call[t].pc \/ call'[t].pc = "done"
  <2>1. ASSUME NEW t \in Tasks
        PROVE  /\ call'[t].answer = call[t].answer
               /\ call'[t].pc = call[t].pc \/ call'[t].pc = "done"
    <3>1. PICK p, a : call[t] = [pc |-> p, answer |-> a]
      BY <1>1 DEF Shape, CallShape
    <3>2. [call[t] EXCEPT !.pc = "done"] = [pc |-> "done", answer |-> a]
      BY <3>1
    <3>3. call'[t] = [pc |-> p, answer |-> a] \/ call'[t] = [pc |-> "done", answer |-> a]
      BY <1>2, <3>1, <3>2
    <3> QED
      BY <3>1, <3>3
  <2> QED
    BY <2>1
<1>12. CallInv'
  BY <1>1, <1>2, <1>9, <1>11 DEF CallInv
<1>13. KeptInv'
  BY <1>1, <1>10, <1>11 DEF KeptInv
<1> QED
  BY <1>6, <1>7, <1>8, <1>12, <1>13 DEF CalmInv

\* A row is stored, or nothing happens.
LEMMA RowCalm ==
  ASSUME CalmInv, CtrlInv', InsertRow \/ UNCHANGED vars
  PROVE  CalmInv'
<1>1. /\ CtrlInv /\ SortInv /\ BatchInv /\ HolderInv /\ BackupInv /\ CallInv /\ KeptInv
      /\ Shape
  BY DEF CalmInv, CtrlInv
<1>2. UNCHANGED <<files, buffer, batch, lock, call, timer, closer, boot, order, crashed>>
  BY DEF InsertRow, vars, history
<1>3. SortInv' /\ BatchInv' /\ NothingLost
  <2>1. CASE InsertRow
    <3>1. /\ SortInv' /\ BatchInv'
          /\ \A t : (Settled(t) => Settled(t)') /\ (InPipe(t)' <=> InPipe(t))
      BY <1>1, <2>1, RowInserted
    <3>2. \A t : InMemory(t)' <=> InMemory(t)
      BY <1>2 DEF InMemory
    <3> QED
      BY <1>2, <3>1, <3>2 DEF NothingLost, Kept
  <2>2. CASE UNCHANGED vars
    BY <1>1, <2>2, IdleData DEF vars
  <2> QED
    BY <2>1, <2>2
<1>4. BackupInv'
  BY <1>1, <1>2, <1>3, BackupStays
<1>5. CallInv' /\ KeptInv'
  BY <1>1, <1>2, <1>3, CallStays
<1>6. HolderInv'
  BY <1>1, <1>2 DEF HolderInv
<1> QED
  BY <1>3, <1>4, <1>5, <1>6 DEF CalmInv

\* The invariant holds at first.
LEMMA InitCalmInv == Init => CalmInv
<1> SUFFICES ASSUME Init PROVE CalmInv
  OBVIOUS
<1>1. \A v : v \notin ToSet(<<>>)
  BY EmptySeq DEF ToSet
<1>2. CtrlInv
  BY InitCtrlInv
<1>3. /\ stored = <<>> /\ files = {} /\ buffer = <<>> /\ batch = <<>> /\ todo = <<>>
      /\ order = <<>> /\ crashed = {}
      /\ boot = [process |-> "down", pending |-> {}, reading |-> <<>>, starts |-> 0]
      /\ closer = NotClosing
      /\ \A t \in Tasks : call[t].pc = "new" /\ call[t].answer = None
  BY DEF Init
<1>4. SortInv
  <2>1. stored \in Seq(Tasks) /\ order \in Seq(Tasks) /\ IsInjective(order)
    BY <1>3, EmptySeq DEF IsInjective
  <2>2. InOrder(buffer) /\ InOrder(batch) /\ InOrder(todo)
    BY <1>3, EmptyInOrder
  <2>3. \A t : ~InPipe(t) /\ t \notin ToSet(stored)
    BY <1>1, <1>3 DEF InPipe, InMemory, InFile
  <2>4. \A i, j \in DOMAIN stored : i < j => Earlier(stored[i], stored[j])
    BY <1>3, EmptySeq
  <2> QED
    BY <1>3, <2>1, <2>2, <2>3, <2>4 DEF SortInv
<1>5. BatchInv /\ HolderInv /\ BackupInv
  BY <1>1, <1>3 DEF BatchInv, HolderInv, BackupInv, NotClosing, Up
<1>6. CallInv /\ KeptInv
  BY <1>1, <1>3 DEF CallInv, KeptInv
<1> QED
  BY <1>2, <1>4, <1>5, <1>6 DEF CalmInv

\* Every step keeps the invariant, as long as no flush is cancelled.
LEMMA NextCalmInv == Calm = TRUE => (CalmInv /\ [Next]_vars => CalmInv')
<1> SUFFICES ASSUME Calm = TRUE, CalmInv, [Next]_vars PROVE CalmInv'
  OBVIOUS
<1>0. CtrlInv'
  BY NextCtrlInv DEF CalmInv
<1>1. CASE InsertRow \/ UNCHANGED vars
  BY <1>0, <1>1, RowCalm
<1>2. CASE \E t \in Tasks : SubmitStep(t)
  BY <1>0, <1>2, SubmitLooksCalm, AddCalm, SubmitEndsCalm DEF SubmitStep
<1>3. CASE \E t \in Tasks : AddRaises(t) \/ CancelSubmit(t)
  <2>1. PICK t \in Tasks : AddRaises(t) \/ CancelSubmit(t)
    BY <1>3
  <2>2. CASE AddRaises(t)
    BY <1>0, <2>2, SubmitEndsCalm
  <2>3. CASE CancelSubmit(t)
    <3>1. /\ call[t].pc = "waiting" /\ Leave(t) /\ Raises(t)
          /\ UNCHANGED <<stored, buffer, batch, todo, history, files, timer, closer, boot>>
      BY <2>3 DEF CancelSubmit, FlushCancelled
    <3> QED
      BY <1>0, <3>1, SubmitLooksCalm
  <2> QED
    BY <2>1, <2>2, <2>3
<1>4. CASE TimerStep \/ TimerFlushRaises
  BY <1>0, <1>4, TimerCalm DEF TimerStep
<1>5. CASE BeginClose \/ CloseStep \/ CloseFlushRaises
  BY <1>0, <1>5, CloseCalm DEF CloseStep
<1>6. CASE Exit \/ Crash
  BY <1>0, <1>6, GoneCalm
<1>7. CASE BootStep \/ RecoverFlushRaises
  BY <1>0, <1>7, BootCalm DEF BootStep
<1> QED
  BY <1>1, <1>2, <1>3, <1>4, <1>5, <1>6, <1>7 DEF Next, Undisturbed, Fault

\* While no flush is cancelled the lists, the rows, the backups and the calls
\* stay as SortInv, BatchInv, HolderInv, BackupInv, CallInv and KeptInv say.
THEOREM Calmly == ASSUME Calm = TRUE PROVE Spec => []CalmInv
<1>1. CalmInv /\ [Next]_vars => CalmInv'
  BY NextCalmInv
<1> QED
  BY <1>1, InitCalmInv, PTL DEF Spec

\* AcceptedIsKept: what a returned id stands for is in the table, in a backup,
\* in the buffer or in the flush in progress, unless a crash took it or another
\* submission with its idempotency key came first.
THEOREM NothingAcceptedIsLost == ASSUME Calm = TRUE PROVE Spec => []AcceptedIsKept
<1>1. CalmInv => AcceptedIsKept
  BY KeptIsKept DEF CalmInv
<1> QED
  BY <1>1, Calmly, PTL

\* StoredInOrder: rows are stored in the order in which their tasks entered
\* the buffer, through failed flushes, shutdowns, backups and recoveries.
THEOREM FirstComeFirstStored == ASSUME Calm = TRUE PROVE Spec => []StoredInOrder
<1>1. CalmInv => StoredInOrder
  <2> SUFFICES ASSUME CalmInv, NEW i \in DOMAIN stored, NEW j \in DOMAIN stored, i < j
               PROVE  (CHOOSE n \in DOMAIN order : order[n] = stored[i])
                        < (CHOOSE n \in DOMAIN order : order[n] = stored[j])
    BY DEF StoredInOrder
  <2>1. order \in Seq(Tasks) /\ IsInjective(order) /\ Earlier(stored[i], stored[j])
    BY DEF CalmInv, SortInv
  <2>2. PICK k, l \in DOMAIN order : k < l /\ order[k] = stored[i] /\ order[l] = stored[j]
    BY <2>1 DEF Earlier
  <2>3. \A m, n \in DOMAIN order : order[m] = order[n] => m = n
    BY <2>1 DEF IsInjective
  <2>4. (CHOOSE n \in DOMAIN order : order[n] = stored[i]) = k
    BY <2>2, <2>3
  <2>5. (CHOOSE n \in DOMAIN order : order[n] = stored[j]) = l
    BY <2>2, <2>3
  <2> QED
    BY <2>2, <2>4, <2>5
<1> QED
  BY <1>1, Calmly, PTL

\* TypeOK: the shapes of the lists, and that no task has two rows.
THEOREM TypeCorrect == ASSUME Calm = TRUE PROVE Spec => []TypeOK
<1>1. CalmInv => TypeOK
  <2> SUFFICES ASSUME CalmInv PROVE TypeOK
    OBVIOUS
  <2>1. CtrlInv /\ Shape /\ LockInv /\ SortInv /\ CallInv
    BY DEF CalmInv, CtrlInv
  <2>2. IsInjective(stored)
    <3>1. \A u : ~Earlier(u, u)
      BY <2>1, EarlierIsStrict DEF SortInv
    <3>2. Len(stored) \in Nat /\ DOMAIN stored = 1 .. Len(stored)
      BY <2>1, SeqElems DEF SortInv
    <3>3. ASSUME NEW i \in DOMAIN stored, NEW j \in DOMAIN stored, stored[i] = stored[j], i # j
          PROVE  FALSE
      <4>1. i < j \/ j < i
        BY <3>2, <3>3
      <4>2. Earlier(stored[i], stored[j]) \/ Earlier(stored[j], stored[i])
        BY <2>1, <4>1 DEF SortInv
      <4> QED
        BY <3>1, <3>3, <4>2
    <3> QED
      BY <3>3 DEF IsInjective
  <2>3. call \in [Tasks -> [pc : {"new", "keyChecked", "scanned", "waiting", "flushing", "done"},
                            answer : Tasks \union {None}]]
    BY <2>1 DEF Shape, CallShape, CallInv
  <2>4. \A f \in files : f \in Seq(Tasks)
    BY <2>1 DEF Shape
  <2>5. /\ closer \in [pc : {"none", "enter", "wait", "flush", "closed", "failed"},
                       attempt : 0 .. CloseAttempts]
        /\ boot.process \in {"down", "starting", "up"} /\ boot.pending \subseteq files
        /\ boot.reading \in Seq(Tasks) /\ boot.starts \in 0 .. MaxStarts
    BY <2>1 DEF Shape
  <2> QED
    BY <2>1, <2>2, <2>3, <2>4, <2>5 DEF TypeOK, Shape, LockInv, SortInv, CallInv
<1> QED
  BY <1>1, Calmly, PTL

----------------------------------------------------------------------------
(* Refinement.  What Intake sees of a step: the rows, the order of entry,  *)
(* the tasks that have still to get a row, the answers and the losses.     *)

waits   == {t \in Tasks : Pending(t)}
answers == [t \in Tasks |-> call[t].answer]

\* A submit call that has returned an id has returned.
AnswerInv == \A t \in Tasks : call[t].answer # None => call[t].pc = "done"

\* The operators of Intake, in terms of the buffer's.
LEMMA IntakeTerms ==
  /\ \A t : Submission!In(t, order) <=> t \in ToSet(order)
  /\ \A t : Submission!HasRow(t) <=> Settled(t)
  /\ \A t, u : Submission!Before(t, u) <=> Earlier(t, u)
BY DEF Submission!In, Submission!HasRow, Submission!Same, Submission!Before, Settled, KeyIn, Earlier,
       ToSet

\* A step of which Intake sees nothing.
LEMMA IntakeStutters ==
  ASSUME SameQueue, UNCHANGED <<stored, order, crashed>>,
         \A t \in Tasks : call'[t].answer = call[t].answer
  PROVE  UNCHANGED Submission!vars
<1>1. waits' = waits
  BY DEF waits, SameQueue
<1>2. answers' = answers
  BY DEF answers
<1> QED
  BY <1>1, <1>2 DEF waits, answers, Submission!vars

\* One submit call returns.
LEMMA ReturnStep ==
  ASSUME NEW t \in Tasks, NEW id, call[t].answer = None, call'[t].answer = id,
         \A u \in Tasks : u # t => call'[u].answer = call[u].answer
  PROVE  answers[t] = None /\ answers' = [answers EXCEPT ![t] = id]
BY DEF answers

\* An answer names a task that has entered, with the same key, and that is
\* pending or has its row.
LEMMA AnswersIt ==
  ASSUME SameQueue, UNCHANGED <<stored, order, crashed>>, NEW t \in Tasks, NEW u \in Tasks,
         Submission!Same(t, u), u \in ToSet(order), Pending(u) \/ Settled(u),
         call[t].answer = None, call'[t].answer = u,
         \A v \in Tasks : v # t => call'[v].answer = call[v].answer
  PROVE  Submission!Answer(t, u)
<1>1. waits' = waits
  BY DEF waits, SameQueue
<1>2. answers[t] = None /\ answers' = [answers EXCEPT ![t] = u]
  BY ReturnStep
<1>3. Submission!In(u, order) /\ (u \in waits \/ Submission!HasRow(u))
  BY IntakeTerms DEF waits
<1> QED
  BY <1>1, <1>2, <1>3 DEF waits, answers, Submission!Answer, Submission!Return

\* A task enters; its submit call returns its id, or goes on.
LEMMA AcceptsIt ==
  ASSUME UNCHANGED <<stored, crashed>>, NEW t \in Tasks, t \notin ToSet(order),
         order' = Append(order, t), NEW id \in {t, None},
         \A v : (InPipe(v)' <=> InPipe(v) \/ v = t) /\ (Settled(v)' <=> Settled(v)),
         call[t].answer = None, call'[t].answer = id,
         \A v \in Tasks : v # t => call'[v].answer = call[v].answer
  PROVE  Submission!Accept(t, id)
<1>1. waits' = IF Settled(t) THEN waits ELSE waits \union {t}
  BY DEF waits, Pending
<1>2. answers[t] = None /\ answers' = [answers EXCEPT ![t] = id]
  BY ReturnStep
<1>3. ~Submission!In(t, order) /\ (Submission!HasRow(t) <=> Settled(t))
  BY IntakeTerms
<1> QED
  BY <1>1, <1>2, <1>3 DEF waits, answers, Submission!Accept, Submission!Return

\* The first row in turn is stored, or it was superfluous.
LEMMA RowImplements ==
  ASSUME CalmInv, InsertRow
  PROVE  [Submission!Next]_(Submission!vars)
<1>1. Shape /\ SortInv /\ BatchInv
  BY DEF CalmInv, CtrlInv
<1>2. todo # <<>> /\ todo \in Seq(Tasks) /\ stored \in Seq(Tasks)
  BY <1>1 DEF InsertRow, Shape, SortInv
<1>3. PICK h \in Tasks : h = Head(todo)
  BY <1>2, TailElems
<1>4. /\ stored' = Insert(stored, h)
      /\ UNCHANGED <<files, buffer, batch, call, order, crashed>>
  BY <1>3 DEF InsertRow, history
<1>5. /\ Settled(h) => stored' = stored
      /\ ~Settled(h) => stored' = Append(stored, h) /\ ToSet(stored') = ToSet(stored) \union {h}
  BY <1>2, <1>4, InsertAdds
<1>6. \A v : InPipe(v)' <=> InPipe(v)
  BY <1>4 DEF InPipe, InMemory, InFile
<1>7. CASE Settled(h)
  <2>1. stored' = stored
    BY <1>5, <1>7
  <2>2. SameQueue
    BY <1>6, <2>1 DEF SameQueue, Pending, Settled, KeyIn
  <2> QED
    BY <1>4, <2>1, <2>2, IntakeStutters
<1>8. CASE ~Settled(h)
  <2>1. h \in ToSet(todo) /\ todo[1] = h /\ 1 \in DOMAIN todo
    <3>1. /\ Head(todo) = todo[1] /\ Len(todo) >= 1 /\ Len(todo) \in Nat
          /\ DOMAIN todo = 1 .. Len(todo)
          /\ ToSet(todo) = {Head(todo)} \union ToSet(Tail(todo))
      BY <1>2, TailElems, SeqElems
    <3>2. 1 \in 1 .. Len(todo)
      BY <3>1
    <3> QED
      BY <1>3, <3>1, <3>2
  <2>2. Pending(h)
    BY <1>1, <1>8, <2>1 DEF BatchInv, Pending, InPipe, InMemory
  <2>3. ASSUME NEW u \in waits \ {h} PROVE Submission!Before(h, u)
    <3>1. Pending(u) /\ u \in Tasks
      BY <2>3 DEF waits
    <3>2. h \in ToSet(order) /\ u \in ToSet(order)
      BY <1>1, <2>2, <3>1 DEF SortInv, Pending
    <3>3. ~Earlier(u, h)
      <4>1. ASSUME Earlier(u, h) PROVE FALSE
        <5>1. u \in Ahead(todo[1])
          BY <2>1, <3>1, <4>1 DEF Ahead
        <5>2. PICK j \in DOMAIN todo : j < 1
          BY <1>1, <1>8, <2>1, <5>1 DEF SortInv, InOrder
        <5> QED
          BY <1>2, <5>2, SeqElems
      <4> QED
        BY <4>1
    <3>4. Earlier(h, u)
      BY <1>1, <2>3, <3>2, <3>3, EarlierIsStrict DEF SortInv
    <3> QED
      BY <3>4, IntakeTerms
  <2>4. waits' = {u \in waits : ~Submission!Same(u, h)}
    <3>1. ToSet(stored') = ToSet(stored) \union {h}
      BY <1>5, <1>8
    <3>2. \A v : Settled(v)' <=> Settled(v) \/ Submission!Same(v, h)
      BY <3>1 DEF Settled, KeyIn, Submission!Same
    <3> QED
      BY <1>6, <3>2 DEF waits, Pending
  <2>5. stored' = Append(stored, h) /\ h \in waits /\ answers' = answers
    BY <1>4, <1>5, <1>8, <2>2 DEF waits, answers
  <2>6. Submission!Store(h)
    BY <1>4, <2>3, <2>4, <2>5 DEF waits, answers, Submission!Store
  <2> QED
    BY <2>6 DEF Submission!Next
<1> QED
  BY <1>7, <1>8

\* The process ends: what is only in memory is lost in a crash; after close()
\* there is nothing, or it has a backup.
LEMMA GoneImplements ==
  ASSUME CalmInv, Exit \/ Crash
  PROVE  [Submission!Next]_(Submission!vars)
<1>1. /\ CtrlInv /\ SortInv /\ BackupInv /\ Shape /\ CallShape
  BY DEF CalmInv, CtrlInv, Shape
<1>2. /\ buffer' = <<>> /\ batch' = <<>>
      /\ UNCHANGED <<stored, files, order>>
      /\ \A t \in Tasks : call'[t] = IF call[t].pc = "new" THEN call[t]
                                                          ELSE [call[t] EXCEPT !.pc = "done"]
  BY DEF Exit, Crash, Gone
<1>3. \A v : v \notin ToSet(<<>>)
  BY EmptySeq DEF ToSet
<1>4. \A v : /\ Settled(v)' <=> Settled(v)
             /\ InPipe(v)' <=> InFile(v)
  BY <1>2, <1>3 DEF Settled, KeyIn, InPipe, InMemory, InFile
<1>5. ASSUME NEW t \in Tasks PROVE call'[t].answer = call[t].answer
  <2>1. PICK p, a : call[t] = [pc |-> p, answer |-> a]
    BY <1>1 DEF CallShape
  <2>2. [call[t] EXCEPT !.pc = "done"] = [pc |-> "done", answer |-> a]
    BY <2>1
  <2>3. call'[t] = [pc |-> p, answer |-> a] \/ call'[t] = [pc |-> "done", answer |-> a]
    BY <1>2, <2>1, <2>2
  <2> QED
    BY <2>1, <2>3
<1>6. CASE Exit
  <2>1. UNCHANGED crashed /\ closer.pc \in {"closed", "failed"}
    BY <1>6 DEF Exit
  <2>2. batch = <<>> /\ (buffer = <<>> \/ buffer \in files)
    BY <1>1, <2>1 DEF CtrlInv, CloseInv, FlushInv, BackupInv
  <2>3. \A v : InMemory(v) => InFile(v)
    BY <1>3, <2>2 DEF InMemory, InFile
  <2>4. SameQueue
    BY <1>4, <2>3 DEF SameQueue, Pending, InPipe
  <2> QED
    BY <1>2, <1>5, <2>1, <2>4, IntakeStutters
<1>7. CASE Crash
  <2> DEFINE S == ToSet(buffer) \union ToSet(batch)
  <2>1. crashed' = crashed \union S
    BY <1>7 DEF Crash
  <2>2. S \subseteq Tasks
    BY <1>1, SeqElems DEF Shape
  <2>3. ASSUME NEW t \in S PROVE Submission!In(t, order)
    <3>1. t \in Tasks /\ InPipe(t)
      BY <2>2, <2>3 DEF InPipe, InMemory
    <3> QED
      BY <1>1, <3>1, IntakeTerms DEF SortInv
  <2>4. waits' \subseteq waits /\ waits \ waits' \subseteq S
    BY <1>4 DEF waits, Pending, InPipe, InMemory
  <2>5. answers' = answers
    BY <1>5 DEF answers
  <2> HIDE DEF S
  <2>6. Submission!Lose(S)
    BY <1>2, <2>1, <2>3, <2>4, <2>5 DEF waits, answers, Submission!Lose
  <2> QED
    BY <2>2, <2>6 DEF Submission!Next
<1> QED
  BY <1>6, <1>7

\* Nothing moves.
LEMMA IdleQueue == ASSUME UNCHANGED <<stored, files, buffer, batch>> PROVE SameQueue
BY DEF SameQueue, Pending, InPipe, InFile, InMemory, Settled, KeyIn

\* A flush begins with the buffer, and perhaps a backup: nothing gets lost.
LEMMA BegunQueue ==
  ASSUME batch = <<>>, UNCHANGED <<stored, files>>, NEW q, BeginFlush(q),
         ToSet(buffer) \subseteq ToSet(q), \A v \in ToSet(q) : InPipe(v)
  PROVE  SameQueue
<1>1. batch' = q /\ buffer' = <<>>
  BY DEF BeginFlush
<1>2. \A v : v \notin ToSet(<<>>)
  BY EmptySeq DEF ToSet
<1>3. \A v : /\ InPipe(v)' <=> InPipe(v)
             /\ Settled(v)' <=> Settled(v)
  BY <1>1, <1>2 DEF InPipe, InFile, InMemory, Settled, KeyIn
<1> QED
  BY <1>3 DEF SameQueue, Pending

\* A call's answer, when it goes on or returns.
LEMMA AnswerMoves ==
  ASSUME CtrlInv, NEW t \in Tasks
  PROVE  /\ \A pc : Goto(t, pc) =>
              call'[t].pc = pc /\ \A u \in Tasks : call'[u].answer = call[u].answer
         /\ \A id : Returns(t, id) =>
              /\ call'[t].pc = "done" /\ call'[t].answer = id
              /\ \A u \in Tasks : u # t => call'[u].answer = call[u].answer
         /\ \A pc : Goto(t, pc) => \A u \in Tasks : u # t => call'[u] = call[u]
         /\ \A id : Returns(t, id) => \A u \in Tasks : u # t => call'[u] = call[u]
<1>1. CallShape
  BY DEF CtrlInv, Shape
<1> QED
  BY <1>1, CallMoves

\* At the start no call has returned.
LEMMA InitAnswerInv == Init => AnswerInv
BY DEF Init, AnswerInv

\* A call that returns an id is over.
LEMMA NextAnswerInv ==
  ASSUME CtrlInv, AnswerInv, [Next]_vars
  PROVE  AnswerInv'
<1>1. CASE call' = call
  BY <1>1 DEF AnswerInv
<1>2. ASSUME NEW t \in Tasks, NEW pc, Goto(t, pc), call[t].pc # "done" PROVE AnswerInv'
  BY <1>2, AnswerMoves DEF AnswerInv
<1>3. ASSUME NEW t \in Tasks, NEW id, Returns(t, id) PROVE AnswerInv'
  BY <1>3, AnswerMoves DEF AnswerInv
<1>4. ASSUME NEW t \in Tasks, LookUpKey(t) \/ ScanBuffer(t) \/ EnterAdd(t) \/ Add(t)
      PROVE  AnswerInv'
  <2>1. call[t].pc # "done" /\ ((\E pc : Goto(t, pc)) \/ (\E id : Returns(t, id)))
    BY <1>4 DEF LookUpKey, ScanBuffer, EnterAdd, Add, Raises
  <2> QED
    BY <1>2, <1>3, <2>1
<1>5. ASSUME NEW t \in Tasks, AddFlushed(t) \/ AddRaises(t) \/ CancelSubmit(t)
      PROVE  AnswerInv'
  <2>1. \E id : Returns(t, id)
    BY <1>5 DEF AddFlushed, AddRaises, CancelSubmit, Raises
  <2> QED
    BY <1>3, <2>1
<1>6. CASE TimerStep \/ TimerFlushRaises \/ InsertRow \/ UNCHANGED vars
  BY <1>1, <1>6 DEF TimerStep, TimerWakes, TimerRuns, TimerFlushed, TimerFlushRaises, InsertRow, vars
<1>7. CASE BeginClose \/ CloseStep \/ CloseFlushRaises
  BY <1>1, <1>7 DEF BeginClose, CloseStep, EnterClose, CloseRuns, CloseFlushed, CloseFlushRaises
<1>8. CASE BootStep \/ RecoverFlushRaises
  BY <1>1, <1>8 DEF BootStep, Start, RecoverFile, RecoverFlushed, Started, RecoverFlushRaises
<1>9. CASE Exit \/ Crash
  <2>1. \A t \in Tasks : call'[t] = IF call[t].pc = "new" THEN call[t]
                                                        ELSE [call[t] EXCEPT !.pc = "done"]
    BY <1>9 DEF Exit, Crash, Gone
  <2>2. ASSUME NEW t \in Tasks, call'[t].answer # None PROVE call'[t].pc = "done"
    <3>1. PICK p, a : call[t] = [pc |-> p, answer |-> a]
      BY DEF CtrlInv, Shape, CallShape
    <3>2. [call[t] EXCEPT !.pc = "done"] = [pc |-> "done", answer |-> a]
      BY <3>1
    <3>p. call[t].pc = p
      BY <3>1
    <3>3. CASE p = "new"
      <4>1. call'[t] = call[t]
        BY <2>1, <3>p, <3>3
      <4> QED
        BY <2>2, <4>1 DEF AnswerInv
    <3>4. CASE p # "new"
      <4>1. call'[t] = [pc |-> "done", answer |-> a]
        BY <2>1, <3>p, <3>2, <3>4
      <4> QED
        BY <4>1
    <3> QED
      BY <3>3, <3>4
  <2> QED
    BY <2>2 DEF AnswerInv
<1> QED
  BY <1>4, <1>5, <1>6, <1>7, <1>8, <1>9 DEF Next, Undisturbed, Fault, SubmitStep

\* A submit call looks, asks for the lock, or gives up.
LEMMA LooksImplement ==
  ASSUME CalmInv, AnswerInv, NEW t \in Tasks,
         \/ LookUpKey(t) \/ ScanBuffer(t) \/ EnterAdd(t)
         \/ /\ call[t].pc = "waiting" /\ Raises(t)
            /\ UNCHANGED <<stored, files, buffer, batch, history>>
  PROVE  [Submission!Next]_(Submission!vars)
<1>1. CtrlInv /\ SortInv /\ Shape /\ CallInv /\ None \notin Tasks
  BY BufferAssumption DEF CalmInv, CtrlInv
<1>2. UNCHANGED <<stored, files, buffer, batch, order, crashed>>
  BY DEF LookUpKey, ScanBuffer, EnterAdd, history
<1>3. call[t].answer = None
  BY DEF AnswerInv, LookUpKey, ScanBuffer, EnterAdd
<1>4. SameQueue
  BY <1>2, IdleQueue
<1>5. ASSUME \/ \E pc : Goto(t, pc)
             \/ Returns(t, None)
      PROVE  UNCHANGED Submission!vars
  <2>1. \A u \in Tasks : call'[u].answer = call[u].answer
    BY <1>1, <1>3, <1>5, AnswerMoves
  <2> QED
    BY <1>2, <1>4, <2>1, IntakeStutters
<1>6. ASSUME NEW u \in Tasks, Returns(t, u), Key[t] # None, Key[u] = Key[t],
             u \in ToSet(stored) \/ u \in ToSet(buffer)
      PROVE  Submission!Next
  <2>1. call'[t].answer = u /\ \A v \in Tasks : v # t => call'[v].answer = call[v].answer
    BY <1>1, <1>6, AnswerMoves
  <2>2. u \in ToSet(order) /\ (Pending(u) \/ Settled(u))
    BY <1>1, <1>6 DEF SortInv, Pending, Settled, InPipe, InMemory
  <2>3. Submission!Same(t, u)
    BY <1>6 DEF Submission!Same
  <2>4. Submission!Answer(t, u)
    BY <1>2, <1>3, <1>4, <2>1, <2>2, <2>3, AnswersIt
  <2> QED
    BY <2>4 DEF Submission!Next
<1>7. CASE LookUpKey(t)
  <2>1. CASE KeyIn(stored, t)
    <3>1. PICK u \in ToSet(stored) : /\ Key[u] = Key[t]
                                     /\ u = CHOOSE v \in ToSet(stored) : Key[v] = Key[t]
      BY <2>1 DEF KeyIn
    <3>2. Returns(t, u) /\ Key[t] # None /\ u \in Tasks
      BY <1>1, <1>7, <2>1, <3>1, SeqElems DEF LookUpKey, KeyIn, SortInv
    <3> QED
      BY <1>6, <3>1, <3>2
  <2>2. CASE ~KeyIn(stored, t)
    BY <1>5, <1>7, <2>2 DEF LookUpKey
  <2> QED
    BY <2>1, <2>2
<1>8. CASE ScanBuffer(t)
  <2>1. CASE Goto(t, "scanned")
    BY <1>5, <2>1
  <2>2. CASE \E i \in DOMAIN buffer : /\ Key[t] # None /\ Key[buffer[i]] = Key[t]
                                      /\ Returns(t, buffer[i])
    <3>1. PICK i \in DOMAIN buffer : /\ Key[t] # None /\ Key[buffer[i]] = Key[t]
                                     /\ Returns(t, buffer[i])
      BY <2>2
    <3>2. buffer[i] \in Tasks /\ buffer[i] \in ToSet(buffer)
      BY <1>1, SeqElems DEF Shape
    <3> QED
      BY <1>6, <3>1, <3>2
  <2> QED
    BY <1>8, <2>1, <2>2 DEF ScanBuffer
<1>9. CASE EnterAdd(t)
  BY <1>5, <1>9 DEF EnterAdd, Raises
<1>10. CASE Raises(t)
  BY <1>5, <1>10 DEF Raises
<1> QED
  BY <1>7, <1>8, <1>9, <1>10

\* A task enters the buffer.
LEMMA AddImplements ==
  ASSUME CalmInv, AnswerInv, NEW t \in Tasks, Add(t)
  PROVE  [Submission!Next]_(Submission!vars)
<1>0. t \in Actors /\ t \notin {"timer", "closer", "starter"}
  BY BufferAssumption DEF Actors
<1>1. CtrlInv /\ CallInv /\ Shape
  BY DEF CalmInv, CtrlInv
<1>2. /\ Holds(t) /\ call[t].pc = "waiting" /\ order' = Append(order, t)
      /\ UNCHANGED <<stored, files, crashed>>
  BY DEF Add
<1>3. batch = <<>>
  BY <1>0, <1>1, <1>2 DEF CtrlInv, FlushInv, Holds, Flushing
<1>4. t \notin ToSet(order) /\ call[t].answer = None
  BY <1>1, <1>2 DEF CallInv, AnswerInv
<1>5. PICK a : a = Append(buffer, t)
  OBVIOUS
<1>6. \/ buffer' = a /\ batch' = <<>> /\ Returns(t, t)
      \/ buffer' = <<>> /\ batch' = a /\ Goto(t, "flushing")
  BY <1>3, <1>5 DEF Add, BeginFlush
<1>7. \A v : (InPipe(v)' <=> InPipe(v) \/ v = t) /\ (Settled(v)' <=> Settled(v))
  <2>1. ToSet(a) = ToSet(buffer) \union {t}
    BY <1>1, <1>5, AppendElems DEF Shape
  <2>2. \A v : v \notin ToSet(<<>>)
    BY EmptySeq DEF ToSet
  <2>3. \A v : InMemory(v)' <=> InMemory(v) \/ v = t
    BY <1>3, <1>6, <2>1, <2>2 DEF InMemory
  <2> QED
    BY <1>2, <2>3 DEF InPipe, InFile, Settled, KeyIn
<1>8. PICK id \in {t, None} : /\ call'[t].answer = id
                              /\ \A v \in Tasks : v # t => call'[v].answer = call[v].answer
  BY <1>1, <1>4, <1>6, AnswerMoves
<1>9. Submission!Accept(t, id)
  BY <1>2, <1>4, <1>7, <1>8, AcceptsIt
<1> QED
  BY <1>9 DEF Submission!Next

\* The flush of a submit call ends, and the call returns or raises.
LEMMA AddEndsImplement ==
  ASSUME CalmInv, AnswerInv, NEW t \in Tasks, AddFlushed(t) \/ AddRaises(t)
  PROVE  [Submission!Next]_(Submission!vars)
<1>0. t \in Actors /\ t \notin {"timer", "closer", "starter"}
  BY BufferAssumption DEF Actors
<1>1. CtrlInv /\ SortInv /\ BatchInv /\ HolderInv /\ Shape
  BY DEF CalmInv, CtrlInv
<1>2. /\ \/ Flushed(t) /\ Returns(t, t)
         \/ FlushRaises(t) /\ Returns(t, None)
      /\ UNCHANGED files
  BY DEF AddFlushed, AddRaises, Raises
<1>3. Holds(t) /\ batch # <<>> /\ UNCHANGED <<stored, order, crashed>>
  BY <1>2 DEF Flushed, FlushRaises, history
<1>4. SameQueue /\ (Flushed(t) => \A v \in ToSet(batch) : Settled(v))
  BY <1>0, <1>1, <1>2, <1>3, EndedData
<1>5. call[t].answer = None
  <2>1. Flushing(t)
    BY <1>1, <1>3 DEF CtrlInv, FlushInv, Holds
  <2> QED
    BY <1>0, <2>1 DEF Flushing, AnswerInv
<1>6. CASE Flushed(t) /\ Returns(t, t)
  <2>1. Settled(t) /\ t \in ToSet(order)
    BY <1>1, <1>3, <1>4, <1>6 DEF HolderInv, Holds, SortInv, InPipe, InMemory
  <2>2. call'[t].answer = t /\ \A v \in Tasks : v # t => call'[v].answer = call[v].answer
    BY <1>1, <1>6, AnswerMoves
  <2>3. Submission!Answer(t, t)
    BY <1>3, <1>4, <1>5, <2>1, <2>2, AnswersIt DEF Submission!Same
  <2> QED
    BY <2>3 DEF Submission!Next
<1>7. CASE Returns(t, None)
  <2>1. \A v \in Tasks : call'[v].answer = call[v].answer
    BY <1>1, <1>5, <1>7, AnswerMoves
  <2> QED
    BY <1>3, <1>4, <2>1, IntakeStutters
<1> QED
  BY <1>2, <1>6, <1>7

\* The timer, close() and the recovery of backups move tasks to and fro, which
\* Intake does not see, as long as no flush is cancelled.
LEMMA MovesUnseen ==
  ASSUME Calm = TRUE, CalmInv,
         \/ TimerStep \/ TimerFlushRaises
         \/ BeginClose \/ CloseStep \/ CloseFlushRaises
         \/ BootStep \/ RecoverFlushRaises
         \/ UNCHANGED vars
  PROVE  UNCHANGED Submission!vars
<1>0. {"timer", "closer", "starter"} \subseteq Actors /\ Tasks \intersect {"timer", "closer", "starter"} = {}
  BY BufferAssumption DEF Actors
<1>1. CtrlInv /\ SortInv /\ BatchInv /\ HolderInv /\ Shape
  BY DEF CalmInv, CtrlInv
\* Nothing moves.
<1>2. ASSUME UNCHANGED <<stored, files, buffer, batch, call, order, crashed>>
      PROVE  UNCHANGED Submission!vars
  BY <1>2, IdleQueue, IntakeStutters
\* A flush begins.
<1>3. ASSUME NEW q, BeginFlush(q), batch = <<>>, UNCHANGED <<stored, files, call, order, crashed>>,
             ToSet(buffer) \subseteq ToSet(q), \A v \in ToSet(q) : InPipe(v)
      PROVE  UNCHANGED Submission!vars
  BY <1>3, BegunQueue, IntakeStutters
\* A flush of the buffer begins, by an actor that held the lock for it.
<1>4. ASSUME NEW c \in Actors, Holds(c), ~Flushing(c), BeginFlush(buffer),
             UNCHANGED <<stored, files, call, order, crashed>>
      PROVE  UNCHANGED Submission!vars
  <2>1. batch = <<>>
    BY <1>1, <1>4 DEF CtrlInv, FlushInv, Holds
  <2>2. PICK q : q = buffer
    OBVIOUS
  <2>3. ToSet(buffer) \subseteq ToSet(q) /\ \A v \in ToSet(q) : InPipe(v)
    BY <2>2 DEF InPipe, InMemory
  <2> QED
    BY <1>3, <1>4, <2>1, <2>2, <2>3
\* A flush ends.
<1>5. ASSUME NEW c \in Actors, call' = call,
             \/ /\ Flushed(c)
                /\ files' = files \/ \E f : files' = files \ {f} /\ ToSet(f) \subseteq ToSet(batch)
             \/ FlushRaises(c) /\ files' \in {files, files \union {batch}}
      PROVE  UNCHANGED Submission!vars
  <2>1. UNCHANGED <<stored, order, crashed>>
    BY <1>5 DEF Flushed, FlushRaises, history
  <2>2. SameQueue
    BY <1>1, <1>5, <2>1, EndedData
  <2> QED
    BY <1>5, <2>1, <2>2, IntakeStutters
<1>6. CASE TimerWakes \/ EnterClose \/ Start \/ Started \/ UNCHANGED vars
  BY <1>2, <1>6 DEF TimerWakes, EnterClose, Start, Started, vars, history
<1>7. CASE BeginClose
  BY <1>2, <1>7 DEF BeginClose, FlushCancelled, history
<1>8. CASE TimerRuns
  <2>1. /\ Holds("timer") /\ timer = "wait"
        /\ BeginFlush(buffer) \/ UNCHANGED <<buffer, batch>>
        /\ UNCHANGED <<stored, files, call, order, crashed>>
    BY <1>8 DEF TimerRuns, history
  <2>2. ~Flushing("timer")
    BY <1>0, <2>1 DEF Flushing
  <2> QED
    BY <1>0, <1>2, <1>4, <2>1, <2>2
<1>9. CASE CloseRuns
  <2>1. /\ Holds("closer") /\ closer.pc = "wait"
        /\ BeginFlush(buffer) \/ UNCHANGED <<buffer, batch>>
        /\ UNCHANGED <<stored, files, call, order, crashed>>
    BY <1>9 DEF CloseRuns, history
  <2>2. ~Flushing("closer")
    BY <1>0, <2>1 DEF Flushing
  <2> QED
    BY <1>0, <1>2, <1>4, <2>1, <2>2
<1>10. CASE TimerFlushed \/ TimerFlushRaises \/ CloseFlushed
  <2>1. \E c \in Actors : (Flushed(c) \/ FlushRaises(c)) /\ UNCHANGED <<files, call>>
    BY <1>0, <1>10 DEF TimerFlushed, TimerFlushRaises, CloseFlushed
  <2> QED
    BY <1>5, <2>1
<1>11. CASE CloseFlushRaises
  <2>1. FlushRaises("closer") /\ files' \in {files, files \union {batch}} /\ call' = call
    BY <1>11 DEF CloseFlushRaises
  <2> QED
    BY <1>0, <1>5, <2>1
<1>12. CASE RecoverFile
  <2>1. PICK f \in boot.pending : BeginFlush(buffer \o f)
    BY <1>12 DEF RecoverFile
  <2>2. lock = <<>> /\ UNCHANGED <<stored, files, call, order, crashed>>
    BY <1>12 DEF RecoverFile, history
  <2>3. batch = <<>>
    BY <1>1, <2>2 DEF CtrlInv, FlushInv
  <2>4. f \in files /\ f \in Seq(Tasks) /\ buffer \in Seq(Tasks)
    BY <1>1 DEF Shape
  <2>5. PICK q : q = buffer \o f
    OBVIOUS
  <2>6. ToSet(q) = ToSet(buffer) \union ToSet(f)
    BY <2>4, <2>5, ConcatElems
  <2>7. \A v \in ToSet(q) : InPipe(v)
    BY <2>4, <2>6 DEF InPipe, InMemory, InFile
  <2> QED
    BY <1>3, <2>1, <2>2, <2>3, <2>5, <2>6, <2>7
<1>13. CASE RecoverFlushed
  <2>1. Flushed("starter") /\ files' = files \ {boot.reading} /\ call' = call
    BY <1>13 DEF RecoverFlushed
  <2>2. ToSet(boot.reading) \subseteq ToSet(batch)
    BY <1>1, <2>1 DEF HolderInv, Flushed, Holds
  <2> QED
    BY <1>0, <1>5, <2>1, <2>2
<1>14. CASE RecoverFlushRaises
  <2>1. FlushRaises("starter") /\ files' = files /\ call' = call
    BY <1>14 DEF RecoverFlushRaises
  <2> QED
    BY <1>0, <1>5, <2>1
<1> QED
  BY <1>6, <1>7, <1>8, <1>9, <1>10, <1>11, <1>12, <1>13, <1>14 DEF TimerStep, CloseStep, BootStep

\* ImplementsIntake: through buffer, lock, half done flushes, retries at
\* shutdown, backups and recovery, the tasks of the table and the answers to
\* submissions behave as Intake says.
THEOREM SubmissionImplementsIntake == ASSUME Calm = TRUE PROVE Spec => ImplementsIntake
<1>1. Init => Submission!Init
  <2> SUFFICES ASSUME Init PROVE Submission!Init
    OBVIOUS
  <2>1. /\ stored = <<>> /\ files = {} /\ buffer = <<>> /\ batch = <<>>
        /\ order = <<>> /\ crashed = {} /\ \A t \in Tasks : call[t].answer = None
    BY DEF Init
  <2>2. \A t : ~Pending(t)
    BY <2>1, EmptySeq DEF Pending, InPipe, InFile, InMemory, ToSet
  <2> QED
    BY <2>1, <2>2 DEF Submission!Init
<1>2. CalmInv /\ AnswerInv /\ [Next]_vars => [Submission!Next]_(Submission!vars)
  <2> SUFFICES ASSUME CalmInv, AnswerInv, [Next]_vars PROVE [Submission!Next]_(Submission!vars)
    OBVIOUS
  <2>1. CASE InsertRow
    BY <2>1, RowImplements
  <2>2. CASE \E t \in Tasks : SubmitStep(t)
    BY <2>2, LooksImplement, AddImplements, AddEndsImplement DEF SubmitStep
  <2>3. CASE \E t \in Tasks : AddRaises(t) \/ CancelSubmit(t)
    <3>1. PICK t \in Tasks : AddRaises(t) \/ CancelSubmit(t)
      BY <2>3
    <3>2. CancelSubmit(t) => /\ call[t].pc = "waiting" /\ Raises(t)
                             /\ UNCHANGED <<stored, files, buffer, batch, history>>
      BY DEF CancelSubmit, FlushCancelled
    <3> QED
      BY <3>1, <3>2, LooksImplement, AddEndsImplement
  <2>4. CASE Exit \/ Crash
    BY <2>4, GoneImplements
  <2>5. CASE \/ TimerStep \/ TimerFlushRaises
             \/ BeginClose \/ CloseStep \/ CloseFlushRaises
             \/ BootStep \/ RecoverFlushRaises
             \/ UNCHANGED vars
    BY <2>5, MovesUnseen
  <2> QED
    BY <2>1, <2>2, <2>3, <2>4, <2>5 DEF Next, Undisturbed, Fault
<1>3. Spec => []AnswerInv
  <2>1. CtrlInv /\ AnswerInv /\ [Next]_vars => AnswerInv'
    BY NextAnswerInv
  <2> QED
    BY <2>1, Controlled, InitAnswerInv, PTL DEF Spec
<1> QED
  BY <1>1, <1>2, <1>3, Calmly, PTL DEF Spec, ImplementsIntake, Submission!Spec
=============================================================================
