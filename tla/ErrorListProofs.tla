--------------------------- MODULE ErrorListProofs ---------------------------
(***************************************************************************)
(* For every number of threads, entries and errors: each thread keeps one  *)
(* entry of its own whatever the others do to the list, and its errors     *)
(* stay in order with the latest one at the head.                          *)
(***************************************************************************)
EXTENDS ErrorList, SequenceTheorems, TLAPS

-----------------------------------------------------------------------------
(* The list of entries.                                                    *)

\* The list without one of its entries (the relinking of msGetErrorObj and
\* msResetErrorList).
LEMMA WithoutLemma ==
    ASSUME NEW list \in Seq(Entries), NEW i \in 1 .. Len(list)
    PROVE  /\ Without(list, i) \in Seq(Entries)
           /\ Len(Without(list, i)) = Len(list) - 1
           /\ \A k \in 1 .. Len(list) - 1 :
                 Without(list, i)[k] = IF k < i THEN list[k] ELSE list[k + 1]
  <1>. DEFINE a == SubSeq(list, 1, i - 1)
              b == SubSeq(list, i + 1, Len(list))
  <1>1. /\ a \in Seq(Entries) /\ Len(a) = i - 1
        /\ \A k \in 1 .. i - 1 : a[k] = list[k]
    OBVIOUS
  <1>2. /\ b \in Seq(Entries) /\ Len(b) = Len(list) - i
        /\ \A k \in 1 .. Len(list) - i : b[k] = list[i + k]
    OBVIOUS
  <1>. HIDE DEF a, b
  <1>3. /\ a \o b \in Seq(Entries)
        /\ Len(a \o b) = Len(list) - 1
        /\ \A k \in 1 .. i - 1 : (a \o b)[k] = a[k]
        /\ \A k \in i .. Len(list) - 1 : (a \o b)[k] = b[k - (i - 1)]
    <2>1. /\ a \o b \in Seq(Entries)
          /\ Len(a \o b) = Len(a) + Len(b)
          /\ \A k \in 1 .. Len(a) + Len(b) :
                (a \o b)[k] = IF k <= Len(a) THEN a[k] ELSE b[k - Len(a)]
      BY <1>1, <1>2, ConcatProperties
    <2>2. Len(list) \in Nat /\ i \in Nat /\ Len(a) + Len(b) = Len(list) - 1
      BY <1>1, <1>2
    <2>3. ASSUME NEW k \in 1 .. i - 1 PROVE (a \o b)[k] = a[k]
      <3>1. k \in 1 .. Len(list) - 1 /\ k <= Len(a)
        BY <1>1, <2>2
      <3>. QED  BY <2>1, <2>2, <3>1
    <2>4. ASSUME NEW k \in i .. Len(list) - 1 PROVE (a \o b)[k] = b[k - (i - 1)]
      <3>1. k \in 1 .. Len(list) - 1 /\ ~(k <= Len(a)) /\ Len(a) = i - 1
        BY <1>1, <2>2
      <3>. QED  BY <2>1, <2>2, <3>1
    <2>. QED  BY <2>1, <2>2, <2>3, <2>4
  <1>4. \A k \in i .. Len(list) - 1 : (a \o b)[k] = list[k + 1]
    <2>. SUFFICES ASSUME NEW k \in i .. Len(list) - 1 PROVE (a \o b)[k] = list[k + 1]
      OBVIOUS
    <2>1. k - (i - 1) \in 1 .. Len(list) - i /\ i + (k - (i - 1)) = k + 1
      OBVIOUS
    <2>. QED  BY <1>2, <1>3, <2>1
  <1>5. Without(list, i) = a \o b
    BY DEF Without, a, b
  <1>. QED  BY <1>1, <1>3, <1>4, <1>5

\* The list with an entry put in front of it.
LEMMA PutInFront ==
    ASSUME NEW list \in Seq(Entries), NEW e \in Entries
    PROVE  /\ <<e>> \o list \in Seq(Entries)
           /\ Len(<<e>> \o list) = Len(list) + 1
           /\ (<<e>> \o list)[1] = e
           /\ \A k \in 2 .. Len(list) + 1 : (<<e>> \o list)[k] = list[k - 1]
  OBVIOUS

Member(list, e) == \E i \in 1 .. Len(list) : list[i] = e
NoRepeats(list) == \A i, j \in 1 .. Len(list) : list[i] = list[j] => i = j

\* What is left when an entry is taken out is the rest, each entry once.
LEMMA WithoutMembers ==
    ASSUME NEW list \in Seq(Entries), NEW i \in 1 .. Len(list), NoRepeats(list)
    PROVE  /\ NoRepeats(Without(list, i))
           /\ \A e \in Entries : Member(Without(list, i), e) <=> Member(list, e) /\ e # list[i]
  <1>. DEFINE rest == Without(list, i)
  <1>1. /\ rest \in Seq(Entries)
        /\ Len(rest) = Len(list) - 1
        /\ \A k \in 1 .. Len(list) - 1 : rest[k] = IF k < i THEN list[k] ELSE list[k + 1]
    BY WithoutLemma
  <1>. HIDE DEF rest
  <1>2. ASSUME NEW j \in 1 .. Len(rest), NEW k \in 1 .. Len(rest), rest[j] = rest[k]
        PROVE  j = k
    BY <1>1, <1>2 DEF NoRepeats
  <1>3. ASSUME NEW e \in Entries, Member(rest, e)
        PROVE  Member(list, e) /\ e # list[i]
    <2>1. PICK k \in 1 .. Len(rest) : rest[k] = e
      BY <1>3 DEF Member
    <2>2. CASE k < i
      BY <1>1, <2>1, <2>2 DEF Member, NoRepeats
    <2>3. CASE ~(k < i)
      <3>1. k + 1 \in 1 .. Len(list) /\ list[k + 1] = e /\ k + 1 # i
        BY <1>1, <2>1, <2>3
      <3>. QED  BY <3>1 DEF Member, NoRepeats
    <2>. QED  BY <2>2, <2>3
  <1>4. ASSUME NEW e \in Entries, Member(list, e), e # list[i]
        PROVE  Member(rest, e)
    <2>1. PICK k \in 1 .. Len(list) : list[k] = e
      BY <1>4 DEF Member
    <2>2. CASE k < i
      <3>1. k \in 1 .. Len(rest) /\ rest[k] = e
        BY <1>1, <2>1, <2>2
      <3>. QED  BY <3>1 DEF Member
    <2>3. CASE k > i
      <3>1. k - 1 \in 1 .. Len(rest) /\ ~(k - 1 < i) /\ (k - 1) + 1 = k
        BY <1>1, <2>3
      <3>2. rest[k - 1] = e
        BY <1>1, <2>1, <3>1
      <3>. QED  BY <3>1, <3>2 DEF Member
    <2>. QED  BY <1>4, <2>1, <2>2, <2>3
  <1>. QED  BY <1>2, <1>3, <1>4 DEF NoRepeats, rest

\* An entry that was not there is put in front.
LEMMA InFrontMembers ==
    ASSUME NEW list \in Seq(Entries), NEW e \in Entries, NoRepeats(list), ~Member(list, e)
    PROVE  /\ <<e>> \o list \in Seq(Entries)
           /\ NoRepeats(<<e>> \o list)
           /\ \A d \in Entries : Member(<<e>> \o list, d) <=> Member(list, d) \/ d = e
  <1>. DEFINE new == <<e>> \o list
  <1>1. /\ new \in Seq(Entries)
        /\ Len(new) = Len(list) + 1
        /\ new[1] = e
        /\ \A k \in 2 .. Len(list) + 1 : new[k] = list[k - 1]
    BY PutInFront
  <1>. HIDE DEF new
  <1>2. ASSUME NEW j \in 1 .. Len(new), NEW k \in 1 .. Len(new), new[j] = new[k]
        PROVE  j = k
    <2>1. \A n \in 2 .. Len(new) : n - 1 \in 1 .. Len(list) /\ new[n] = list[n - 1]
      BY <1>1
    <2>2. \A n \in 2 .. Len(new) : new[n] # e
      BY <2>1 DEF Member
    <2>3. CASE j = 1 \/ k = 1
      BY <1>1, <1>2, <2>2, <2>3
    <2>4. CASE j # 1 /\ k # 1
      <3>1. j \in 2 .. Len(new) /\ k \in 2 .. Len(new)
        BY <1>1, <2>4
      <3>2. list[j - 1] = list[k - 1] /\ j - 1 \in 1 .. Len(list) /\ k - 1 \in 1 .. Len(list)
        BY <1>2, <2>1, <3>1
      <3>3. j - 1 = k - 1
        BY <3>2 DEF NoRepeats
      <3>. QED  BY <3>1, <3>3
    <2>. QED  BY <2>3, <2>4
  <1>3. ASSUME NEW d \in Entries, Member(new, d), d # e
        PROVE  Member(list, d)
    <2>1. PICK k \in 1 .. Len(new) : new[k] = d
      BY <1>3 DEF Member
    <2>2. k - 1 \in 1 .. Len(list) /\ list[k - 1] = d
      BY <1>1, <1>3, <2>1
    <2>. QED  BY <2>2 DEF Member
  <1>4. ASSUME NEW d \in Entries, Member(list, d)
        PROVE  Member(new, d)
    <2>1. PICK k \in 1 .. Len(list) : list[k] = d
      BY <1>4 DEF Member
    <2>2. k + 1 \in 1 .. Len(new) /\ k + 1 \in 2 .. Len(list) + 1 /\ (k + 1) - 1 = k
      BY <1>1
    <2>3. new[k + 1] = d
      BY <1>1, <2>1, <2>2
    <2>. QED  BY <2>2, <2>3 DEF Member
  <1>5. Member(new, e)
    BY <1>1 DEF Member
  <1>. QED  BY <1>1, <1>2, <1>3, <1>4, <1>5 DEF NoRepeats, new

-----------------------------------------------------------------------------
(* The invariant.                                                          *)

\* The types, and how a chain grows: totalerrorcount counts the elements that
\* were to be added, those for which there was no memory included.
TypeInv ==
    /\ error_list \in Seq(Entries)
    /\ thread_id \in [Entries -> Threads]
    /\ chain \in [Entries -> Seq(Errors)]
    /\ total \in [Entries -> 0 .. MaxTotal]
    /\ pc \in [Threads -> {"idle", "compare", "insert", "clear", "unlink"}]
    /\ ms_error \in [Threads -> Entries \cup {NoEntry}]
    /\ args \in [Threads -> [code : Codes, message : Messages] \cup {NoArgs}]
    /\ stamp \in [Threads -> Nat]

LengthInv == \A e \in Entries : Len(chain[e]) \in 1 .. total[e] + 1

\* The list holds an entry once, and the entries of different threads.
ListInv ==
    /\ NoRepeats(error_list)
    /\ \A d, e \in Entries : InList(d) /\ InList(e) /\ thread_id[d] = thread_id[e] => d = e

\* What a thread has in its hand is its entry, and it has not set any error
\* if it has none.
HandInv ==
    \A t \in Threads :
        /\ pc[t] # "idle" => /\ ms_error[t] \in Entries
                             /\ InList(ms_error[t])
                             /\ thread_id[ms_error[t]] = t
        /\ pc[t] = "unlink" => stamp[t] = 0
        /\ stamp[t] # 0 => \E e \in Entries : InList(e) /\ thread_id[e] = t

\* The errors of a chain are in order, and the newest one is that which the
\* thread set last, or older while it is setting one.
Setting == {"compare", "insert"}

ChainInv ==
    \A e \in Entries : InList(e) =>
        /\ \A i, j \in 1 .. Len(chain[e]) : i < j => chain[e][i].at > chain[e][j].at
        /\ IF pc[thread_id[e]] \in Setting
           THEN chain[e][1].at < stamp[thread_id[e]]
           ELSE chain[e][1].at = stamp[thread_id[e]]

ListsInv == TypeInv /\ LengthInv /\ ListInv /\ HandInv /\ ChainInv
-----------------------------------------------------------------------------
(* Taking the entry.                                                       *)

\* The search finds the thread's entry if there is one.
LEMMA PlaceLemma ==
    ASSUME TypeInv, ListInv, NEW t \in Threads, HasEntry(t)
    PROVE  /\ Place(t) \in 1 .. Len(error_list)
           /\ error_list[Place(t)] \in Entries
           /\ InList(error_list[Place(t)])
           /\ thread_id[error_list[Place(t)]] = t
  <1>1. PICK i \in 1 .. Len(error_list) : IsAt(i, t)
    BY DEF HasEntry
  <1>2. ASSUME NEW j \in 1 .. i - 1 PROVE ~IsAt(j, t)
    <2>. SUFFICES ASSUME IsAt(j, t) PROVE FALSE
      OBVIOUS
    <2>1. /\ j \in 1 .. Len(error_list) /\ j # i
          /\ error_list[i] \in Entries /\ error_list[j] \in Entries
      <3>1. error_list \in Seq(Entries) /\ Len(error_list) \in Nat
        BY DEF TypeInv
      <3>2. j \in 1 .. Len(error_list) /\ j # i
        BY <3>1
      <3>. QED  BY <3>1, <3>2
    <2>2. InList(error_list[i]) /\ InList(error_list[j])
      BY <2>1 DEF InList
    <2>3. error_list[i] = error_list[j]
      BY <1>1, <2>1, <2>2 DEF ListInv, IsAt
    <2>. QED  BY <2>1, <2>3 DEF ListInv, NoRepeats
  <1>3. /\ Place(t) \in 1 .. Len(error_list)
        /\ IsAt(Place(t), t)
    BY <1>1, <1>2 DEF Place
  <1>4. error_list[Place(t)] \in Entries
    BY <1>3 DEF TypeInv
  <1>. QED  BY <1>3, <1>4 DEF IsAt, InList

\* A thread that has an entry is found to have one.
LEMMA HasEntryIff ==
    ASSUME TypeInv, NEW t \in Threads
    PROVE  HasEntry(t) <=> \E e \in Entries : InList(e) /\ thread_id[e] = t
  <1>1. ASSUME HasEntry(t) PROVE \E e \in Entries : InList(e) /\ thread_id[e] = t
    <2>1. PICK i \in 1 .. Len(error_list) : thread_id[error_list[i]] = t
      BY <1>1 DEF HasEntry, IsAt
    <2>2. error_list[i] \in Entries
      BY DEF TypeInv
    <2>. QED  BY <2>1, <2>2 DEF InList
  <1>2. ASSUME NEW e \in Entries, InList(e), thread_id[e] = t PROVE HasEntry(t)
    BY <1>2 DEF HasEntry, IsAt, InList
  <1>. QED  BY <1>1, <1>2

\* What msGetErrorObj does: the entry of the thread is in the list, and
\* nothing changes for the entries of the others.
Took(t, e) ==
    /\ InList(e)'
    /\ thread_id'[e] = t
    /\ \A d \in Entries : d # e =>
          /\ InList(d)' <=> InList(d)
          /\ thread_id'[d] = thread_id[d]
          /\ chain'[d] = chain[d]
    /\ \/ InList(e) /\ thread_id[e] = t /\ chain'[e] = chain[e]
       \/ /\ chain'[e] = <<NoError>>
          /\ ~InList(e)
          /\ \A d \in Entries : ~(InList(d) /\ thread_id[d] = t)

\* The parts of the invariant that msGetErrorObj itself keeps.
EntriesInv ==
    /\ error_list \in Seq(Entries)
    /\ thread_id \in [Entries -> Threads]
    /\ chain \in [Entries -> Seq(Errors)]
    /\ total \in [Entries -> 0 .. MaxTotal]
    /\ LengthInv
    /\ ListInv

\* An empty error is one.
LEMMA NoErrorOK ==
    /\ <<NoError>> \in Seq(Errors)
    /\ Len(<<NoError>>) = 1
    /\ <<NoError>>[1] = NoError
  <1>1. NoError \in Errors
    BY DEF NoError, Errors
  <1>. QED  BY <1>1

\* msGetErrorObj does what Took says, for the promoted and for the new entry.
LEMMA GetErrorObjTakes ==
    ASSUME TypeInv, LengthInv, ListInv, NEW t \in Threads, NEW e \in Entries,
           GetErrorObj(t, e)
    PROVE  EntriesInv' /\ Took(t, e)
  <1>. USE DEF EntriesInv
  <1>1. CASE HasEntry(t)
    <2>1. /\ e = error_list[Place(t)]
          /\ error_list' = <<e>> \o Without(error_list, Place(t))
          /\ UNCHANGED <<thread_id, chain, total>>
      BY <1>1 DEF GetErrorObj
    <2>2. /\ Place(t) \in 1 .. Len(error_list)
          /\ InList(e)
          /\ thread_id[e] = t
      BY <1>1, <2>1, PlaceLemma
    <2>. DEFINE rest == Without(error_list, Place(t))
    <2>3. /\ rest \in Seq(Entries)
          /\ NoRepeats(rest)
          /\ \A d \in Entries : Member(rest, d) <=> Member(error_list, d) /\ d # e
      BY <2>1, <2>2, WithoutLemma, WithoutMembers DEF TypeInv, ListInv
    <2>. HIDE DEF rest
    <2>4. /\ <<e>> \o rest \in Seq(Entries)
          /\ NoRepeats(<<e>> \o rest)
          /\ \A d \in Entries : Member(<<e>> \o rest, d) <=> Member(rest, d) \/ d = e
      BY <2>3, InFrontMembers
    <2>5. \A d \in Entries : InList(d)' <=> InList(d)
      BY <2>1, <2>2, <2>3, <2>4 DEF Member, InList, rest
    <2>6. error_list' \in Seq(Entries) /\ NoRepeats(error_list')
      BY <2>1, <2>4 DEF rest
    <2>7. ListInv'
      BY <2>1, <2>5, <2>6 DEF ListInv, NoRepeats
    <2>8. LengthInv'
      BY <2>1 DEF LengthInv
    <2>. QED  BY <2>1, <2>2, <2>5, <2>6, <2>7, <2>8 DEF TypeInv, Took
  <1>2. CASE ~HasEntry(t)
    <2>1. /\ ~InList(e)
          /\ error_list' = <<e>> \o error_list
          /\ thread_id' = [thread_id EXCEPT ![e] = t]
          /\ chain' = [chain EXCEPT ![e] = <<NoError>>]
          /\ total' = [total EXCEPT ![e] = 0]
      BY <1>2 DEF GetErrorObj
    <2>2. /\ error_list' \in Seq(Entries)
          /\ NoRepeats(error_list')
          /\ \A d \in Entries : Member(error_list', d) <=> Member(error_list, d) \/ d = e
      <3>1. ~Member(error_list, e) /\ NoRepeats(error_list) /\ error_list \in Seq(Entries)
        BY <2>1 DEF Member, InList, ListInv, TypeInv
      <3>. QED  BY <2>1, <3>1, InFrontMembers
    <2>3. \A d \in Entries : InList(d)' <=> InList(d) \/ d = e
      BY <2>2 DEF Member, InList
    <2>4. \A d \in Entries : ~(InList(d) /\ thread_id[d] = t)
      BY <1>2, HasEntryIff
    <2>5. /\ thread_id' \in [Entries -> Threads]
          /\ total' \in [Entries -> 0 .. MaxTotal]
          /\ chain' \in [Entries -> Seq(Errors)]
      BY <2>1, NoErrorOK, ErrorListAssumption DEF TypeInv
    <2>6. /\ thread_id'[e] = t /\ total'[e] = 0 /\ chain'[e] = <<NoError>>
          /\ \A d \in Entries : d # e =>
                /\ thread_id'[d] = thread_id[d]
                /\ chain'[d] = chain[d]
                /\ total'[d] = total[d]
      BY <2>1 DEF TypeInv
    <2>7. ListInv'
      <3>1. ASSUME NEW c \in Entries, NEW d \in Entries,
                   InList(c)', InList(d)', thread_id'[c] = thread_id'[d]
            PROVE  c = d
        BY <2>3, <2>4, <2>6, <3>1 DEF ListInv
      <3>. QED  BY <2>2, <3>1 DEF ListInv, NoRepeats
    <2>8. LengthInv'
      <3>1. Len(chain'[e]) \in 1 .. total'[e] + 1
        <4>1. Len(chain'[e]) = 1
          BY <2>6, NoErrorOK
        <4>. QED  BY <2>6, <4>1
      <3>. QED  BY <2>6, <3>1 DEF LengthInv
    <2>9. Took(t, e)
      <3>1. InList(e)' /\ thread_id'[e] = t
        BY <2>3, <2>6
      <3>2. \A d \in Entries : d # e =>
              /\ InList(d)' <=> InList(d)
              /\ thread_id'[d] = thread_id[d]
              /\ chain'[d] = chain[d]
        BY <2>3, <2>6
      <3>3. /\ chain'[e] = <<NoError>>
            /\ ~InList(e)
            /\ \A d \in Entries : ~(InList(d) /\ thread_id[d] = t)
        BY <2>1, <2>4, <2>6
      <3>. QED  BY <3>1, <3>2, <3>3, Zenon DEF Took
    <2>. QED  BY <2>2, <2>5, <2>7, <2>8, <2>9
  <1>. QED  BY <1>1, <1>2
-----------------------------------------------------------------------------
(* Steps of a thread.                                                      *)

Sorted(c) == \A i, j \in 1 .. Len(c) : i < j => c[i].at > c[j].at

\* What a step of thread t on its entry e leaves alone: the entries of the
\* other threads, and where the other threads are.
OnlyOwn(t, e) ==
    /\ InList(e) => thread_id[e] = t
    /\ \A d \in Entries : InList(d) /\ thread_id[d] = t => d = e
    /\ \A d \in Entries : d # e =>
          /\ InList(d)' <=> InList(d)
          /\ thread_id'[d] = thread_id[d]
          /\ chain'[d] = chain[d]
    /\ \A u \in Threads : u # t =>
          /\ pc'[u] = pc[u]
          /\ ms_error'[u] = ms_error[u]
          /\ args'[u] = args[u]
          /\ stamp'[u] = stamp[u]

\* A step of a thread that has its entry in the list afterwards keeps the
\* invariant if it does so for the thread itself.
LEMMA OwnStep ==
    ASSUME ListsInv, TypeInv', LengthInv', ListInv',
           NEW t \in Threads, NEW e \in Entries, OnlyOwn(t, e),
           InList(e)', thread_id'[e] = t,
           pc'[t] # "idle" => ms_error'[t] = e,
           pc'[t] = "unlink" => stamp'[t] = 0,
           Sorted(chain'[e]),
           IF pc'[t] \in Setting THEN chain'[e][1].at < stamp'[t]
                                 ELSE chain'[e][1].at = stamp'[t]
    PROVE  ListsInv'
  <1>1. ASSUME NEW u \in Threads, u # t, NEW d \in Entries, InList(d), thread_id[d] = u
        PROVE  d # e /\ InList(d)' /\ thread_id'[d] = u /\ chain'[d] = chain[d]
    BY <1>1 DEF OnlyOwn
  <1>2. HandInv'
    <2>. SUFFICES ASSUME NEW u \in Threads
                  PROVE  /\ pc'[u] # "idle" => /\ ms_error'[u] \in Entries
                                               /\ InList(ms_error[u])'
                                               /\ thread_id'[ms_error'[u]] = u
                         /\ pc'[u] = "unlink" => stamp'[u] = 0
                         /\ stamp'[u] # 0 => \E d \in Entries : InList(d)' /\ thread_id'[d] = u
      BY DEF HandInv
    <2>1. CASE u = t
      BY <2>1 DEF InList
    <2>2. CASE u # t
      <3>1. /\ pc'[u] = pc[u] /\ ms_error'[u] = ms_error[u] /\ stamp'[u] = stamp[u]
        BY <2>2 DEF OnlyOwn
      <3>2. /\ pc[u] # "idle" => /\ ms_error[u] \in Entries
                                 /\ InList(ms_error[u])
                                 /\ thread_id[ms_error[u]] = u
            /\ pc[u] = "unlink" => stamp[u] = 0
            /\ stamp[u] # 0 => \E d \in Entries : InList(d) /\ thread_id[d] = u
        BY DEF ListsInv, HandInv
      <3>3. pc[u] # "idle" => InList(ms_error[u])'
        BY <1>1, <2>2, <3>1, <3>2 DEF InList
      <3>. QED  BY <1>1, <2>2, <3>1, <3>2, <3>3
    <2>. QED  BY <2>1, <2>2
  <1>3. ChainInv'
    <2>. SUFFICES ASSUME NEW d \in Entries, InList(d)'
                  PROVE  /\ Sorted(chain'[d])
                         /\ IF pc'[thread_id'[d]] \in Setting
                            THEN chain'[d][1].at < stamp'[thread_id'[d]]
                            ELSE chain'[d][1].at = stamp'[thread_id'[d]]
      BY DEF ChainInv, Sorted
    <2>1. CASE d = e
      BY <2>1
    <2>2. CASE d # e
      <3>1. /\ InList(d) /\ thread_id'[d] = thread_id[d] /\ chain'[d] = chain[d]
            /\ thread_id[d] # t /\ thread_id[d] \in Threads
        BY <2>2 DEF OnlyOwn, ListsInv, TypeInv
      <3>2. pc'[thread_id[d]] = pc[thread_id[d]] /\ stamp'[thread_id[d]] = stamp[thread_id[d]]
        BY <3>1 DEF OnlyOwn
      <3>. QED  BY <3>1, <3>2 DEF ListsInv, ChainInv, Sorted
    <2>. QED  BY <2>1, <2>2
  <1>. QED  BY <1>2, <1>3 DEF ListsInv

\* After taking the entry, its chain is in order and ends with the error the
\* thread has set last.
LEMMA TookChain ==
    ASSUME ListsInv, NEW t \in Threads, NEW e \in Entries, Took(t, e)
    PROVE  /\ Sorted(chain'[e])
           /\ pc[t] \notin Setting => chain'[e][1].at = stamp[t]
           /\ InList(e) => thread_id[e] = t
           /\ \A d \in Entries : InList(d) /\ thread_id[d] = t => d = e
  <1>1. CASE InList(e) /\ thread_id[e] = t /\ chain'[e] = chain[e]
    BY <1>1 DEF ListsInv, ListInv, ChainInv, Sorted
  <1>2. CASE /\ chain'[e] = <<NoError>> /\ ~InList(e)
             /\ \A d \in Entries : ~(InList(d) /\ thread_id[d] = t)
    <2>1. stamp[t] = 0
      BY <1>2 DEF ListsInv, HandInv
    <2>2. chain'[e][1].at = 0 /\ Len(chain'[e]) = 1
      <3>1. chain'[e] = <<NoError>>
        BY <1>2
      <3>2. chain'[e][1] = NoError /\ Len(chain'[e]) = 1
        BY <3>1, NoErrorOK
      <3>3. NoError.at = 0
        BY DEF NoError
      <3>. QED  BY <3>2, <3>3
    <2>3. Sorted(chain'[e])
      BY <2>2 DEF Sorted
    <2>. QED  BY <1>2, <2>1, <2>2, <2>3
  <1>. QED  BY <1>1, <1>2 DEF Took

\* The other threads are where they were, with what they had in their hands.
OthersStay(t) ==
    \A u \in Threads : u # t =>
        /\ pc'[u] = pc[u]
        /\ ms_error'[u] = ms_error[u]
        /\ args'[u] = args[u]
        /\ stamp'[u] = stamp[u]

\* The types of what the threads keep for themselves.
ThreadTypes ==
    /\ pc \in [Threads -> {"idle", "compare", "insert", "clear", "unlink"}]
    /\ ms_error \in [Threads -> Entries \cup {NoEntry}]
    /\ args \in [Threads -> [code : Codes, message : Messages] \cup {NoArgs}]
    /\ stamp \in [Threads -> Nat]

\* A step in which a thread takes its entry with msGetErrorObj.
LEMMA TakeStep ==
    ASSUME ListsInv, NEW t \in Threads, NEW e \in Entries, GetErrorObj(t, e),
           ThreadTypes', OthersStay(t),
           pc'[t] # "idle" => ms_error'[t] = e,
           pc'[t] = "unlink" => stamp'[t] = 0,
           IF pc'[t] \in Setting THEN chain'[e][1].at < stamp'[t]
                                 ELSE chain'[e][1].at = stamp'[t]
    PROVE  ListsInv'
  <1>1. EntriesInv' /\ Took(t, e)
    BY GetErrorObjTakes DEF ListsInv
  <1>2. TypeInv' /\ LengthInv' /\ ListInv'
    BY <1>1 DEF EntriesInv, TypeInv, ThreadTypes
  <1>3. Sorted(chain'[e]) /\ OnlyOwn(t, e)
    <2>1. /\ Sorted(chain'[e])
          /\ InList(e) => thread_id[e] = t
          /\ \A d \in Entries : InList(d) /\ thread_id[d] = t => d = e
      BY <1>1, TookChain
    <2>2. \A d \in Entries : d # e =>
              /\ InList(d)' <=> InList(d)
              /\ thread_id'[d] = thread_id[d]
              /\ chain'[d] = chain[d]
      BY <1>1 DEF Took
    <2>. QED  BY <2>1, <2>2 DEF OnlyOwn, OthersStay
  <1>4. InList(e)' /\ thread_id'[e] = t
    BY <1>1 DEF Took
  <1>. QED  BY <1>2, <1>3, <1>4, OwnStep

\* msSetError takes the entry: the error to be set is newer than all others.
LEMMA SetErrorKeeps ==
    ASSUME ListsInv, NEW t \in Threads, NEW a \in [code : Codes, message : Messages],
           SetError(t, a)
    PROVE  ListsInv'
  <1>1. PICK e \in Entries : GetErrorObj(t, e) /\ ms_error' = [ms_error EXCEPT ![t] = e]
    BY DEF SetError
  <1>2. ThreadTypes' /\ OthersStay(t)
    BY <1>1 DEF SetError, ListsInv, TypeInv, ThreadTypes, OthersStay
  <1>3. pc'[t] = "compare" /\ ms_error'[t] = e /\ stamp'[t] = stamp[t] + 1 /\ stamp[t] \in Nat
    BY <1>1 DEF SetError, ListsInv, TypeInv
  <1>4. chain'[e][1].at = stamp[t]
    <2>1. Took(t, e)
      BY <1>1, GetErrorObjTakes DEF ListsInv
    <2>2. pc[t] \notin Setting
      BY DEF SetError, Setting
    <2>. QED  BY <2>1, <2>2, TookChain
  <1>5. pc'[t] \in Setting /\ chain'[e][1].at < stamp'[t]
    BY <1>3, <1>4 DEF Setting
  <1>. QED  BY <1>1, <1>2, <1>3, <1>5, TakeStep

\* msResetErrorList and the other callers of msGetErrorObj take the entry and
\* set no error.
LEMMA ResetKeeps ==
    ASSUME ListsInv, NEW t \in Threads, Reset(t)
    PROVE  ListsInv'
  <1>1. PICK e \in Entries : GetErrorObj(t, e) /\ ms_error' = [ms_error EXCEPT ![t] = e]
    BY DEF Reset
  <1>2. ThreadTypes' /\ OthersStay(t)
    BY <1>1 DEF Reset, ListsInv, TypeInv, ThreadTypes, OthersStay
  <1>3. pc'[t] = "clear" /\ ms_error'[t] = e /\ stamp'[t] = stamp[t]
    BY <1>1 DEF Reset, ListsInv, TypeInv
  <1>4. chain'[e][1].at = stamp[t]
    <2>1. Took(t, e)
      BY <1>1, GetErrorObjTakes DEF ListsInv
    <2>2. pc[t] \notin Setting
      BY DEF Reset, Setting
    <2>. QED  BY <2>1, <2>2, TookChain
  <1>. QED  BY <1>1, <1>2, <1>3, <1>4, TakeStep DEF Setting

\* As above, with nothing kept.
LEMMA LookAtErrorKeeps ==
    ASSUME ListsInv, NEW t \in Threads, LookAtError(t)
    PROVE  ListsInv'
  <1>1. PICK e \in Entries : GetErrorObj(t, e)
    BY DEF LookAtError
  <1>2. ThreadTypes' /\ OthersStay(t)
    BY <1>1 DEF LookAtError, ListsInv, TypeInv, ThreadTypes, OthersStay
  <1>3. pc'[t] = "idle" /\ pc[t] = "idle" /\ stamp'[t] = stamp[t]
    BY <1>1 DEF LookAtError
  <1>4. chain'[e][1].at = stamp[t]
    <2>1. Took(t, e)
      BY <1>1, GetErrorObjTakes DEF ListsInv
    <2>. QED  BY <1>3, <2>1, TookChain DEF Setting
  <1>. QED  BY <1>1, <1>2, <1>3, <1>4, TakeStep DEF Setting

\* The entry that is taken for the insertion is the one that was compared,
\* wherever the other threads have moved it.
LEMMA DifferentKeeps ==
    ASSUME ListsInv, NEW t \in Threads, Different(t)
    PROVE  ListsInv'
  <1>1. PICK e \in Entries : GetErrorObj(t, e) /\ ms_error' = [ms_error EXCEPT ![t] = e]
    BY DEF Different
  <1>2. ThreadTypes' /\ OthersStay(t)
    BY <1>1 DEF Different, ListsInv, TypeInv, ThreadTypes, OthersStay
  <1>3. pc'[t] = "insert" /\ ms_error'[t] = e /\ stamp'[t] = stamp[t] /\ args'[t] = args[t]
    BY <1>1 DEF Different, ListsInv, TypeInv
  <1>4. e = ms_error[t] /\ chain'[e] = chain[e] /\ InList(e) /\ thread_id[e] = t
    <2>1. ms_error[t] \in Entries /\ InList(ms_error[t]) /\ thread_id[ms_error[t]] = t
      BY DEF Different, ListsInv, HandInv
    <2>2. Took(t, e)
      BY <1>1, GetErrorObjTakes DEF ListsInv
    <2>3. InList(e) /\ thread_id[e] = t /\ chain'[e] = chain[e]
      BY <2>1, <2>2 DEF Took
    <2>. QED  BY <2>1, <2>3 DEF ListsInv, ListInv
  <1>5. chain'[e][1].at < stamp'[t]
    BY <1>3, <1>4 DEF Different, ListsInv, ChainInv, Setting
  <1>. QED  BY <1>1, <1>2, <1>3, <1>5, TakeStep DEF Setting

-----------------------------------------------------------------------------
(* Writing to the chain of errors.                                         *)

\* The newest error is written over.
LEMMA HeadWritten ==
    ASSUME NEW c \in Seq(Errors), Len(c) >= 1, Sorted(c),
           NEW r \in Errors, c[1].at <= r.at
    PROVE  /\ [c EXCEPT ![1] = r] \in Seq(Errors)
           /\ Len([c EXCEPT ![1] = r]) = Len(c)
           /\ [c EXCEPT ![1] = r][1] = r
           /\ Sorted([c EXCEPT ![1] = r])
  <1>. DEFINE d == [c EXCEPT ![1] = r]
  <1>1. /\ d \in Seq(Errors) /\ Len(d) = Len(c) /\ d[1] = r
        /\ \A k \in 2 .. Len(c) : d[k] = c[k]
    OBVIOUS
  <1>. HIDE DEF d
  <1>2. \A k \in 1 .. Len(c) : c[k].at \in Nat
    <2>1. \A k \in 1 .. Len(c) : c[k] \in Errors
      OBVIOUS
    <2>. QED  BY <2>1 DEF Errors
  <1>3. r.at \in Nat
    BY DEF Errors
  <1>4. ASSUME NEW i \in 1 .. Len(d), NEW j \in 1 .. Len(d), i < j
        PROVE  d[i].at > d[j].at
    <2>1. d[j] = c[j] /\ j \in 1 .. Len(c) /\ 1 \in 1 .. Len(c) /\ i \in 1 .. Len(c)
      BY <1>1, <1>4
    <2>2. CASE i = 1
      <3>1. c[1].at > c[j].at
        BY <1>4, <2>1, <2>2 DEF Sorted
      <3>. QED  BY <1>1, <1>2, <1>3, <2>1, <2>2, <3>1
    <2>3. CASE i # 1
      BY <1>1, <1>4, <2>1, <2>3 DEF Sorted
    <2>. QED  BY <2>2, <2>3
  <1>5. Sorted(d)
    BY <1>4 DEF Sorted
  <1>. QED  BY <1>1, <1>5 DEF d

\* A newer error is put in front.
LEMMA ErrorInFront ==
    ASSUME NEW c \in Seq(Errors), Len(c) >= 1, Sorted(c),
           NEW r \in Errors, c[1].at < r.at
    PROVE  /\ <<r>> \o c \in Seq(Errors)
           /\ Len(<<r>> \o c) = Len(c) + 1
           /\ (<<r>> \o c)[1] = r
           /\ (<<r>> \o c)[2] = c[1]
           /\ Sorted(<<r>> \o c)
  <1>. DEFINE d == <<r>> \o c
  <1>1. /\ d \in Seq(Errors) /\ Len(d) = Len(c) + 1 /\ d[1] = r
        /\ \A k \in 2 .. Len(c) + 1 : d[k] = c[k - 1]
    OBVIOUS
  <1>. HIDE DEF d
  <1>2. \A k \in 1 .. Len(c) : c[k].at \in Nat
    <2>1. \A k \in 1 .. Len(c) : c[k] \in Errors
      OBVIOUS
    <2>. QED  BY <2>1 DEF Errors
  <1>3. r.at \in Nat
    BY DEF Errors
  <1>4. ASSUME NEW i \in 1 .. Len(d), NEW j \in 1 .. Len(d), i < j
        PROVE  d[i].at > d[j].at
    <2>1. d[j] = c[j - 1] /\ j - 1 \in 1 .. Len(c) /\ 1 \in 1 .. Len(c)
      BY <1>1, <1>4
    <2>2. CASE i = 1
      <3>1. c[1].at >= c[j - 1].at
        <4>1. CASE j - 1 = 1
          BY <1>2, <2>1, <4>1
        <4>2. CASE j - 1 # 1
          <5>1. c[1].at > c[j - 1].at
            BY <2>1, <4>2 DEF Sorted
          <5>. QED  BY <1>2, <2>1, <5>1
        <4>. QED  BY <4>1, <4>2
      <3>. QED  BY <1>1, <1>2, <1>3, <2>1, <2>2, <3>1
    <2>3. CASE i # 1
      <3>1. d[i] = c[i - 1] /\ i - 1 \in 1 .. Len(c) /\ i - 1 < j - 1
        BY <1>1, <1>4, <2>3
      <3>. QED  BY <2>1, <3>1 DEF Sorted
    <2>. QED  BY <2>2, <2>3
  <1>5. Sorted(d) /\ d[2] = c[1]
    BY <1>1, <1>4 DEF Sorted
  <1>. QED  BY <1>1, <1>5 DEF d

\* A step in which a thread writes to the entry it has in its hand.
LEMMA WriteStep ==
    ASSUME ListsInv, NEW t \in Threads, pc[t] # "idle",
           NEW c \in Seq(Errors), chain' = [chain EXCEPT ![ms_error[t]] = c],
           total' \in [Entries -> 0 .. MaxTotal],
           \A d \in Entries : d # ms_error[t] => total'[d] = total[d],
           Len(c) \in 1 .. total'[ms_error[t]] + 1,
           UNCHANGED <<error_list, thread_id>>,
           ThreadTypes', OthersStay(t),
           pc'[t] \in {"idle", "unlink"},
           pc'[t] = "unlink" => stamp'[t] = 0 /\ ms_error'[t] = ms_error[t],
           Sorted(c), c[1].at = stamp'[t]
    PROVE  ListsInv'
  <1>1. PICK e \in Entries : e = ms_error[t] /\ InList(e) /\ thread_id[e] = t
    BY DEF ListsInv, HandInv
  <1>2. /\ chain' \in [Entries -> Seq(Errors)] /\ chain'[e] = c
        /\ \A d \in Entries : d # e => chain'[d] = chain[d]
    BY <1>1 DEF ListsInv, TypeInv
  <1>3. \A d \in Entries : (InList(d)' <=> InList(d)) /\ thread_id'[d] = thread_id[d]
    BY DEF InList
  <1>4. TypeInv'
    BY <1>2 DEF ListsInv, TypeInv, ThreadTypes
  <1>5. LengthInv'
    <2>1. \A d \in Entries : d # e => total'[d] = total[d] /\ Len(chain[d]) \in 1 .. total[d] + 1
      BY <1>1 DEF ListsInv, LengthInv
    <2>2. Len(c) \in 1 .. total'[e] + 1
      BY <1>1
    <2>. QED  BY <1>2, <2>1, <2>2 DEF LengthInv
  <1>6. ListInv'
    BY <1>3 DEF ListsInv, ListInv, NoRepeats
  <1>7. OnlyOwn(t, e)
    BY <1>1, <1>2, <1>3 DEF OnlyOwn, OthersStay, ListsInv, ListInv
  <1>8. InList(e)' /\ thread_id'[e] = t
    BY <1>1, <1>3
  <1>9. /\ pc'[t] \notin Setting
        /\ pc'[t] # "idle" => ms_error'[t] = e
        /\ pc'[t] = "unlink" => stamp'[t] = 0
    BY <1>1 DEF Setting
  <1>10. Sorted(chain'[e]) /\ chain'[e][1].at = stamp'[t]
    BY <1>2
  <1>. QED  BY <1>1, <1>4, <1>5, <1>6, <1>7, <1>8, <1>9, <1>10, OwnStep

\* What is known of the entry that a thread has in its hand.
LEMMA InHand ==
    ASSUME ListsInv, NEW t \in Threads, pc[t] # "idle"
    PROVE  /\ ms_error[t] \in Entries
           /\ chain[ms_error[t]] \in Seq(Errors)
           /\ Len(chain[ms_error[t]]) \in 1 .. total[ms_error[t]] + 1
           /\ total[ms_error[t]] \in 0 .. MaxTotal
           /\ Sorted(chain[ms_error[t]])
           /\ chain[ms_error[t]][1] \in Errors
           /\ pc[t] \in Setting => chain[ms_error[t]][1].at < stamp[t]
  <1>1. /\ ms_error[t] \in Entries
        /\ InList(ms_error[t])
        /\ thread_id[ms_error[t]] = t
    BY DEF ListsInv, HandInv
  <1>2. /\ chain[ms_error[t]] \in Seq(Errors)
        /\ Len(chain[ms_error[t]]) \in 1 .. total[ms_error[t]] + 1
        /\ total[ms_error[t]] \in 0 .. MaxTotal
    BY <1>1 DEF ListsInv, TypeInv, LengthInv
  <1>3. chain[ms_error[t]][1] \in Errors
    BY <1>2
  <1>4. /\ Sorted(chain[ms_error[t]])
        /\ pc[t] \in Setting => chain[ms_error[t]][1].at < stamp[t]
    BY <1>1 DEF ListsInv, ChainInv, Sorted
  <1>. QED  BY <1>1, <1>2, <1>3, <1>4

\* What a thread writes is an error.
LEMMA WrittenOK ==
    ASSUME ListsInv, NEW t \in Threads, NEW head \in Errors
    PROVE  Written(head, t) \in Errors /\ Written(head, t).at = stamp[t]
  <1>1. /\ args[t].code \in Codes \cup {MS_NOERR}
        /\ args[t].message \in Messages \cup {""}
        /\ stamp[t] \in Nat
    <2>1. args[t] \in [code : Codes, message : Messages] \cup {NoArgs} /\ stamp[t] \in Nat
      BY DEF ListsInv, TypeInv
    <2>2. CASE args[t] = NoArgs
      <3>1. NoArgs.code = MS_NOERR /\ NoArgs.message = ""
        BY DEF NoArgs
      <3>. QED  BY <2>1, <2>2, <3>1
    <2>. QED  BY <2>1, <2>2
  <1>2. Stored(args[t].message) \in Messages \cup {"", "redacted"}
    BY <1>1 DEF Stored
  <1>. QED  BY <1>1, <1>2 DEF Written, Errors

\* The same error again: the newest one of the chain is counted once more.
LEMMA RepeatKeeps ==
    ASSUME ListsInv, NEW t \in Threads, Repeat(t)
    PROVE  ListsInv'
  <1>. DEFINE old == chain[ms_error[t]]
              r == [old[1] EXCEPT !.at = stamp[t]]
              c == [old EXCEPT ![1] = r]
  <1>1. pc[t] = "compare"
    BY DEF Repeat
  <1>2. /\ ms_error[t] \in Entries
        /\ old \in Seq(Errors)
        /\ Len(old) \in 1 .. total[ms_error[t]] + 1
        /\ total[ms_error[t]] \in 0 .. MaxTotal
        /\ Sorted(old)
        /\ old[1] \in Errors
        /\ old[1].at < stamp[t]
    BY <1>1, InHand DEF Setting
  <1>3. stamp[t] \in Nat
    BY DEF ListsInv, TypeInv
  <1>4. chain' = [chain EXCEPT ![ms_error[t]] = c]
    BY DEF Repeat
  <1>5. r \in Errors /\ r.at = stamp[t] /\ old[1].at \in Nat
    BY <1>2, <1>3 DEF Errors
  <1>. HIDE DEF old, r
  <1>6. /\ c \in Seq(Errors) /\ Len(c) = Len(old) /\ c[1] = r /\ Sorted(c)
    BY <1>2, <1>3, <1>5, HeadWritten
  <1>. HIDE DEF c
  <1>7. ThreadTypes' /\ OthersStay(t) /\ pc'[t] = "idle" /\ stamp'[t] = stamp[t]
    BY DEF Repeat, ListsInv, TypeInv, ThreadTypes, OthersStay
  <1>8. /\ total' \in [Entries -> 0 .. MaxTotal]
        /\ \A d \in Entries : d # ms_error[t] => total'[d] = total[d]
        /\ Len(c) \in 1 .. total'[ms_error[t]] + 1
        /\ UNCHANGED <<error_list, thread_id>>
    BY <1>2, <1>6 DEF Repeat, ListsInv, TypeInv
  <1>9. c[1].at = stamp'[t]
    BY <1>5, <1>6, <1>7
  <1>. QED  BY <1>1, <1>4, <1>6, <1>7, <1>8, <1>9, WriteStep

\* Another error: it goes in front of the others, or in place of the newest
\* one when that is empty, the chain is full, or there is no memory.
LEMMA InsertErrorKeeps ==
    ASSUME ListsInv, NEW t \in Threads, InsertError(t)
    PROVE  ListsInv'
  <1>. DEFINE old == chain[ms_error[t]]
              tot == IF Moves(ms_error[t]) THEN total[ms_error[t]] + 1 ELSE total[ms_error[t]]
  <1>1. pc[t] = "insert"
    BY DEF InsertError
  <1>2. /\ ms_error[t] \in Entries
        /\ old \in Seq(Errors)
        /\ Len(old) \in 1 .. total[ms_error[t]] + 1
        /\ total[ms_error[t]] \in 0 .. MaxTotal
        /\ Sorted(old)
        /\ old[1] \in Errors
        /\ old[1].at < stamp[t]
    BY <1>1, InHand DEF Setting
  <1>3. stamp[t] \in Nat /\ old[1].at \in Nat
    BY <1>2 DEF ListsInv, TypeInv, Errors
  <1>4. ThreadTypes' /\ OthersStay(t) /\ pc'[t] = "idle" /\ stamp'[t] = stamp[t]
    BY DEF InsertError, ListsInv, TypeInv, ThreadTypes, OthersStay
  <1>5. /\ total' \in [Entries -> 0 .. MaxTotal]
        /\ \A d \in Entries : d # ms_error[t] => total'[d] = total[d]
        /\ total'[ms_error[t]] = tot
        /\ UNCHANGED <<error_list, thread_id>>
    <2>1. tot \in 0 .. MaxTotal
      BY <1>2, ErrorListAssumption DEF Moves
    <2>2. /\ total' = [total EXCEPT ![ms_error[t]] = tot]
          /\ UNCHANGED <<error_list, thread_id>>
      BY DEF InsertError
    <2>. HIDE DEF tot
    <2>. QED  BY <1>2, <2>1, <2>2 DEF ListsInv, TypeInv
  <1>6. CASE /\ Moves(ms_error[t])
             /\ chain' = [chain EXCEPT ![ms_error[t]] = ChainAfter(ms_error[t], t)]
    <2>. DEFINE r == Written(NoError, t)
                c == <<r>> \o old
    <2>1. chain' = [chain EXCEPT ![ms_error[t]] = c]
      BY <1>6 DEF ChainAfter
    <2>2. r \in Errors /\ r.at = stamp[t]
      BY WrittenOK DEF NoError, Errors
    <2>. HIDE DEF r, old
    <2>3. /\ c \in Seq(Errors) /\ Len(c) = Len(old) + 1 /\ c[1] = r /\ Sorted(c)
      BY <1>2, <1>3, <2>2, ErrorInFront
    <2>. HIDE DEF c
    <2>4. Len(c) \in 1 .. total'[ms_error[t]] + 1
      BY <1>2, <1>5, <1>6, <2>3
    <2>5. c[1].at = stamp'[t]
      BY <1>4, <2>2, <2>3
    <2>. QED  BY <1>1, <1>4, <1>5, <2>1, <2>3, <2>4, <2>5, WriteStep
  <1>7. CASE chain' = [chain EXCEPT ![ms_error[t]][1] = Written(@, t)]
    <2>. DEFINE r == Written(old[1], t)
                c == [old EXCEPT ![1] = r]
    <2>1. chain' = [chain EXCEPT ![ms_error[t]] = c]
      BY <1>7
    <2>2. r \in Errors /\ r.at = stamp[t]
      BY <1>2, WrittenOK
    <2>. HIDE DEF r, old
    <2>3. /\ c \in Seq(Errors) /\ Len(c) = Len(old) /\ c[1] = r /\ Sorted(c)
      BY <1>2, <1>3, <2>2, HeadWritten
    <2>. HIDE DEF c
    <2>4. Len(c) \in 1 .. total'[ms_error[t]] + 1
      BY <1>2, <1>5, <2>3
    <2>5. c[1].at = stamp'[t]
      BY <1>4, <2>2, <2>3
    <2>. QED  BY <1>1, <1>4, <1>5, <2>1, <2>3, <2>4, <2>5, WriteStep
  <1>. QED  BY <1>6, <1>7 DEF InsertError

\* msResetErrorList empties the chain.
LEMMA ClearKeeps ==
    ASSUME ListsInv, NEW t \in Threads, Clear(t)
    PROVE  ListsInv'
  <1>. DEFINE c == <<NoError>>
  <1>1. pc[t] = "clear" /\ ms_error[t] \in Entries
    BY DEF Clear, ListsInv, HandInv
  <1>2. /\ c \in Seq(Errors) /\ Len(c) = 1 /\ c[1] = NoError
    BY NoErrorOK
  <1>3. NoError.at = 0
    BY DEF NoError
  <1>4. chain' = [chain EXCEPT ![ms_error[t]] = c] /\ UNCHANGED <<error_list, thread_id>>
    BY DEF Clear
  <1>. HIDE DEF c
  <1>5. Sorted(c)
    BY <1>2 DEF Sorted
  <1>6. /\ total' \in [Entries -> 0 .. MaxTotal]
        /\ \A d \in Entries : d # ms_error[t] => total'[d] = total[d]
        /\ total'[ms_error[t]] = 0
    BY <1>1, ErrorListAssumption DEF Clear, ListsInv, TypeInv
  <1>7. /\ ThreadTypes' /\ OthersStay(t) /\ pc'[t] = "unlink"
        /\ stamp'[t] = 0 /\ ms_error'[t] = ms_error[t]
    BY DEF Clear, ListsInv, TypeInv, ThreadTypes, OthersStay
  <1>8. Len(c) \in 1 .. total'[ms_error[t]] + 1 /\ c[1].at = stamp'[t]
    BY <1>2, <1>3, <1>6, <1>7
  <1>. QED  BY <1>1, <1>2, <1>4, <1>5, <1>6, <1>7, <1>8, WriteStep

\* msResetErrorList takes the thread's own entry off the list, wherever the
\* other threads have moved it.
LEMMA UnlinkKeeps ==
    ASSUME ListsInv, NEW t \in Threads, Unlink(t)
    PROVE  ListsInv'
  <1>1. PICK e \in Entries : e = ms_error[t] /\ InList(e) /\ thread_id[e] = t
    BY DEF Unlink, ListsInv, HandInv
  <1>2. /\ Place(t) \in 1 .. Len(error_list)
        /\ error_list[Place(t)] = e
    <2>1. HasEntry(t)
      BY <1>1, HasEntryIff DEF ListsInv
    <2>2. /\ Place(t) \in 1 .. Len(error_list)
          /\ error_list[Place(t)] \in Entries
          /\ InList(error_list[Place(t)])
          /\ thread_id[error_list[Place(t)]] = t
      BY <2>1, PlaceLemma DEF ListsInv
    <2>. QED  BY <1>1, <2>2 DEF ListsInv, ListInv
  <1>3. error_list' = Without(error_list, Place(t))
    BY DEF Unlink, Unlinked
  <1>4. /\ error_list' \in Seq(Entries)
        /\ NoRepeats(error_list')
        /\ \A d \in Entries : InList(d)' <=> InList(d) /\ d # e
    <2>1. error_list \in Seq(Entries) /\ NoRepeats(error_list)
      BY DEF ListsInv, TypeInv, ListInv
    <2>2. /\ error_list' \in Seq(Entries)
          /\ NoRepeats(error_list')
          /\ \A d \in Entries : Member(error_list', d) <=> Member(error_list, d) /\ d # e
      BY <1>2, <1>3, <2>1, WithoutLemma, WithoutMembers
    <2>. QED  BY <2>2 DEF Member, InList
  <1>5. /\ UNCHANGED <<thread_id, chain, total, args, stamp>>
        /\ pc' = [pc EXCEPT ![t] = "idle"]
        /\ ms_error' = [ms_error EXCEPT ![t] = NoEntry]
        /\ pc[t] = "unlink"
    BY DEF Unlink
  <1>6. /\ pc'[t] = "idle" /\ stamp[t] = 0
        /\ \A u \in Threads : u # t => pc'[u] = pc[u] /\ ms_error'[u] = ms_error[u]
    BY <1>5 DEF ListsInv, TypeInv, HandInv
  <1>7. TypeInv' /\ LengthInv'
    BY <1>4, <1>5 DEF ListsInv, TypeInv, LengthInv
  <1>8. ListInv'
    BY <1>4, <1>5 DEF ListsInv, ListInv, NoRepeats
  <1>9. HandInv'
    <2>. SUFFICES ASSUME NEW u \in Threads
                  PROVE  /\ pc'[u] # "idle" => /\ ms_error'[u] \in Entries
                                               /\ InList(ms_error[u])'
                                               /\ thread_id'[ms_error'[u]] = u
                         /\ pc'[u] = "unlink" => stamp'[u] = 0
                         /\ stamp'[u] # 0 => \E d \in Entries : InList(d)' /\ thread_id'[d] = u
      BY DEF HandInv
    <2>1. CASE u = t
      BY <1>5, <1>6, <2>1
    <2>2. CASE u # t
      <3>1. \A d \in Entries : InList(d) /\ thread_id[d] = u => InList(d)' /\ thread_id'[d] = u
        BY <1>1, <1>4, <1>5, <2>2
      <3>2. /\ pc[u] # "idle" => /\ ms_error[u] \in Entries
                                 /\ InList(ms_error[u])
                                 /\ thread_id[ms_error[u]] = u
            /\ pc[u] = "unlink" => stamp[u] = 0
            /\ stamp[u] # 0 => \E d \in Entries : InList(d) /\ thread_id[d] = u
        BY DEF ListsInv, HandInv
      <3>3. pc'[u] = pc[u] /\ ms_error'[u] = ms_error[u] /\ stamp'[u] = stamp[u]
        BY <1>5, <1>6, <2>2
      <3>4. pc[u] # "idle" => InList(ms_error[u])'
        BY <3>1, <3>2, <3>3 DEF InList
      <3>. QED  BY <3>1, <3>2, <3>3, <3>4
    <2>. QED  BY <2>1, <2>2
  <1>10. ChainInv'
    <2>. SUFFICES ASSUME NEW d \in Entries, InList(d)'
                  PROVE  /\ Sorted(chain'[d])
                         /\ IF pc'[thread_id'[d]] \in Setting
                            THEN chain'[d][1].at < stamp'[thread_id'[d]]
                            ELSE chain'[d][1].at = stamp'[thread_id'[d]]
      BY DEF ChainInv, Sorted
    <2>1. InList(d) /\ thread_id[d] # t /\ thread_id[d] \in Threads
      BY <1>1, <1>4 DEF ListsInv, ListInv, TypeInv
    <2>2. pc'[thread_id[d]] = pc[thread_id[d]]
      BY <1>6, <2>1
    <2>. QED  BY <1>5, <2>1, <2>2 DEF ListsInv, ChainInv, Sorted
  <1>. QED  BY <1>7, <1>8, <1>9, <1>10 DEF ListsInv

-----------------------------------------------------------------------------
(* The theorems.                                                           *)

\* Every step of every thread keeps the invariant.
LEMMA StepKeeps ==
    ASSUME ListsInv, [Next]_vars
    PROVE  ListsInv'
  <1>1. CASE UNCHANGED vars
    BY <1>1 DEF vars, ListsInv, TypeInv, LengthInv, ListInv, NoRepeats, HandInv, ChainInv,
                InList
  <1>2. CASE Next
    BY <1>2, SetErrorKeeps, RepeatKeeps, DifferentKeeps, InsertErrorKeeps, ResetKeeps,
       ClearKeeps, UnlinkKeeps, LookAtErrorKeeps DEF Next
  <1>. QED  BY <1>1, <1>2

\* The invariant of the error list holds at all times, for every number of
\* threads and errors.
THEOREM ListsInvariance == Spec => []ListsInv
  <1>1. Init => ListsInv
    <2>. SUFFICES ASSUME Init PROVE ListsInv
      OBVIOUS
    <2>1. TypeInv
      <3>1. (CHOOSE t \in Threads : TRUE) \in Threads
        BY ErrorListAssumption
      <3>2. thread_id \in [Entries -> Threads]
        BY <3>1 DEF Init
      <3>3. <<>> \in Seq(Entries)
        OBVIOUS
      <3>4. chain \in [Entries -> Seq(Errors)]
        BY NoErrorOK DEF Init
      <3>5. /\ total \in [Entries -> 0 .. MaxTotal]
            /\ pc \in [Threads -> {"idle", "compare", "insert", "clear", "unlink"}]
            /\ ms_error \in [Threads -> Entries \cup {NoEntry}]
            /\ stamp \in [Threads -> Nat]
        BY ErrorListAssumption DEF Init
      <3>6. args \in [Threads -> [code : Codes, message : Messages] \cup {NoArgs}]
        BY DEF Init
      <3>7. error_list \in Seq(Entries)
        BY <3>3 DEF Init
      <3>. QED  BY <3>2, <3>4, <3>5, <3>6, <3>7 DEF TypeInv
    <2>2. LengthInv
      BY NoErrorOK, ErrorListAssumption DEF Init, LengthInv
    <2>3. \A e \in Entries : ~InList(e)
      BY DEF Init, InList
    <2>4. ListInv /\ HandInv /\ ChainInv
      <3>1. ListInv /\ ChainInv
        <4>1. NoRepeats(error_list)
          BY DEF Init, NoRepeats
        <4>. QED  BY <2>3, <4>1 DEF ListInv, ChainInv
      <3>2. \A t \in Threads : pc[t] = "idle" /\ stamp[t] = 0
        BY DEF Init
      <3>. QED  BY <3>1, <3>2 DEF HandInv
    <2>. QED  BY <2>1, <2>2, <2>4 DEF ListsInv
  <1>2. ListsInv /\ [Next]_vars => ListsInv'
    BY StepKeeps
  <1>. QED  BY <1>1, <1>2, PTL DEF Spec

\* A thread never has two entries, and no entry is in the list twice.
THEOREM OneEntryHolds == Spec => []OneEntry
  <1>1. ListsInv => OneEntry
    <2>. SUFFICES ASSUME ListsInv PROVE OneEntry
      OBVIOUS
    <2>1. TypeOK
      <3>1. \A e \in Entries : chain[e] \in Seq(Errors) /\ Len(chain[e]) <= MaxTotal + 1
        <4>. SUFFICES ASSUME NEW e \in Entries
                      PROVE  chain[e] \in Seq(Errors) /\ Len(chain[e]) <= MaxTotal + 1
          OBVIOUS
        <4>1. /\ chain[e] \in Seq(Errors) /\ total[e] \in 0 .. MaxTotal
              /\ Len(chain[e]) \in 1 .. total[e] + 1
          BY DEF ListsInv, TypeInv, LengthInv
        <4>. QED  BY <4>1, ErrorListAssumption
      <3>. QED  BY <3>1 DEF ListsInv, TypeInv, TypeOK
    <2>2. ASSUME NEW i \in 1 .. Len(error_list), NEW j \in 1 .. Len(error_list),
                 thread_id[error_list[i]] = thread_id[error_list[j]]
          PROVE  i = j
      <3>1. /\ error_list[i] \in Entries /\ error_list[j] \in Entries
            /\ InList(error_list[i]) /\ InList(error_list[j])
        <4>1. error_list \in Seq(Entries)
          BY DEF ListsInv, TypeInv
        <4>. QED  BY <4>1 DEF InList
      <3>2. error_list[i] = error_list[j]
        BY <2>2, <3>1 DEF ListsInv, ListInv
      <3>. QED  BY <3>2 DEF ListsInv, ListInv, NoRepeats
    <2>. QED  BY <2>1, <2>2 DEF OneEntry
  <1>. QED  BY <1>1, ListsInvariance, PTL

\* The entry that a thread keeps in its hand across calls stays its own and
\* in the list, whatever other threads set, look at or reset meanwhile.
THEOREM HandleStaysOwn == Spec => []HandleOwn
  <1>1. ListsInv => HandleOwn
    BY DEF ListsInv, HandInv, HandleOwn
  <1>. QED  BY <1>1, ListsInvariance, PTL

\* The errors of a thread are ordered by time, and the error it set last is
\* the one that is found first.
THEOREM ChainsStayInOrder == Spec => []ChainInOrder
  <1>1. ListsInv => ChainInOrder
    <2>. SUFFICES ASSUME ListsInv PROVE ChainInOrder
      OBVIOUS
    <2>1. \A e \in Entries : \A i, j \in 1 .. Len(chain[e]) :
              i < j /\ InList(e) => chain[e][i].at > chain[e][j].at
      BY DEF ListsInv, ChainInv
    <2>2. ASSUME NEW t \in Threads, HasEntry(t), pc[t] = "idle"
          PROVE  chain[error_list[Place(t)]][1].at = stamp[t]
      <3>1. /\ error_list[Place(t)] \in Entries
            /\ InList(error_list[Place(t)])
            /\ thread_id[error_list[Place(t)]] = t
        BY <2>2, PlaceLemma DEF ListsInv
      <3>. QED  BY <2>2, <3>1 DEF ListsInv, ChainInv, Setting
    <2>. QED  BY <2>1, <2>2 DEF ChainInOrder
  <1>. QED  BY <1>1, ListsInvariance, PTL
=============================================================================
