------------------------------ MODULE ErrorList -----------------------------
(***************************************************************************)
(* The errors of each thread (maperror.c, build with USE_THREAD).          *)
(*                                                                         *)
(* error_list is a list of entries, one per thread, kept most recently     *)
(* used first under TLOCK_ERROROBJ.  An entry is the head of the thread's  *)
(* chain of errors; callers keep a pointer to it across other calls.       *)
(***************************************************************************)
EXTENDS Integers, Sequences

CONSTANTS
    Threads,
    Entries,                \* addresses of te_info_t
    NoEntry,
    Codes,                  \* error codes other than MS_NOERR
    MS_NOERR,
    Messages,               \* message texts (with the routine) as given
    Redacted,               \* those that are stored with a password taken out
    MaxTotal,               \* inserted errors after which none is added, 100
    MaxStamp                \* bound on the errors each thread sets

\* What msRedactCredentials leaves of a message; it is the same for all
\* messages that differ in the password only.
Stored(m) == IF m \in Redacted THEN "redacted" ELSE m

ASSUME ErrorListAssumption ==
    /\ Threads # {}
    /\ NoEntry \notin Entries
    /\ MS_NOERR \notin Codes
    /\ Redacted \subseteq Messages
    /\ "redacted" \notin Messages
    /\ MaxTotal \in Nat
    /\ MaxStamp \in [Threads -> Nat]

VARIABLES
    error_list,             \* sequence of entries
    thread_id,              \* of an entry
    chain,                  \* of an entry: its own error first, then older ones
    total,                  \* of an entry: totalerrorcount
    pc,                     \* where a thread is
    ms_error,               \* the entry that it has in its hand
    args,                   \* the error it is setting
    stamp                   \* how many errors it has set since the last reset

vars == <<error_list, thread_id, chain, total, pc, ms_error, args, stamp>>

\* An error; "at" tells when it was set.
Errors == [code : Codes \cup {MS_NOERR}, message : Messages \cup {"", "redacted"},
           at : Nat]

NoError == [code |-> MS_NOERR, message |-> "", at |-> 0]
NoArgs == [code |-> MS_NOERR, message |-> ""]

InList(e) == \E i \in 1 .. Len(error_list) : error_list[i] = e

TypeOK ==
    /\ error_list \in Seq(Entries)
    /\ thread_id \in [Entries -> Threads]
    /\ \A e \in Entries : chain[e] \in Seq(Errors) /\ Len(chain[e]) <= MaxTotal + 1
    /\ total \in [Entries -> 0 .. MaxTotal]
    /\ pc \in [Threads -> {"idle", "compare", "insert", "clear", "unlink"}]
    /\ ms_error \in [Threads -> Entries \cup {NoEntry}]
    /\ args \in [Threads -> [code : Codes, message : Messages] \cup {NoArgs}]
    /\ stamp \in [Threads -> Nat]

Init ==
    /\ error_list = <<>>
    /\ thread_id = [e \in Entries |-> CHOOSE t \in Threads : TRUE]
    /\ chain = [e \in Entries |-> <<NoError>>]
    /\ total = [e \in Entries |-> 0]
    /\ pc = [t \in Threads |-> "idle"]
    /\ ms_error = [t \in Threads |-> NoEntry]
    /\ args = [t \in Threads |-> NoArgs]
    /\ stamp = [t \in Threads |-> 0]

-----------------------------------------------------------------------------
\* The list without the entry at place i.
Without(list, i) == SubSeq(list, 1, i - 1) \o SubSeq(list, i + 1, Len(list))

\* The place at which the search stops: the entry of the thread.
IsAt(i, t) == thread_id[error_list[i]] = t

HasEntry(t) == \E i \in 1 .. Len(error_list) : IsAt(i, t)

Place(t) == CHOOSE i \in 1 .. Len(error_list) :
                IsAt(i, t) /\ \A j \in 1 .. i - 1 : ~IsAt(j, t)

\* Slip: only the head of the list is looked at.
GetErrorObjHead(t, e) ==
    \/ /\ error_list # <<>>
       /\ IsAt(1, t)
       /\ e = error_list[1]
       /\ UNCHANGED <<error_list, thread_id, chain, total>>
    \/ /\ ~(error_list # <<>> /\ IsAt(1, t))
       /\ ~InList(e)
       /\ error_list' = <<e>> \o error_list
       /\ thread_id' = [thread_id EXCEPT ![e] = t]
       /\ chain' = [chain EXCEPT ![e] = <<NoError>>]
       /\ total' = [total EXCEPT ![e] = 0]

\* msGetErrorObj: the thread's entry e, promoted to the head or made there.
GetErrorObj(t, e) ==
    \/ /\ HasEntry(t)
       /\ e = error_list[Place(t)]
       /\ error_list' = <<e>> \o Without(error_list, Place(t))
       /\ UNCHANGED <<thread_id, chain, total>>
    \/ /\ ~HasEntry(t)
       /\ ~InList(e)
       /\ error_list' = <<e>> \o error_list
       /\ thread_id' = [thread_id EXCEPT ![e] = t]
       /\ chain' = [chain EXCEPT ![e] = <<NoError>>]
       /\ total' = [total EXCEPT ![e] = 0]

\* msSetErrorInternal takes the entry to compare the error with its own.
SetError(t, a) ==
    /\ pc[t] = "idle"
    /\ stamp[t] < MaxStamp[t]
    /\ \E e \in Entries : GetErrorObj(t, e) /\ ms_error' = [ms_error EXCEPT ![t] = e]
    /\ args' = [args EXCEPT ![t] = a]
    /\ stamp' = [stamp EXCEPT ![t] = @ + 1]
    /\ pc' = [pc EXCEPT ![t] = "compare"]

\* The error it was given is the one the entry has.
SameError(t) ==
    LET head == chain[ms_error[t]][1] IN
    head.code = args[t].code /\ head.message = args[t].message

\* The same again is only counted.
Repeat(t) ==
    /\ pc[t] = "compare"
    /\ SameError(t)
    /\ chain' = [chain EXCEPT ![ms_error[t]][1].at = stamp[t]]
    /\ pc' = [pc EXCEPT ![t] = "idle"]
    /\ ms_error' = [ms_error EXCEPT ![t] = NoEntry]
    /\ args' = [args EXCEPT ![t] = NoArgs]
    /\ UNCHANGED <<error_list, thread_id, total, stamp>>

\* Another error: msInsertErrorObj takes the entry once more.
Different(t) ==
    /\ pc[t] = "compare"
    /\ ~SameError(t)
    /\ \E e \in Entries : GetErrorObj(t, e) /\ ms_error' = [ms_error EXCEPT ![t] = e]
    /\ pc' = [pc EXCEPT ![t] = "insert"]
    /\ UNCHANGED <<args, stamp>>

\* The head after the new error has been written to it.
Written(head, t) ==
    [head EXCEPT !.code = args[t].code, !.message = Stored(args[t].message),
                 !.at = stamp[t]]

\* The head is in use and there is room for it in the chain.
Moves(e) == chain[e][1].code # MS_NOERR /\ total[e] < MaxTotal

\* Slip: the old error goes to the end of the chain.
ChainAfterLast(e, t) == <<Written(NoError, t)>> \o Tail(chain[e]) \o <<Head(chain[e])>>

\* The old head moves behind the new one.
ChainAfter(e, t) == <<Written(NoError, t)>> \o chain[e]

\* msInsertErrorObj and the writing of the error.  The allocation of the new
\* element may fail.
InsertError(t) ==
    LET e == ms_error[t] IN
    /\ pc[t] = "insert"
    /\ \/ /\ Moves(e)
          /\ chain' = [chain EXCEPT ![e] = ChainAfter(e, t)]
       \/ chain' = [chain EXCEPT ![e][1] = Written(@, t)]
    /\ total' = [total EXCEPT ![e] = IF Moves(e) THEN @ + 1 ELSE @]
    /\ pc' = [pc EXCEPT ![t] = "idle"]
    /\ ms_error' = [ms_error EXCEPT ![t] = NoEntry]
    /\ args' = [args EXCEPT ![t] = NoArgs]
    /\ UNCHANGED <<error_list, thread_id, stamp>>

-----------------------------------------------------------------------------
\* msResetErrorList takes the entry, empties it, and takes it off the list.
Reset(t) ==
    /\ pc[t] = "idle"
    /\ \E e \in Entries : GetErrorObj(t, e) /\ ms_error' = [ms_error EXCEPT ![t] = e]
    /\ pc' = [pc EXCEPT ![t] = "clear"]
    /\ UNCHANGED <<args, stamp>>

Clear(t) ==
    /\ pc[t] = "clear"
    /\ chain' = [chain EXCEPT ![ms_error[t]] = <<NoError>>]
    /\ total' = [total EXCEPT ![ms_error[t]] = 0]
    /\ stamp' = [stamp EXCEPT ![t] = 0]
    /\ pc' = [pc EXCEPT ![t] = "unlink"]
    /\ UNCHANGED <<error_list, thread_id, ms_error, args>>

\* Slip: it is presumed that the entry is still at the head.
UnlinkedHead(t) == Tail(error_list)

\* Other threads may have come to the head of the list in the meantime.
Unlinked(t) == Without(error_list, Place(t))

Unlink(t) ==
    /\ pc[t] = "unlink"
    /\ error_list' = Unlinked(t)
    /\ pc' = [pc EXCEPT ![t] = "idle"]
    /\ ms_error' = [ms_error EXCEPT ![t] = NoEntry]
    /\ UNCHANGED <<thread_id, chain, total, args, stamp>>

\* Any other caller of msGetErrorObj, such as mapscript's errorObj().
LookAtError(t) ==
    /\ pc[t] = "idle"
    /\ \E e \in Entries : GetErrorObj(t, e)
    /\ UNCHANGED <<pc, ms_error, args, stamp>>

Next ==
    \E t \in Threads :
        \/ \E a \in [code : Codes, message : Messages] : SetError(t, a)
        \/ Repeat(t) \/ Different(t) \/ InsertError(t)
        \/ Reset(t) \/ Clear(t) \/ Unlink(t)
        \/ LookAtError(t)

Spec == Init /\ [][Next]_vars

-----------------------------------------------------------------------------
\* A thread has one entry at most, and an entry is in the list once, although
\* every call of every thread reorders the list (and the types).
OneEntry ==
    TypeOK /\ \A i, j \in 1 .. Len(error_list) :
        thread_id[error_list[i]] = thread_id[error_list[j]] => i = j

\* The entry a thread has in its hand is its own and has not been freed, also
\* when other threads reset their errors in the meantime (maperror.c:169: "some
\* code in MapServer will fetch the head of the list and keep a handle on it").
HandleOwn ==
    \A t \in Threads :
        pc[t] # "idle" => InList(ms_error[t]) /\ thread_id[ms_error[t]] = t

\* A chain holds its errors with the most recent one first (maperror.c:165),
\* and between calls the error set last is at its head, also beyond the limit
\* on the chain and when memory ran out.
ChainInOrder ==
    /\ \A e \in Entries : \A i, j \in 1 .. Len(chain[e]) :
          i < j /\ InList(e) => chain[e][i].at > chain[e][j].at
    /\ \A t \in Threads :
          HasEntry(t) /\ pc[t] = "idle" => chain[error_list[Place(t)]][1].at = stamp[t]

\* An error that is the same as the one before is not inserted again
\* ("Insert the error to the list if it is not the same as the previous error",
\* maperror.c:403).
RepeatNotInserted ==
    [][\A e \in Entries :
          Len(chain'[e]) = Len(chain[e]) + 1 =>
              \/ chain'[e][1].code # chain'[e][2].code
              \/ chain'[e][1].message # chain'[e][2].message]_vars
=============================================================================
