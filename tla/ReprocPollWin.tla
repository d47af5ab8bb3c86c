----------------------------- MODULE ReprocPollWin -----------------------------
(***************************************************************************)
(* poll_win32 (pipe.windows.poll.h), the WSAPoll that pipe_poll uses on    *)
(* Windows: it asks the socket driver (AFD) and carries what the driver    *)
(* answers back to the caller's array.                                     *)
(*                                                                         *)
(* A socket is the rank of its handle in the order of memcmp, which is not *)
(* that of the numbers; NoSocket is INVALID_SOCKET.  Sockets are their own *)
(* base handles and no socket is given twice.  The classes of events that  *)
(* poll_win32 treats alike are one: accept and receive, send and connect.  *)
(***************************************************************************)
EXTENDS Integers, Sequences, FiniteSets

NoSocket == 0
Interests == SUBSET {"in", "out"}

\* AFD events that are signalled whether or not they are asked for
AlwaysAsked == {"disconnect", "abort", "connectFail"}

\* handle_info->PollEvents
PollEvents(interests) ==
    AlwaysAsked \cup (IF "in" \in interests THEN {"receive", "expedited"} ELSE {})
                \cup (IF "out" \in interests THEN {"send"} ELSE {})

\* An entry of the caller's array, with the events that the driver will signal.
Real(fds) == {i \in DOMAIN fds : fds[i].fd # NoSocket}

\* The members of a set of numbers in increasing order.
Ascending(S) ==
    CHOOSE f \in [1..Cardinality(S) -> S] : \A j, k \in 1..Cardinality(S) : j < k => f[j] < f[k]

\* The driver answers with the sockets that have events, in the order in which
\* it was given them, that of the array.
Answer(fds) ==
    LET signalled == {i \in Real(fds) : fds[i].signalled # {}}
    IN  [j \in 1..Cardinality(signalled) |->
            [handle |-> fds[Ascending(signalled)[j]].fd,
             events |-> fds[Ascending(signalled)[j]].signalled]]

\* bsearch(3) of the C run time: the place of `key` in `list`, or 0.  Nothing
\* says that the list is sorted.
Middle(range) == (range[1] + range[2]) \div 2
Half(key, list, range) ==
    IF range[1] > range[2] \/ list[Middle(range)] = key THEN range
    ELSE IF key < list[Middle(range)] THEN <<range[1], Middle(range) - 1>>
    ELSE <<Middle(range) + 1, range[2]>>
Halving(key, list) ==
    LET range[k \in 0..Len(list)] ==
            IF k = 0 THEN <<1, Len(list)>> ELSE Half(key, list, range[k - 1])
    IN  range
Bsearch(key, list) ==
    LET last == Halving(key, list)[Len(list)]
    IN  IF last[1] > last[2] THEN 0 ELSE Middle(last)

\* Mutant: the answer is taken to be in step with the array.
IndexInStep(fds, answer, j) == j

\* The entry of the array that the j-th socket of the answer is from, found in
\* handle_map, which is sorted.
IndexOf(fds, answer, j) == CHOOSE i \in Real(fds) : fds[i].fd = answer[j].handle

\* fdArray[i].revents
Revents(interests, events) ==
    (IF events \cap {"receive", "expedited"} # {} /\ "in" \in interests THEN {"in"} ELSE {})
        \cup (IF events \cap {"send", "connectFail"} # {} /\ "out" \in interests THEN {"out"} ELSE {})
        \cup (IF events \cap AlwaysAsked # {} THEN {"hup"} ELSE {})
        \cup (IF events \cap {"abort", "connectFail"} # {} THEN {"err"} ELSE {})

\* poll_win32: its result, and revents for each entry of the array.  What an
\* entry gets is looked up in the answer a second time, by its socket, although
\* the answer is not sorted.
PollWin32(fds) ==
    IF Real(fds) = {} THEN [r |-> -1, revents |-> [i \in DOMAIN fds |-> {}]]
    ELSE LET answer == Answer(fds)
             handles == [j \in DOMAIN answer |-> answer[j].handle]
             found == {IndexOf(fds, answer, j) : j \in DOMAIN answer} \cap Real(fds)
             at(i) == Bsearch(fds[i].fd, handles)
         IN  [r |-> Len(answer),
              revents |-> [i \in DOMAIN fds |->
                 IF fds[i].fd = NoSocket THEN {"nval"}
                 ELSE IF i \in found /\ at(i) # 0
                 THEN Revents(fds[i].interests, answer[at(i)].events) ELSE {}]]

\* What reproc_poll counts on: a pipe reports only what is signalled on it, and
\* if any pipe is signalled, a pipe reports it.
\*
\* That every pipe which is signalled reports it holds only if the pipes are
\* given in the order of memcmp: otherwise the second look-up may miss a pipe,
\* whose events come with a later call.
PollWin32Right(fds) ==
    LET result == PollWin32(fds)
        signalled == {i \in Real(fds) : fds[i].signalled # {}}
        reported == {i \in Real(fds) : result.revents[i] # {}}
        ascending == \A i, k \in Real(fds) : i < k => fds[i].fd < fds[k].fd
    IN  /\ result.r >= 0 <=> Real(fds) # {}
        /\ result.r > 0 <=> reported # {}
        /\ \A i \in reported : result.revents[i] = Revents(fds[i].interests, fds[i].signalled)
        /\ reported \subseteq signalled
        /\ ascending => reported = signalled
=============================================================================
