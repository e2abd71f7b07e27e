--------------------------- MODULE MCChanManager ---------------------------
(* Small instances of ChanManager for TLC: the quotas of each question.      *)
EXTENDS ChanManager, TLC

Budget(start, close, set, list, forkFails, setUpFails, exits, crash) ==
  [w \in Limited |->
     CASE w = "start" -> start [] w = "close" -> close [] w = "set" -> set
       [] w = "list" -> list [] w = "fork_fails" -> forkFails
       [] w = "setup_fails" -> setUpFails [] w = "child_exits" -> exits
       [] w = "crash" -> crash]

\* two channels started and closed, and everything that can fail once, the
\* parent's crash and restart too; then with a setter among them, which
\* multiplies the states: against failures to start, and against deaths
MCThreadsQuotas == {Budget(2, 2, 0, 1, 1, 1, 1, 1), Budget(2, 2, 1, 0, 1, 1, 0, 0),
                    Budget(2, 1, 1, 0, 0, 0, 1, 1)}
\* under fairness: a restart of the channel, a child that cannot set up its
\* session and a setter; two closes, a failed fork and a child that dies; and
\* a failed fork and a listing, which may meet a null entry
MCLivenessQuotas == {Budget(2, 1, 1, 0, 0, 1, 0, 0), Budget(2, 2, 0, 0, 1, 0, 1, 0),
                     Budget(2, 1, 0, 1, 1, 0, 0, 0)}
\* two starts, a child that cannot set up its session
MCStartedQuotas == {Budget(2, 1, 1, 0, 1, 1, 0, 0)}

Named == Permutations(Chans \ {Empty})
=============================================================================
