-------------------------- MODULE SequencerPrograms --------------------------
(***************************************************************************)
(* What is particular to each sequencer program: the calls of main, the    *)
(* core and the priority of each thread (0 is the sequencer, priorities    *)
(* count down from RT max), the rates of the services, the first and the   *)
(* last cycle, the loop of a service and the steps of the shutdown.        *)
(***************************************************************************)
EXTENDS Integers, Sequences, TLC

LOCAL PostAll(n) == [i \in 1 .. n |-> [posts |-> {i}, aborts |-> {}]]
LOCAL AbortAll(n) == [i \in 1 .. n |-> [posts |-> {}, aborts |-> {i}]]
LOCAL Merge(main, threads, sequencer, service) ==
    [startup |-> main, cores |-> threads.cores, priority |-> threads.priority,
     rates |-> sequencer.rates, first |-> sequencer.first, last |-> sequencer.last,
     abortsFirst |-> sequencer.abortsFirst, shutdown |-> sequencer.shutdown,
     loop |-> service.loop, blocking |-> service.blocking]

Never == 1000000  \* no last cycle

-----------------------------------------------------------------------------
(* seqgen: nobody is pinned, the call that would do it is a comment *)

SeqgenMain == <<"sem_init", "setscheduler", "create">>
SeqgenThreads ==
    [cores |-> [t \in 0 .. 7 |-> 0],
     priority |-> 0 :> 0 @@ <<1, 2, 3, 3, 3, 2, 98>>]
SeqgenSequencer ==
    [rates |-> <<10, 30, 60, 30, 60, 30, 300>>, first |-> 1, last |-> 900,
     abortsFirst |-> FALSE, shutdown |-> PostAll(7) \o AbortAll(7)]
SeqgenService == [loop |-> <<"check", "wait">>, blocking |-> {}]

(* seqgen2: services on cores 2 and 3, the sequencer on core 1 *)

Seqgen2Main == <<"sem_init", "setscheduler", "create">>
Seqgen2Threads ==
    [cores |-> 0 :> 1 @@ [t \in 1 .. 7 |-> IF t % 2 = 0 THEN 2 ELSE 3],
     priority |-> 7 :> 98 @@ [t \in 0 .. 6 |-> t]]
Seqgen2Sequencer ==
    [rates |-> <<0, 0, 0, 0, 0, 100, 100>>, first |-> 1, last |-> 2000,
     abortsFirst |-> FALSE, shutdown |-> PostAll(7) \o AbortAll(7)]
Seqgen2Service == [loop |-> <<"check", "wait">>, blocking |-> {}]

(* seqgen3: the sequencer is the handler of a timer signal, in main *)

Seqgen3Main == <<"sem_init", "setscheduler", "create">>
Seqgen3Threads ==
    [cores |-> 0 :> 0 @@ [t \in 1 .. 7 |-> IF t % 2 = 1 THEN 2 ELSE 3],
     priority |-> 7 :> 98 @@ [t \in 0 .. 6 |-> t]]
Seqgen3Sequencer ==
    [rates |-> <<0, 0, 0, 20, 0, 0, 100>>, first |-> 1, last |-> 2000,
     abortsFirst |-> FALSE, shutdown |-> PostAll(7) \o AbortAll(7)]
Seqgen3Service == [loop |-> <<"check", "wait">>, blocking |-> {}]

(* seqgen3v2: the same with arrays; post and abort service by service *)

Seqgen3v2Main == <<"sem_init", "setscheduler", "create">>
Seqgen3v2Threads ==
    [cores |-> 0 :> 0 @@ [t \in 1 .. 3 |-> 2],
     priority |-> [t \in 0 .. 3 |-> t]]
Seqgen3v2Sequencer ==
    [rates |-> <<2, 10, 15>>, first |-> 1, last |-> 2000, abortsFirst |-> FALSE,
     shutdown |-> [i \in 1 .. 6 |->
        IF i % 2 = 1 THEN [posts |-> {(i + 1) \div 2}, aborts |-> {}]
                     ELSE [posts |-> {}, aborts |-> {i \div 2}]]]
Seqgen3v2Service == [loop |-> <<"check", "wait">>, blocking |-> {}]

(* seqgenex0: everybody on core 3; the count is tested before it is raised *)

Seqgenex0Main == <<"sem_init", "setscheduler", "create">>
Seqgenex0Threads ==
    [cores |-> [t \in 0 .. 3 |-> 3], priority |-> [t \in 0 .. 3 |-> t]]
Seqgenex0Sequencer ==
    [rates |-> <<2, 10, 15>>, first |-> 0, last |-> 2399, abortsFirst |-> FALSE,
     shutdown |-> PostAll(3) \o AbortAll(3)]
Seqgenex0Service == [loop |-> <<"check", "wait">>, blocking |-> {}]

(* seqv4 and seqv4l2: the handler of a timer signal; the services share the *)
(* frames, and the first of them waits for the camera                       *)

Seqv4Main == <<"open", "read", "sem_init", "setscheduler", "create">>
Seqv4Threads ==
    [cores |-> 0 :> 0 @@ [t \in 1 .. 3 |-> 2], priority |-> [t \in 0 .. 3 |-> t]]
Seqv4Sequencer ==
    [rates |-> <<20, 100, 100>>, first |-> 1, last |-> Never, abortsFirst |-> TRUE,
     shutdown |-> AbortAll(3) \o PostAll(3)]
Seqv4Service ==
    [loop |-> <<"check", "wait", "check", "begin", "done">>, blocking |-> {1}]

Seqv4l2Main == <<"open", "read", "sem_init", "setscheduler", "create">>
Seqv4l2Threads ==
    [cores |-> 0 :> 0 @@ [t \in 1 .. 3 |-> 2], priority |-> [t \in 0 .. 3 |-> t]]
Seqv4l2Sequencer ==
    [rates |-> <<20, 100, 100>>, first |-> 1, last |-> Never, abortsFirst |-> TRUE,
     shutdown |-> AbortAll(3) \o PostAll(3)]
Seqv4l2Service ==
    [loop |-> <<"check", "wait", "check", "begin", "done">>, blocking |-> {1}]

(* lab1: in cycles of 10 msec; one flag for both services, the last release *)
(* is 20 msec before the end                                                *)

Lab1Main == <<"sem_init", "setscheduler", "create">>
Lab1Threads ==
    [cores |-> [t \in 0 .. 2 |-> 3], priority |-> [t \in 0 .. 2 |-> t]]
Lab1Sequencer ==
    [rates |-> <<2, 5>>, first |-> 0, last |-> 29, abortsFirst |-> FALSE,
     shutdown |-> <<[posts |-> {}, aborts |-> {1, 2}]>> \o PostAll(2)]
Lab1Service ==
    [loop |-> <<"check", "wait", "check", "begin", "done">>, blocking |-> {}]

-----------------------------------------------------------------------------
AllPrograms ==
    [seqgen    |-> Merge(SeqgenMain, SeqgenThreads, SeqgenSequencer, SeqgenService),
     seqgen2   |-> Merge(Seqgen2Main, Seqgen2Threads, Seqgen2Sequencer, Seqgen2Service),
     seqgen3   |-> Merge(Seqgen3Main, Seqgen3Threads, Seqgen3Sequencer, Seqgen3Service),
     seqgen3v2 |-> Merge(Seqgen3v2Main, Seqgen3v2Threads, Seqgen3v2Sequencer, Seqgen3v2Service),
     seqgenex0 |-> Merge(Seqgenex0Main, Seqgenex0Threads, Seqgenex0Sequencer, Seqgenex0Service),
     seqv4     |-> Merge(Seqv4Main, Seqv4Threads, Seqv4Sequencer, Seqv4Service),
     seqv4l2   |-> Merge(Seqv4l2Main, Seqv4l2Threads, Seqv4l2Sequencer, Seqv4l2Service),
     lab1      |-> Merge(Lab1Main, Lab1Threads, Lab1Sequencer, Lab1Service)]
=============================================================================
