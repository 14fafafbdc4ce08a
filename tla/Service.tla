------------------------------- MODULE Service -------------------------------
(***************************************************************************)
(* synchronome/service.hpp, service.cpp: the base class of the three       *)
(* services.  A service is one SCHED_FIFO thread and one semaphore,        *)
(* mSemExit, that the main thread posts to ask the thread to leave its     *)
(* loop.  The module gives the steps a service takes on that state; the    *)
(* module Synchronome says what the thread does between them.              *)
(*                                                                         *)
(* pc[t] is the point thread t has reached.  A service is at "none" until  *)
(* pthread_create made it and at "exited" once its routine has returned.   *)
(***************************************************************************)
EXTENDS Naturals

VARIABLES
    pc,         \* pc[t]: where thread t is, for main and the three services
    mSemExit    \* mSemExit[s]: the value of the exit semaphore of service s

Services == {"camera", "tick", "saver"}
Threads == Services \cup {"main"}

(* The constructor: the semaphore is 0 and there is no thread yet. *)
ServiceInit ==
    /\ pc = [t \in Threads |-> IF t = "main" THEN "unlink" ELSE "none"]
    /\ mSemExit = [s \in Services |-> 0]

(* Thread t goes from one point of its routine to another. *)
Goto(t, from, to) ==
    /\ pc[t] = from
    /\ pc' = [pc EXCEPT ![t] = to]

(* start: main creates the thread of s, which begins at its first step. *)
Start(s, from, to) ==
    /\ pc["main"] = from
    /\ pc' = [pc EXCEPT !["main"] = to, ![s] = "open"]
    /\ UNCHANGED mSemExit

(* A slip: flagExit posts nothing. *)
FlagExitForgotten(s, from, to) ==
    /\ Goto("main", from, to)
    /\ UNCHANGED mSemExit

(* flagExit: main posts the semaphore. *)
FlagExit(s, from, to) ==
    /\ Goto("main", from, to)
    /\ mSemExit' = [mSemExit EXCEPT ![s] = @ + 1]

(* doExit: sem_trywait takes a post if there is one and the thread leaves  *)
(* its loop; otherwise errno is EAGAIN and the loop body runs.             *)
DoExit(s, body) ==
    \/ /\ mSemExit[s] > 0
       /\ Goto(s, "check", "exited")
       /\ mSemExit' = [mSemExit EXCEPT ![s] = @ - 1]
    \/ /\ mSemExit[s] = 0
       /\ Goto(s, "check", body)
       /\ UNCHANGED mSemExit

(* A slip: pthread_join fails (a bad handle) and its result is not looked at. *)
JoinIgnored(s, from, to) ==
    /\ Goto("main", from, to)
    /\ UNCHANGED mSemExit

(* join: main goes on only when the thread of s has returned. *)
Join(s, from, to) ==
    /\ pc[s] = "exited"
    /\ Goto("main", from, to)
    /\ UNCHANGED mSemExit
=============================================================================
