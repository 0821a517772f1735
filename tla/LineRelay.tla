------------------------------- MODULE LineRelay -------------------------------
(***************************************************************************)
(* The semaphore programs of src/threadInfo/thread_synchronous_mutex: the  *)
(* main thread reads lines into the one buffer and posts a semaphore for   *)
(* each, a thread prints the buffer for each post (main.c), and in         *)
(* mytest.c posts a second semaphore, for each of which a second thread    *)
(* prints the time.  Every thread ends when it finds the last line in the  *)
(* buffer ("end" in main.c, "exit" in mytest.c).                           *)
(*                                                                         *)
(* Nothing guards the buffer.  A comparison that races with fgets may have *)
(* either result.                                                          *)
(***************************************************************************)
EXTENDS Naturals

CONSTANT MaxLines       (* lines the user types, the last line included *)

VARIABLES
    program,        (* "main.c" or "mytest.c" *)
    typed,          (* lines read so far *)
    line,           (* what fgets is reading *)
    buff,           (* whether the buffer holds "text" or the "last" line *)
    sem1, sem2,     (* the values of the semaphores *)
    mainpc, pc1, pc2,   (* where the threads are *)
    told            (* history: the second thread was told of the last line *)

mainVars == <<program, typed, line, buff, mainpc>>
vars == <<mainVars, sem1, sem2, pc1, pc2, told>>

Init ==
    /\ program \in {"main.c", "mytest.c"}
    /\ typed = 0 /\ line = "text" /\ buff = "text"
    /\ sem1 = 0 /\ sem2 = 0
    /\ mainpc = "read" /\ pc1 = "wait"
    /\ pc2 = IF program = "mytest.c" THEN "wait" ELSE "done"
    /\ told = FALSE

(* What strncmp may say of the buffer.                                     *)
Compared == IF mainpc = "write" THEN BOOLEAN ELSE {buff = "last"}

-------------------------------------------------------------------------------
(* The main thread *)

(* The user types a line and fgets begins to store it.                     *)
ReadLine ==
    /\ mainpc = "read"
    /\ typed' = typed + 1
    /\ line' \in {"text", "last"}
    /\ typed' = MaxLines => line' = "last"
    /\ mainpc' = "write"
    /\ UNCHANGED <<program, buff, sem1, sem2, pc1, pc2, told>>

LineRead ==
    /\ mainpc = "write"
    /\ buff' = line
    /\ mainpc' = "post"
    /\ UNCHANGED <<program, typed, line, sem1, sem2, pc1, pc2, told>>

MutPostLine ==              \* the test of line 106 comes first
    /\ mainpc = "post"
    /\ sem1' = IF buff = "last" THEN sem1 ELSE sem1 + 1
    /\ mainpc' = "test"
    /\ UNCHANGED <<program, typed, line, buff, sem2, pc1, pc2, told>>

PostLine ==
    /\ mainpc = "post"
    /\ sem1' = sem1 + 1
    /\ mainpc' = "test"
    /\ UNCHANGED <<program, typed, line, buff, sem2, pc1, pc2, told>>

TestLine ==
    /\ mainpc = "test"
    /\ mainpc' = IF buff = "last" THEN "join1" ELSE "read"
    /\ UNCHANGED <<program, typed, line, buff, sem1, sem2, pc1, pc2, told>>

(* The joins, after which the semaphores are destroyed; main.c has one.    *)
Join ==
    /\ \/ mainpc = "join1" /\ pc1 = "done"
          /\ mainpc' = IF program = "mytest.c" THEN "join2" ELSE "done"
       \/ mainpc = "join2" /\ pc2 = "done" /\ mainpc' = "done"
    /\ UNCHANGED <<program, typed, line, buff, sem1, sem2, pc1, pc2, told>>

-------------------------------------------------------------------------------
(* str_thread_handle of main.c, thread1_function of mytest.c *)

WaitFirst ==
    /\ pc1 = "wait" /\ sem1 > 0
    /\ sem1' = sem1 - 1
    /\ pc1' = IF program = "mytest.c" THEN "post" ELSE "test"
    /\ UNCHANGED <<mainVars, sem2, pc2, told>>

PostSecond ==
    /\ pc1 = "post"
    /\ sem2' = sem2 + 1
    /\ told' = (buff = "last")
    /\ pc1' = "test"
    /\ UNCHANGED <<mainVars, sem1, pc2>>

TestFirst ==
    /\ pc1 = "test"
    /\ \E last \in Compared : pc1' = IF last THEN "done" ELSE "wait"
    /\ UNCHANGED <<mainVars, sem1, sem2, pc2, told>>

(* thread2_function of mytest.c *)

WaitSecond ==
    /\ pc2 = "wait" /\ sem2 > 0
    /\ sem2' = sem2 - 1
    /\ pc2' = "test"
    /\ UNCHANGED <<mainVars, sem1, pc1, told>>

TestSecond ==
    /\ pc2 = "test"
    /\ \E last \in Compared : pc2' = IF last THEN "done" ELSE "wait"
    /\ UNCHANGED <<mainVars, sem1, sem2, pc1, told>>

-------------------------------------------------------------------------------
First == WaitFirst \/ PostSecond \/ TestFirst
Second == WaitSecond \/ TestSecond
Main == LineRead \/ PostLine \/ TestLine \/ Join
Next == ReadLine \/ Main \/ First \/ Second

-------------------------------------------------------------------------------
(* Properties *)

(* What the join comes to: main returns, in main.c always, and in mytest.c *)
(* if the last post of the first thread came after the last line           *)
(* (mytest.c:27).  Although posts outnumber what the first thread finds in *)
(* the buffer, and it may leave early with posts untaken, it always ends.  *)
Joined == pc1 = "done" /\ (mainpc = "done" \/ (program = "mytest.c" /\ ~told))

(* A thread that main waits for has ended or has something to do, but for  *)
(* the second of mytest.c when it was not told of the last line.           *)
NobodyStuck ==
    /\ mainpc = "join1" => pc1 # "wait" \/ sem1 > 0
    /\ mainpc = "join2" =>
          program = "mytest.c" /\ pc1 = "done" /\ (pc2 # "wait" \/ sem2 > 0 \/ ~told)
===============================================================================
