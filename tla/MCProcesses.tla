---------------------------- MODULE MCProcesses ----------------------------
(* The two servers with child processes, one of them per behaviour: the    *)
(* chat room with a child per user, and the CGI process pool.              *)
EXTENDS Integers, TLC

CONSTANTS
    Users, Limit, MaxMsgs, MaxTerms,    \* the chat room's
    Clients, m_process_num, Parts       \* the pool's

VARIABLES
    program,
    \* both
    state, unread, terms, stop, raised, sigs, todo, ready, batch, pc, kid, kready, kbatch,
    \* the chat room
    msgs, users, sub, terminate, stop_server, up, down, index, shm,
    \* the pool
    left, sub_proc_cnt, alive, nret, owner, kpipe, ksigs, kstop

Chat == INSTANCE ChatShm WITH Clients <- Users
Pool == INSTANCE ProcessPool

ASSUME ProcessesAssumption == Chat!ShmAssumption /\ Pool!PoolAssumption

chat_only == <<msgs, users, sub, terminate, stop_server, up, down, index, shm>>
pool_only == <<left, sub_proc_cnt, alive, nret, owner, kpipe, ksigs, kstop>>

Init ==
    \/ /\ program = "chat" /\ Chat!Init
       /\ left = 0 /\ sub_proc_cnt = 0 /\ alive = 0 /\ nret = 0 /\ owner = 0
       /\ kpipe = 0 /\ ksigs = 0 /\ kstop = 0
    \/ /\ program = "pool" /\ Pool!Init
       /\ msgs = 0 /\ users = 0 /\ sub = 0 /\ terminate = 0 /\ stop_server = 0 /\ up = 0
       /\ down = 0 /\ index = 0 /\ shm = 0

Next ==
    /\ \/ program = "chat" /\ Chat!Next /\ UNCHANGED pool_only
       \/ program = "pool" /\ Pool!Next /\ UNCHANGED chat_only
    /\ UNCHANGED program

Spec == Init /\ [][Next]_<<program, Chat!vars, Pool!vars>>

Symmetry == Permutations(Users) \union Permutations(Clients)

-----------------------------------------------------------------------------
(* In whatever order children end and users are moved, sub_proccess leads  *)
(* from each child that was not waited for to its user's record            *)
(* (chatroom_srv1.c:219-232), and there are no other records.              *)
RecordsMatch == program = "chat" => Chat!RecordsMatch

(* chatroom_srv1.c: a child that has ended will be waited for.             *)
ZombieIsNoticed == program = "chat" => Chat!ZombieIsNoticed

(* ProcessPool.h:231: a child's accept() finds a connection.               *)
AcceptFinds == program = "pool" => Pool!AcceptFinds

(* ProcessPool.h:248: a program that ended will be waited for.             *)
ProgramIsNoticed == program = "pool" => Pool!ProgramIsNoticed
=============================================================================
