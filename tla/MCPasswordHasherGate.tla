------------------------ MODULE MCPasswordHasherGate ------------------------
(* Calls against a pool of two threads: four in hasher_safety, enough for *)
(* calls to queue on the semaphore behind two holders and for a granted    *)
(* waiter to time out; three in hasher_cancel_overload, enough for a       *)
(* cancelled holder's orphaned job to occupy a thread while the freed      *)
(* permit admits another job.                                              *)
EXTENDS PasswordHasherGate, TLC

MCMaxThreads == 2
=============================================================================
