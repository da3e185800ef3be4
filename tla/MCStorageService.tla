-------------------------- MODULE MCStorageService --------------------------
(* Model-checking instance of StorageService: two writes and a read of the  *)
(* queue, two or three incarnations of the storage process.                 *)
EXTENDS StorageService

CONSTANTS w1, w2, q1
=============================================================================
