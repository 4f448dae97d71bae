----------------------------- MODULE MCRequests -----------------------------
(* Requests for TLC.                                                        *)
EXTENDS Requests

\* One of every kind of waiting; the others differ from these in their errors alone.
MCRoutes == {"askRegister", "register", "askEmailUpdate", "updateEmail", "changePassword",
             "updateRole", "refresh", "health"}
=============================================================================
