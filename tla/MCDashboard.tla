------------------------------ MODULE MCDashboard ------------------------------
(* Dashboard with two pages and two statistics. *)
EXTENDS Dashboard

MCOrder == <<"mining", "storage">>
MCStat == {"mining", "storage"}
===============================================================================
