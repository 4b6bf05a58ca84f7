----------------------------- MODULE SessionsHomes -----------------------------
(* Sessions as an implementation of Homes: the users of a home are the live     *)
(* rows of the places that mount it.                                            *)
EXTENDS Sessions

HomeDirs == {Home[p] : p \in Places} \ {None}
LiveIn == [h \in HomeDirs |->
              {s \in Sessions : IsLive(s) /\ Home[rows[s].place] = h}]

H == INSTANCE Homes WITH Homes <- HomeDirs, Users <- Sessions, users <- LiveIn

\* Requests that come one at a time hand a home on only after the session that
\* lived there is closed, whatever the reaper, lost answers and crashes do in
\* between (_starten, delete_session, act, _reap_once).
HandsHomesOn == H!Spec
=============================================================================
