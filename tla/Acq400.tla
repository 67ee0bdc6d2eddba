------------------------------- MODULE Acq400 -------------------------------
(***************************************************************************)
(* An object of class Acq400: a Siteclient for each site of a UUT, which   *)
(* set and get connect when the site is used for the first time.           *)
(*                                                                         *)
(*   sites     the map: of each key in it a client, by its number, or 0    *)
(*   clients   the sites to which clients were connected, in that order    *)
(*                                                                         *)
(* The constructor asks site 0 for the list of the others.  Nothing closes *)
(* a client before the process ends.  A connection that fails ends it.     *)
(***************************************************************************)
EXTENDS Naturals, Sequences

CONSTANT SiteLists      \* what a UUT may answer to "sites"

VARIABLES sites, clients

acq400Vars == <<sites, clients>>

Unbuilt == clients = <<>> /\ sites = [site \in {} |-> 0]

\* The constructor: every site of the list gets an entry without a client, and
\* that takes the client of site 0 out of the map if the list has it.
New(list) ==
  /\ clients' = <<"0">>
  /\ sites' = [site \in {"0"} \union list |-> IF site \in list THEN 0 ELSE 1]

\* if (sc == 0) sites[site] = sc = new Siteclient
Connected_Never(site) == FALSE
Connected(site) == site \in DOMAIN sites /\ sites[site] # 0

Use(site) ==
  IF Connected(site) THEN UNCHANGED acq400Vars
  ELSE /\ clients' = Append(clients, site)
       /\ sites' = [s \in DOMAIN sites \union {site} |->
                      IF s = site THEN Len(clients') ELSE sites[s]]

-----------------------------------------------------------------------------

\* A command for a site goes to a client of that site, always the same one: no
\* site has two, but for site 0 of a UUT that lists it, whose first client
\* answers nothing but "sites".
OneClientPerSite ==
  /\ \A site \in DOMAIN sites : sites[site] # 0 => clients[sites[site]] = site
  /\ \A i, j \in 1..Len(clients) : i < j /\ clients[i] = clients[j] => i = 1 /\ sites["0"] = j
=============================================================================
