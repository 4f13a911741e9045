----------------------------- MODULE MCBenchmark -----------------------------
(***************************************************************************)
(* BTCprov and WDCqueries: once the data is loaded, a caller runs one of   *)
(* their queries (Benchmark) or their provenance query (Materialize).  The *)
(* dataset is one of six files, with any of its optional lines left out:   *)
(* that the order of the lines does not matter is the subject of MCTPDemo. *)
(*                                                                         *)
(* Four files have each what some of the queries look for.  Queries of the *)
(* same shape look for the same lines: their words stand for the same      *)
(* identifiers.  Two files, one for each class, have lines for every block *)
(* of its provenance query.  There words of different blocks share         *)
(* identifiers, words of one block do not; S1 and S2 are subjects that can *)
(* match any block, and contexts of other lines; type 3 stands for the     *)
(* classes the provenance queries name.                                    *)
(***************************************************************************)
EXTENDS Benchmark, DatasetFiles

Class == 103
G1 == 291
G2 == 292
wikilink == 211
title == 212
lat == 213
long == 214
name == 215
born == 216
near == 217
senators == 218
sameAs == 219
spouse == 220
List == 231
Middle == 232
X == 233
Y == 234
T == 235
Krebs1 == 241
Vet == 242
US == 243
actor == 244
Site1 == 301
Site2 == 201
Person == 202
Place1 == 302
Place2 == 203
City == 204
Senator == 205
Doctor == 206
Town == 303
Wife == 304

MCKeys == {Class, G1, G2, wikilink, title, lat, long, name, born, near, senators, sameAs,
           spouse, List, Middle, X, Y, T, Krebs1, Vet, US, actor, Site1, Site2,
           Person, Place1, Place2, City, Senator, Doctor, Town, Wife}

Sites ==
  <<L(Site1, wikilink, List, G1), M(Site1, wikilink, Middle, G2),
    L(Site1, title, T, G1), M(Site1, title, X, G2), M(Site1, lat, X, G1),
    L(Site1, long, Y, G2), M(Site2, wikilink, List, G2), M(Site2, wikilink, Middle, G1),
    L(Site2, title, T, G1), L(Site2, lat, Y, G2), L(Site2, long, X, G1),
    M(Site1, near, US, G2)>>

Places ==
  <<L(Person, name, Krebs1, G1), M(Person, name, Krebs1, G2),
    M(Person, born, Place1, G1), M(Person, born, Place2, G2), L(Person, near, X, G2),
    L(Place1, lat, X, G1), M(Place1, long, Y, G2),
    L(Place2, lat, Y, G2), L(Place2, long, X, G1),
    M(City, near, Place1, G1), M(City, near, Place2, G2),
    L(City, title, List, G1), L(City, wikilink, Middle, G2),
    L(City, lat, X, G2), L(City, long, Y, G1), L(City, name, T, G1)>>

Senators ==
  <<L(Doctor, title, Vet, G1), M(Doctor, title, Vet, G2), M(Doctor, wikilink, US, G1),
    M(Town, wikilink, US, G1), M(Town, wikilink, US, G2),
    M(Senator, senators, Doctor, G1), M(Senator, senators, Doctor, G2),
    L(Senator, sameAs, Town, G1), L(Senator, name, T, G1), M(Senator, wikilink, US, G1), L(Town, name, X, G1)>>

Actors ==
  <<L(Person, wikilink, actor, G1), M(Person, wikilink, actor, G2),
    M(Person, spouse, Wife, G1), L(Person, born, Place1, G1), M(Person, born, Place2, G1),
    M(Wife, wikilink, actor, G2), L(Wife, born, Place1, G2),
    M(Place1, sameAs, City, G1), M(Place1, sameAs, Town, G2),
    L(City, lat, X, G1), L(City, long, Y, G2), L(Town, lat, X, G2)>>

S1 == 201
S2 == 301
Act == 202
P1 == 211
P2 == 212
P3 == 213
P4 == 214
P5 == 215
O1 == 231
O2 == 232
O3 == 233
O4 == 234

BTCFile ==
  <<M(S1, P1, O1, S1), M(S1, P2, O2, S2), M(S1, P3, O3, S1), M(S2, P1, O1, S1),
    M(S2, P3, O3, S2), M(Act, P1, O1, S1), L(Act, P2, O2, S1), M(Act, P3, O3, S2),
    M(Act, P4, S1, S1), L(Act, P5, O4, S1), M(S2, P4, O4, S1)>>

WDCFile ==
  <<M(S1, P1, O1, S1), M(S1, P2, O2, S2), M(S2, P1, O1, S1), M(S2, P2, O2, S1),
    M(S2, P3, O3, S2), M(Act, P1, O1, S1), L(Act, P2, O2, S1), L(Act, P3, O3, S2),
    M(Act, P4, S2, S1), M(Act, P5, S1, S1), M(S2, P4, O4, S1)>>

QueryFiles == {Sites, Places, Senators, Actors}
ProvFile == [BTC |-> BTCFile, WDC |-> WDCFile]

MCLines ==
  UNION {{f[i].line : i \in DOMAIN f} : f \in QueryFiles \union {BTCFile, WDCFile}}

\* The words of one query stand for different identifiers.
MCWords ==
  [wikilink |-> wikilink, inCountry |-> wikilink, region |-> wikilink, site_name |-> wikilink,
   hasStockKeepingUnit |-> wikilink, featureClass |-> title, profession |-> title,
   has_container |-> title, subject |-> title, title |-> title,
   lat |-> lat, latitude |-> lat, description |-> lat, long |-> long, longitude |-> long,
   name |-> name, date |-> name, years |-> name, dateOfBirth |-> near,
   deathPlace |-> born, placeOfBirth |-> born, hasBusinessFunction |-> born,
   senators |-> senators, reply_of |-> senators, sameAs |-> sameAs, has_creator |-> sameAs,
   spouse |-> spouse, actor |-> actor, List |-> List, P |-> List, Maine |-> List,
   Samuel |-> List, fosiki |-> List, fortyagency |-> List, lampions |-> Krebs1,
   Middle_Ages |-> Middle, FR |-> Middle, DE |-> Middle, DUB073 |-> Middle,
   PagineBianche |-> Middle, Elisabeth |-> Middle, Fotogard |-> Middle,
   Veterinarian |-> Vet, announcements |-> Vet, Blackwater |-> Vet, US |-> US,
   Anonymous |-> US, Paul_Boateng |-> Town]
  @@ ("foaf:name" :> wikilink @@ "foaf:page" :> name @@ "og:site_name" :> wikilink
      @@ "og:image" :> title @@ "og:description" :> lat @@ "og:title" :> long
      @@ "gr:description" :> lat @@ "country-name" :> near @@ "United States" :> US
      @@ "Eiffel Tower" :> List @@ "Tim Berners-Lee" :> Krebs1 @@ "Krebs, Emil" :> Krebs1
      @@ "Barack Obama" :> Krebs1 @@ "fortis-angelo" :> List)

ProvWords ==
  [SoftwareAgent |-> P1, imagination |-> O1, activity |-> P2, Activity1123 |-> O2,
   atLocation |-> P3, Fribourg |-> O3, generated |-> P4, wasAssociatedWith |-> P5,
   homepage |-> P4, FIFA_World_Cup_stadiums |-> O4, wikipediaArticle |-> P1,
   website |-> P2, primaryTopic |-> P4, reference |-> P1, sterbedatum |-> P2,
   wikilink |-> P3, sinologist |-> O3, inCountry |-> P5, DE |-> O4,
   wasGeneratedBy |-> P3, sameAs |-> P4, LivingPeople |-> Class,
   type |-> P2, company |-> O3, fbmladmins |-> P1, email |-> P1, empty |-> O1, Hotel |-> O2,
   has_creator |-> P1, node |-> O1, has_container |-> P4, Forum |-> Class,
   prefLabel |-> P2, Announcements |-> O2, fbmlapp_id |-> P4]
  @@ ("whc.unesco.org" :> O4 @@ "skos#subject" :> P3 @@ "Eiffel-toring" :> O1
      @@ "www.w3.org" :> O2 @@ "Tim_Berners-Lee" :> O4 @@ "swr.de" :> O1
      @@ "31._Marz" :> O2 @@ "mwylot.net" :> O1 @@ "2643576" :> O4 @@ "500386069" :> O1
      @@ "og:url" :> P2 @@ "35-under-35" :> O2 @@ "country-name" :> P3
      @@ "United States" :> O3 @@ "velika-krada" :> O3 @@ "274726392563373" :> O4
      @@ "milijun-dolara" :> O1)

MCFilters == {{}, {G1}, {G1, G2}}

VARIABLES
  call,        \* what the caller runs: "query" or "ProvQuery"
  benchmark, block, selected, copied, toCopy, molecules2, inv_molecules2

Provenance == INSTANCE Materialize WITH Words <- ProvWords, ProvUris <- selected

provenanceVars ==
  <<benchmark, block, selected, copied, toCopy, molecules2, inv_molecules2>>

MCInit ==
  /\ Init
  /\ Provenance!MaterializeInit
  /\ \/ call = "query" /\ benchmark = "BTC"
     \/ call = "ProvQuery" /\ ~ ProvTrigerON

\* The load reads one of some files.
Reading(files) ==
  phase = "read" =>
    \E f \in files : IF phase' = "read" THEN Begins(tripleIDs', f) ELSE Ends(tripleIDs, f)

MCNext ==
  \/ /\ call = "query"
     /\ Next
     /\ Reading(QueryFiles)
     /\ UNCHANGED <<call, provenanceVars>>
  \/ /\ call = "ProvQuery"
     /\ Provenance!MaterializeNext
     /\ Reading({ProvFile[benchmark]})
     /\ UNCHANGED <<call, queryVars>>

MCSpec == MCInit /\ [][MCNext]_<<vars, call, provenanceVars>>

\* Every block keeps what the ones before it selected and adds what its branches
\* select (SelectedSoFar of ProvQuery).
SelectedSoFar == Provenance!SelectedSoFar

\* A materialized copy, asked without the trigger, answers as the original does
\* with it (CopyAnswersAlike of Materialize).
CopyAnswersAlike == Provenance!CopyAnswersAlike
==============================================================================
