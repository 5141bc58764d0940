------------------------------- MODULE Dunnet -------------------------------
(***************************************************************************)
(* The world module dunnet (worlds/dunnet.c) as far as objects go: what    *)
(* there is, under which names, where it starts and what can be done with  *)
(* it.  Descriptions are left out.  What its hooks and verbs do to the     *)
(* state is in Objects.                                                    *)
(***************************************************************************)

\* One class per kind of object that dunnet makes.
Class == {"shovel", "trees", "boulder", "food", "bear", "bracelet", "bins",
          "computer", "key", "cpu"}

\* The name of an object of the class, obj->name.
NameOf ==
    [shovel |-> "shovel", trees |-> "trees", boulder |-> "large boulder",
     food |-> "some food", bear |-> "ferocious bear",
     bracelet |-> "emerald bracelet", bins |-> "bins", computer |-> "computer",
     key |-> "shiny brass key", cpu |-> "CPU card"]

\* Its aliases, added with room_obj_add_alias.
AliasesOf ==
    [shovel |-> {}, trees |-> {"tree", "palm", "palm tree"},
     boulder |-> {"boulder", "rock"}, food |-> {"food", "meat"},
     bear |-> {"bear"}, bracelet |-> {"bracelet"}, bins |-> {"mail bins"},
     computer |-> {"vax", "pokey"}, key |-> {"key", "shiny key", "brass key"},
     cpu |-> {"cpu", "chip", "card"}]

NamesOf == [c \in Class |-> {NameOf[c]} \cup AliasesOf[c]]
Names(c) == NamesOf[c]
Key == UNION {Names(c) : c \in Class}

\* hook_take of /generic/notake.
NoTake == {"trees", "boulder", "bear", "bins", "computer"}

\* The room whose hook_init makes the object; the key and the card are made
\* later.
HomeOf ==
    [shovel |-> "dead_end", trees |-> "dead_end", boulder |-> "ew_road",
     food |-> "senw_road", bear |-> "bear_hangout", bracelet |-> "hidden_area",
     bins |-> "mailroom", computer |-> "computer_room"]

\* The rooms whose only exit is building_hallway.
Building == {"mailroom", "computer_room"}

\* Whether a walk from room a to room b enters building_hallway, the one room
\* that building_enter guards, from whatever side.
PassesHallway(a, b) ==
    \/ b = "building_hallway"
    \/ a # "building_hallway" /\ {a, b} \cap Building # {}
=============================================================================
