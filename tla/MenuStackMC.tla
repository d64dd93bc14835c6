---- MODULE MenuStackMC ----
EXTENDS MenuStack

Node(kind, depth, scripts, letter) == [kind |-> kind, depth |-> depth, scripts |-> scripts, letter |-> letter]
Text == Node("text", 0, {}, "t")

\* A root with a folder that opens, a list of files where a file can be
\* attached, a directory entered and the volume changed, the pages that a
\* test or a monitor runs on, a question, and the dialogs.
MCMenus ==
  [root   |-> [rows |-> 3, off |-> "none",
               items |-> <<Node("folder", 0, {}, "d"),
                           Node("button", 1, {<<<<"files", "files", FALSE>>>>}, "a"),
                           [kind |-> "choice", depth |-> 1, scripts |-> {}, letter |-> "c", choice |-> "key"],
                           Node("button", 0, {<<<<"push", "usb">>>>}, "f"),
                           Node("button", 0, {<<<<"confirm", "confirm">>>>}, "s")>>],
   confirm |-> [rows |-> 2, off |-> "none",
               items |-> <<Node("button", 0, {<<<<"pop">>, <<"item">>, <<"confirm", "dialog">>>>}, "o"),
                           Node("button", 0, {<<<<"pop">>, <<"item">>>>}, "c")>>],
   files  |-> [rows |-> 3, off |-> "none",
               items |-> <<Node("button", 0, {<<<<"push", "volume">>>>}, "v"),
                           Node("button", 0, {<<<<"dialog">>, <<"item">>, <<"pop">>, <<"dialog">>>>,
                                              <<<<"dialog">>, <<"item">>, <<"exit">>, <<"item">>>>}, "f"),
                           Node("button", 0, {<<<<"pop">>, <<"item">>, <<"files", "files", TRUE>>>>}, "e")>>],
   volume |-> [rows |-> 2, off |-> "none",
               items |-> <<Node("button", 0, {<<<<"pop">>, <<"pop">>, <<"item">>, <<"files", "files", TRUE>>>>}, "s")>>],
   usb    |-> [rows |-> 2, off |-> "none",
               items |-> <<Node("button", 0, {<<<<"push", "raw">>>>}, "r"), Node("button", 0, {<<<<"push", "timer">>>>}, "t")>>],
   raw    |-> [rows |-> 1, off |-> "raw", items |-> <<Text>>],
   timer  |-> [rows |-> 1, off |-> "timer", items |-> <<Text>>],
   result |-> [rows |-> 2, off |-> "none", items |-> <<Text, Text>>],
   dialog |-> [rows |-> 2, off |-> "none", items |-> <<Text, Text>>],
   osd    |-> [rows |-> 1, off |-> "osd", items |-> <<Node("button", 0, {<<<<"exit">>>>}, "c")>>]]

\* A list of files is the second menu, a volume the third.
MCLevels == [menu \in DOMAIN MCMenus |->
               CASE menu = "root" -> {0}
                 [] menu \in {"files", "usb", "confirm"} -> {1}
                 [] menu = "dialog" -> {1, 2}
                 [] menu = "osd" -> {1, 2, 3}
                 [] OTHER -> {2}]

\* A list with choices that the machine does not have, the last one too, as the
\* GPIO configurations are on a board without them.
MCLists == [key |-> [n |-> 3, disabled |-> {1, 2}]]
====
