----------------------------- MODULE KeepBlanks -----------------------------
(***************************************************************************)
(* xmlpp::KeepBlanks: an object that sets two settings of the thread for   *)
(* as long as it lives.  libxml2 couples them: to stop keeping blanks is   *)
(* also to start indenting, so the order in which they are saved and       *)
(* restored matters.                                                       *)
(***************************************************************************)

\* External: xmlKeepBlanksDefaultValue and xmlIndentTreeOutput.
Settings == [keepBlanks : BOOLEAN, indent : BOOLEAN]
Initially == [keepBlanks |-> TRUE, indent |-> TRUE]

\* External: xmlKeepBlanksDefault().
XmlKeepBlanksDefault(settings, value) ==
  [keepBlanks |-> value, indent |-> settings.indent \/ ~value]

\* Mutant of Saved: the members are initialized in the other order.
SavedKeepBlanksFirst(settings, value) ==
  [keepBlanks |-> settings.keepBlanks, indent |-> XmlKeepBlanksDefault(settings, value).indent]

\* What KeepBlanks(value) leaves: in its members, and in the settings.
Saved(settings, value) ==
  [keepBlanks |-> settings.keepBlanks, indent |-> settings.indent]
Constructed(settings, value) == XmlKeepBlanksDefault(settings, value)

\* Mutant of Destroyed: the settings are restored in the other order.
DestroyedIndentFirst(settings, saved) ==
  XmlKeepBlanksDefault([settings EXCEPT !.indent = saved.indent], saved.keepBlanks)

Destroyed(settings, saved) ==
  [XmlKeepBlanksDefault(settings, saved.keepBlanks) EXCEPT !.indent = saved.indent]
=============================================================================
