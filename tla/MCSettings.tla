------------------------------- MODULE MCSettings -------------------------------
EXTENDS SettingsWindow

MCCanonical == [w |-> "w"]
MCTyping == {}
MCHotkeys == {<<"Pause", "">>}

(* Writers against each other; the tools with a crash and a failure; a migration beside the tray;
   the tools with a hand edit. *)
MCBudgets ==
  {[hand |-> 1, offers |-> 1, failures |-> 1, edits |-> 1, tools |-> 0, crashes |-> 0],
   [hand |-> 0, offers |-> 1, failures |-> 0, edits |-> 2, tools |-> 0, crashes |-> 0],
   [hand |-> 0, offers |-> 0, failures |-> 1, edits |-> 0, tools |-> 2, crashes |-> 1],
   [hand |-> 0, offers |-> 1, failures |-> 0, edits |-> 1, tools |-> 2, crashes |-> 0],
   [hand |-> 1, offers |-> 0, failures |-> 0, edits |-> 0, tools |-> 2, crashes |-> 0]}

(* What each writer may change: what the user edited, the mode of a migration, the word. *)
Own(w) == CASE w = "window" -> unsaved [] w = "worker" -> {"mode"} [] w = "saver" -> {"word"}

(* A save changes nothing its draft did not change, whoever saved meanwhile, unless the file was
   edited by hand under the lock (save_configuration_if_unchanged, save_or_merge). *)
NothingUnseenUndone ==
  [][\A w \in Writers : call[w].at = "replace" /\ call'[w].at = "saved" /\ left.hand = call[w].hand =>
       \A a \in Aspects : Aspect(file'.document, a) # Aspect(file.document, a) => a \in Own(w)]_uvars

(* OK and X close the window only when everything the user changed was written; only Cancel and a
   crash lose edits (close_refusal, Saved::Conflict). *)
CloseLosesNothing == win.at = "closed" => unsaved = {}

(* An older text, and the one a migration leaves, is kept exactly before it is replaced, and no
   backup is ever replaced (backup_before_schema_upgrade, backup_before_package_migration). *)
BackupsExact ==
  [][/\ \A name \in DOMAIN backups : name \in DOMAIN backups' /\ backups'[name] = backups[name]
     /\ \A w \in Writers : call[w].at = "replace" /\ call'[w].at = "saved" /\ left.hand = call[w].hand =>
          \A name \in NeededBackups(call[w].document) : name \in DOMAIN backups /\ backups[name] = file]_uvars

(* The configuration names packages only when the store is there: it turns to them last, and not
   when the store is uncertain (save_configuration_if_unchanged after confirm of a migration). *)
ManagedHasStore ==
  Readable(file) /\ win.at # "opens" => (file.document.mode = "managed" => store.exists)

(* What the store took, for certain or not, the agent hears of, even if the window is closed right
   after the confirmation; unless its process crashes, or a thread panics and another does not start. *)
AgentHearsOfChanges ==
  store.changes > store.told ~> (store.told = store.changes \/ win.at = "crashed" \/ left.failures = 0)

(* A prepared change is shown with its Confirm button, and nothing else is: a hidden one would
   block every tool, a shown one that is gone would be confirmed in vain. *)
PreparedIsShown == tools.ready <=> tools.pending # "none"

(* A download the user cancelled is never offered for installation. *)
CancelledNotOffered ==
  [][tools'.pending = "online" /\ tools.pending # "online" => ~tools.cancelled]_uvars

(* Whatever the tools do ends and gives the window back, a lost answer included. *)
ToolsEnd == tools.busy ~> (~tools.busy \/ win.at \in {"closed", "crashed"})

(* No writer keeps the others out for good, and the tray answers every word. *)
LockReturned == lock # "free" ~> lock = "free"
OfferAnswered == offer.saving ~> ~offer.saving

(* The window, the word of the tray and a migration save over each other and lose nothing of it: neither     *)
(* another writer's change, nor what the user edited, nor an older text without its copy.                     *)
SavesLoseNothing == NothingUnseenUndone /\ BackupsExact /\ []CloseLosesNothing

(* The window, the store, the configuration and the agent agree about packages: what is prepared is shown    *)
(* and nothing else confirmed, managed packages have their store, and the agent hears of every change.        *)
PackageChangesKnown ==
  CancelledNotOffered /\ [](PreparedIsShown /\ ManagedHasStore) /\ AgentHearsOfChanges

(* Nothing keeps the user waiting: neither the tools, nor another writer, nor a word offered by the tray.     *)
SettingsGoOn == ToolsEnd /\ LockReturned /\ OfferAnswered
===============================================================================
