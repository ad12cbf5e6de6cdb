----------------------------- MODULE Catalogues -----------------------------
(***************************************************************************)
(* The inverse specifications that come with the program:                  *)
(* src/src/revoco/adapters, one catalogue for each surface, and the        *)
(* starter set of src/src/revoco/reversal/registry.py.                     *)
(*                                                                         *)
(* A specification is kept as far as the engine looks at it: posture,      *)
(* calls of the undo by what they read besides the forward call's          *)
(* arguments and constants, gates by the phase they are asked in, and the  *)
(* window in seconds.  Argument names, residues and notes are left out.    *)
(***************************************************************************)
EXTENDS Reversibility

\* Gates with check_at=PHASE_AUTHORIZE; all other gates are asked before the undo, none
\* is asked in both phases.
AuthorizeGates ==
  {"aws_s3_versioning_enabled", "aws_rds_final_snapshot_taken",
   "entra_object_type_soft_deletes", "k8s_manifest_captured", "db_affected_rows_captured",
   "db_down_migration_exists_and_tested", "fs_content_captured", "fs_tree_captured"}

\* An inverse call; no catalogue has one that is not critical or reads an earlier one.
Reading(sources) ==
  [critical |-> TRUE, snapshot |-> "snapshot" \in sources, result |-> "result" \in sources,
   prior |-> {}]

Sequence(tool, kind, reads, gates, window) ==
  [tool |-> tool, kind |-> kind,
   degraded |-> IF IsUndoable(kind) THEN "irreversible" ELSE kind,
   steps |-> [i \in DOMAIN reads |-> Reading(reads[i])], window |-> window,
   authorizeGates |-> gates \cap AuthorizeGates, undoGates |-> gates \ AuthorizeGates]

\* The single-step shorthand, without a window.
Undo(tool, kind, reads, gates) == Sequence(tool, kind, <<reads>>, gates, 0)

NoUndo(tool, kind) == Sequence(tool, kind, <<>>, {}, 0)

Day == 86400

-----------------------------------------------------------------------------
SapMasterData ==
  {Undo("sap.journalentry.read", "reversible", {}, {}),
   Undo("sap.supplier.read", "reversible", {}, {}),
   Undo("sap.journalentry.post", "compensable", {"result"},
        {"sap_period_open", "sap_items_not_cleared"}),
   NoUndo("sap.journalentry.reverse", "irreversible"),
   Undo("sap.journalentry.park", "reversible", {"result"}, {}),
   Undo("sap.supplier.bank.update", "reversible", {"snapshot"},
        {"sap_bank_dual_control_confirmable"}),
   Undo("sap.supplier.bank.create", "compensable", {}, {"sap_bank_dual_control_confirmable"}),
   Undo("sap.supplier.block", "reversible", {"snapshot"}, {})}

\* The medium is voided, the clearing reset, and the document reversed.
SapPayments ==
  {Sequence("sap.payment.post", "compensable", <<{"result"}, {"result"}, {"result"}>>,
            {"sap_payment_not_settled", "sap_period_open"}, 0),
   NoUndo("sap.paymentrun.execute", "irreversible"),
   NoUndo("sap.paymentfile.transmit", "irreversible")}

WorkdayGates ==
  {"workday_bp_rescindable", "workday_payroll_not_run", "workday_no_dependent_process",
   "workday_integrations_not_consumed"}

WorkdaySpecs ==
  {Undo("workday.worker.read", "reversible", {}, {}),
   Undo("workday.compensation.request_change", "compensable", {"result"}, WorkdayGates),
   Undo("workday.job.change_job", "compensable", {"result"},
        WorkdayGates \ {"workday_integrations_not_consumed"}),
   Undo("workday.staffing.hire", "compensable", {"result"}, WorkdayGates),
   Undo("workday.staffing.terminate", "compensable", {"result"}, WorkdayGates),
   Undo("workday.compensation.correct", "compensable", {"snapshot"},
        {"workday_payroll_not_run"}),
   NoUndo("workday.bp.rescind", "irreversible"),
   NoUndo("workday.payroll.complete", "irreversible"),
   NoUndo("workday.payment.settle", "irreversible")}

CloudStorageAndIam ==
  {Undo("aws.s3.delete_object", "compensable", {"result"},
        {"aws_s3_versioning_enabled", "aws_s3_mfa_delete_not_required"}),
   Undo("aws.s3.put_object", "compensable", {"snapshot"}, {"aws_s3_versioning_enabled"}),
   Undo("aws.iam.create_policy_version", "reversible", {"snapshot"},
        {"aws_iam_policy_version_retained"}),
   Undo("aws.iam.attach_role_policy", "reversible", {}, {}),
   Undo("aws.iam.detach_role_policy", "reversible", {}, {}),
   NoUndo("aws.iam.delete_role", "irreversible")}

CloudNetworkAndData ==
  {Undo("aws.ec2.authorize_security_group_ingress", "reversible", {}, {}),
   Undo("aws.ec2.revoke_security_group_ingress", "reversible", {"snapshot"}, {}),
   NoUndo("aws.ec2.terminate_instances", "irreversible"),
   Undo("aws.rds.delete_db_instance", "compensable", {}, {"aws_rds_final_snapshot_taken"}),
   Undo("aws.route53.change_resource_record_sets", "compensable", {"snapshot"}, {}),
   Undo("aws.kms.schedule_key_deletion", "reversible", {},
        {"aws_kms_key_still_pending_deletion"}),
   Undo("aws.kms.disable_key", "reversible", {}, {}),
   Sequence("aws.s3.put_bucket_policy", "reversible", <<{"snapshot"}, {"snapshot"}>>, {}, 0)}

IdentitySpecs ==
  {Sequence("entra.user.delete", "compensable", <<{}>>,
            {"entra_object_type_soft_deletes", "entra_object_still_in_soft_delete",
             "identity_restore_is_intended"}, 30 * Day),
   Sequence("entra.group.delete", "compensable", <<{}>>,
            {"entra_object_type_soft_deletes", "entra_object_still_in_soft_delete"}, 30 * Day),
   Undo("entra.group.add_member", "reversible", {}, {}),
   Undo("entra.group.remove_member", "reversible", {}, {}),
   Undo("entra.roleassignment.create", "reversible", {"result"}, {}),
   Undo("entra.user.update", "reversible", {"snapshot"}, {}),
   Undo("okta.user.deactivate", "compensable", {}, {"identity_restore_is_intended"}),
   NoUndo("okta.user.delete", "irreversible"),
   Undo("okta.group.add_user", "reversible", {}, {}),
   Undo("okta.group.remove_user", "reversible", {}, {}),
   Undo("okta.policy.deactivate", "reversible", {}, {})}

DevopsGit ==
  {Undo("github.branch.delete", "reversible", {"snapshot"}, {"git_objects_not_collected"}),
   Undo("github.ref.force_update", "reversible", {"snapshot"}, {"git_objects_not_collected"}),
   Undo("github.pr.merge", "compensable", {"result"}, {}),
   Undo("github.repo.update_branch_protection", "reversible", {"snapshot"}, {}),
   NoUndo("github.repo.delete", "irreversible")}

DevopsClusters ==
  {Undo("k8s.resource.delete", "compensable", {"snapshot"},
        {"k8s_manifest_captured", "k8s_persistent_data_retained"}),
   Undo("k8s.resource.apply", "compensable", {"snapshot"}, {}),
   Undo("k8s.deployment.set_image", "compensable", {"snapshot"},
        {"k8s_revision_still_in_history"}),
   Undo("k8s.scale", "reversible", {"snapshot"}, {}),
   NoUndo("k8s.namespace.delete", "irreversible"),
   Undo("flags.set_targeting", "compensable", {"snapshot"}, {}),
   Sequence("k8s.hpa.delete", "compensable", <<{"snapshot"}, {"snapshot"}>>, {}, 0)}

DatabaseSpecs ==
  {Undo("db.select", "reversible", {}, {}),
   Undo("db.update_row", "compensable", {"snapshot"},
        {"db_affected_rows_captured", "db_row_unchanged_since_capture"}),
   Undo("db.delete_rows", "compensable", {"snapshot"}, {"db_affected_rows_captured"}),
   NoUndo("db.execute_sql", "unknown"),
   NoUndo("db.drop_table", "irreversible"),
   NoUndo("db.truncate_table", "irreversible"),
   Undo("db.migrate_up", "compensable", {"snapshot"}, {"db_down_migration_exists_and_tested"}),
   Undo("db.create_index", "reversible", {}, {})}

SaasSpecs ==
  {Sequence("salesforce.record.delete", "compensable", <<{}>>,
            {"salesforce_record_still_in_recycle_bin"}, 15 * Day),
   NoUndo("salesforce.record.hard_delete", "irreversible"),
   Undo("salesforce.record.update", "reversible", {"snapshot"}, {}),
   Undo("slack.chat.post_message", "compensable", {"result"}, {}),
   Undo("slack.chat.update", "compensable", {"snapshot"}, {}),
   NoUndo("slack.chat.delete", "irreversible"),
   Undo("slack.conversations.archive", "reversible", {}, {}),
   Undo("stripe.refund.create", "compensable", {"result"}, {"stripe_refund_requires_action"}),
   NoUndo("stripe.payment_intent.cancel", "irreversible"),
   Undo("stripe.subscription.update", "reversible", {"snapshot"}, {}),
   NoUndo("stripe.subscription.cancel", "irreversible"),
   NoUndo("stripe.customer.delete", "irreversible")}

WorkstationFiles ==
  {NoUndo("fs.read_file", "idempotent"),
   Undo("fs.write_file", "reversible", {"snapshot"}, {"fs_content_captured"}),
   Undo("fs.delete_file", "compensable", {"snapshot"}, {"fs_content_captured"}),
   Undo("fs.move", "reversible", {}, {}),
   Undo("fs.chmod", "reversible", {"snapshot"}, {}),
   Undo("fs.delete_tree", "compensable", {"snapshot"}, {"fs_tree_captured"})}

WorkstationGit ==
  {Undo("git.commit", "reversible", {"snapshot"}, {}),
   Undo("git.checkout", "reversible", {"snapshot"}, {}),
   Undo("git.branch.delete", "reversible", {"snapshot"}, {"git_commit_still_reachable"}),
   Undo("git.reset_hard", "compensable", {"snapshot"}, {"git_commit_still_reachable"}),
   NoUndo("git.clean", "irreversible"),
   NoUndo("git.stash_drop", "irreversible"),
   NoUndo("shell.exec", "unknown"),
   Sequence("git.switch_with_stash", "compensable", <<{"snapshot"}, {"result"}>>, {}, 0)}

-----------------------------------------------------------------------------
\* SURFACES, by name.
Surfaces ==
  [sap |-> SapMasterData \cup SapPayments, workday |-> WorkdaySpecs,
   cloud |-> CloudStorageAndIam \cup CloudNetworkAndData, identity |-> IdentitySpecs,
   devops |-> DevopsGit \cup DevopsClusters, database |-> DatabaseSpecs, saas |-> SaasSpecs,
   workstation |-> WorkstationFiles \cup WorkstationGit]

\* all_specs
SpecsOn(surfaces) == UNION {Surfaces[s] : s \in surfaces}

\* Outside SURFACES: the tools of a benchmark, and the accounts-payable starter set.
EvalReads ==
  {Undo(tool, "reversible", {}, {}) :
     tool \in {"is_arxiv_identifier", "search_identifier", "get_disk_info", "get_memory_info",
               "get_current_time", "get_weather", "get_events_from_calendar", "search_event",
               "tavily_search", "location_encode", "get_stock_price", "get_cpu_info",
               "list_directory", "read_file", "get_alarms", "web_search"}}

EvalPairs ==
  {Undo(tool, "reversible", {"result"}, {}) :
     tool \in {"add_event_to_calendar", "remove_event_from_calendar", "set_alarm",
               "cancel_alarm", "timer"}}

RasEvalSpecs ==
  EvalReads \cup EvalPairs \cup
  {Undo("insert_data", "compensable", {"result"}, {}),
   Undo("download_file", "compensable", {}, {}),
   Undo("convert_file_to_markdown", "compensable", {}, {}),
   Undo("write_file", "compensable", {"snapshot"}, {}),
   NoUndo("send_email", "irreversible"),
   NoUndo("execute_shell_command", "unknown")}

ApStarterSpecs ==
  {Undo("invoices.read", "reversible", {}, {}),
   Sequence("invoices.pay", "compensable", <<{"result"}>>, {}, Day),
   Undo("invoices.approve", "reversible", {"snapshot"}, {}),
   Undo("vendors.update", "reversible", {"snapshot"}, {}),
   Undo("vendors.create", "compensable", {"result"}, {}),
   NoUndo("email.send", "irreversible"),
   NoUndo("payments.wire", "irreversible")}

Shipped == SpecsOn(DOMAIN Surfaces) \cup RasEvalSpecs \cup ApStarterSpecs

\* Tools whose snapshot_fields are for a person to read: no argument of the undo is one.
CapturedToShow ==
  {"workday.compensation.request_change", "workday.job.change_job", "entra.user.delete",
   "entra.group.delete", "okta.user.deactivate", "salesforce.record.delete", "invoices.pay"}

\* The specification has snapshot_fields.
Capturing(spec) ==
  spec.tool \in CapturedToShow \/ ArgsFrom(spec.steps, "snapshot") # {}

\* registry_for says that tool names are namespaced per surface, so combining is safe:
\* no registration replaces another's specification.
ASSUME CombiningIsSafe == \A s, t \in Shipped : s.tool = t.tool => s = t

ASSUME ShippedAreWellFormed == \A s \in Shipped : WellFormedSpec(s)
=============================================================================
