----------------------------- MODULE TaskStates -----------------------------
(***************************************************************************)
(* The status machine of an agent task and the approval vocabulary, as the *)
(* backend declares them: the enumerations of core/enums.ts and the edge   *)
(* table of agent/task-state.ts.  Every other module reads them from here. *)
(***************************************************************************)

\* AGENT_TASK_STATUSES.
Statuses == {"created", "queued", "analyzing", "planning", "waiting_approval",
             "implementing", "testing", "committing", "pushing", "building",
             "completed", "failed", "cancelled"}

\* TERMINAL_TASK_STATUSES: isTerminalStatus.
Terminal == {"completed", "failed", "cancelled"}

\* TRANSITIONS, less the edges to failed and cancelled every open status has.
Forward ==
    [created          |-> {"queued"},
     queued           |-> {"analyzing"},
     analyzing        |-> {"planning", "implementing"},
     planning         |-> {"waiting_approval"},
     waiting_approval |-> {"implementing", "pushing"},
     implementing     |-> {"testing", "committing", "waiting_approval"},
     testing          |-> {"implementing", "committing", "completed"},
     committing       |-> {"waiting_approval", "pushing", "completed"},
     pushing          |-> {"building", "waiting_approval", "completed"},
     building         |-> {"completed"},
     completed        |-> {},
     failed           |-> {},
     cancelled        |-> {}]

\* canTransition(from, to).
CanTransition(from, to) ==
    IF from \in Terminal THEN FALSE
                         ELSE to \in Forward[from] \cup {"failed", "cancelled"}

\* The approval actions a task of any kind can meet (APPROVAL_ACTIONS, less the
\* three no code path requests: deployment, database_migration, service_restart).
ToolGates == {"file_deletion", "chat_edit", "odoo_record_write",
              "odoo_model_create", "browser_session"}
Actions == ToolGates \cup {"implementation_plan", "git_push"}

\* The status an approved action resumes a suspended task into
\* (AgentWorkflow.resumeFromApproval).
Resumption(action) == IF action = "git_push" THEN "pushing" ELSE "implementing"

\* The gates an approved implementation plan already covers for a change task
\* (PermissionValidator.validate): what a plan for an Odoo Online instance is
\* about.
CoveredByPlan == {"odoo_record_write", "odoo_model_create", "browser_session"}

\* Execution modes, and those that work on files.
FileModes == {"clone", "worktree"}
Modes == FileModes \cup {"odoo_online", "none"}

\* The gates the tools of each execution mode, for each kind of task, can hit.
GatesOf(kind, mode) ==
    CASE mode \in FileModes   -> {"file_deletion"} \cup
                                 (IF kind = "chat" THEN {"chat_edit"} ELSE {})
      [] mode = "odoo_online" -> CoveredByPlan
      [] mode = "none"        -> {}
=============================================================================
