\* Every profile, title and reply, and a profile edited meanwhile.
SPECIFICATION Spec
CONSTANTS
  Names <- MCNames
  Profiles <- MCProfiles
  Edits <- MCEdits
  MaxVersions = 2
  Titles <- MCTitles
  Bodies <- MCBodies
  Routes <- MCRoutes
  Envs <- MCEnvs
  Replies <- MCReplies
INVARIANTS TitleAsWritten PromptAsMeant FollowsOneVersion CompletedIsSuccess
